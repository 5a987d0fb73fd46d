------------------------------ MODULE KeyCache ------------------------------
(***************************************************************************)
(* The cache of the issuer's signing keys: _JwksCache, _load_jwks and the  *)
(* search for a key in verify_oidc_token of api/app/auth.py.               *)
(*                                                                         *)
(* The requests of a process share one cached key set.  Each method of the *)
(* cache holds its lock, but a request fetches without it: what it puts    *)
(* may be older than a rotation, or than what another request put.  The    *)
(* issuer publishes and retires keys meanwhile.                            *)
(*                                                                         *)
(* A definition that stands right before another of the same parameters,   *)
(* and whose name continues the other's, is a plausible mistake in it.     *)
(***************************************************************************)
EXTENDS Naturals

CONSTANTS
    Keys,       \* keys the issuer may publish
    Current,    \* those it publishes at the start
    Requests,   \* requests with a token to verify
    TTL,        \* oidc_jwks_cache_seconds
    Delay,      \* between the issuer's answer and its being cached, at most
    MaxTime,    \* bound on the clock
    None

Times == 0 .. MaxTime

ASSUME Configuration ==
    /\ Current \subseteq Keys /\ None \notin Keys
    /\ TTL \in Nat /\ Delay \in Nat /\ MaxTime \in Nat

VARIABLES
    since, until,   \* when a key was published and retired, Never if it was not
    cache,          \* the cached key set
    now,            \* time.monotonic
    req             \* req[r]: how far request r is

vars == <<since, until, cache, now, req>>

Never == MaxTime + 1   \* later than any time

(* A key set, when it was fetched, which is no part of the code, and when  *)
(* it expires in the cache.                                                *)
Entry == [keys : SUBSET Keys, fetched : Times, expires : Nat]
Empty == [keys |-> {}, fetched |-> 0, expires |-> 0]

(* kid: the key of the token; again: it was missing once; began: when the  *)
(* request did; keys, fetched: the issuer's answer.                        *)
Request == [at : {"idle", "load", "fetch", "put", "clear", "accepted", "missing", "failed"},
            kid : Keys \cup {None}, again : BOOLEAN, began : Times,
            keys : SUBSET Keys, fetched : Times]
Idle == [at |-> "idle", kid |-> None, again |-> FALSE, began |-> 0, keys |-> {}, fetched |-> 0]

TypeOK ==
    /\ since \in [Keys -> Times \cup {Never}]
    /\ until \in [Keys -> Times \cup {Never}]
    /\ cache \in Entry
    /\ now \in Times
    /\ req \in [Requests -> Request]

Init ==
    /\ since = [k \in Keys |-> IF k \in Current THEN 0 ELSE Never]
    /\ until = [k \in Keys |-> Never]
    /\ cache = Empty
    /\ now = 0
    /\ req = [r \in Requests |-> Idle]

Published == { k \in Keys : since[k] # Never /\ until[k] = Never }

----------------------------------------------------------------------------
(* verify_oidc_token                                                       *)

Step(r, at, again, keys, fetched) ==
    /\ req' = [req EXCEPT ![r] = [at |-> at, kid |-> req[r].kid, again |-> again,
                                  began |-> req[r].began, keys |-> keys, fetched |-> fetched]]
    /\ UNCHANGED <<since, until, now>>

Begin(r, kid) ==
    /\ req[r].at = "idle"
    /\ req' = [req EXCEPT ![r] = [at |-> "load", kid |-> kid, again |-> FALSE, began |-> now,
                                  keys |-> {}, fetched |-> 0]]
    /\ UNCHANGED <<since, until, cache, now>>

(* The search in a loaded key set; one that fails is repeated once.        *)
LookUp(r, keys) ==
    Step(r, IF req[r].kid \in keys THEN "accepted"
            ELSE IF req[r].again THEN "missing" ELSE "clear", req[r].again, {}, 0)

ClearNothing(r) == req[r].at = "clear" /\ Step(r, "load", TRUE, {}, 0) /\ UNCHANGED cache
Clear(r) ==
    /\ req[r].at = "clear"
    /\ cache' = Empty
    /\ Step(r, "load", TRUE, {}, 0)

----------------------------------------------------------------------------
(* _load_jwks                                                              *)

(* get: an empty cache counts as expired.                                  *)
FreshForever == cache.keys # {}
Fresh == cache.expires > now

Hit(r) ==
    /\ req[r].at = "load"
    /\ Fresh
    /\ LookUp(r, cache.keys)
    /\ UNCHANGED cache

Miss(r) ==
    /\ req[r].at = "load"
    /\ ~Fresh
    /\ cache' = Empty
    /\ Step(r, "fetch", req[r].again, {}, 0)

Fetch(r) ==
    /\ req[r].at = "fetch"
    /\ IF Published # {} THEN Step(r, "put", req[r].again, Published, now)
       ELSE Step(r, "failed", req[r].again, {}, 0)
    /\ UNCHANGED cache

(* The issuer cannot be reached, or answers something else than keys.      *)
FetchFails(r) ==
    /\ req[r].at = "fetch"
    /\ Step(r, "failed", req[r].again, {}, 0)
    /\ UNCHANGED cache

Cached(r) == [keys |-> req[r].keys, fetched |-> req[r].fetched, expires |-> now + TTL]

Put(r) ==
    /\ req[r].at = "put"
    /\ cache' = Cached(r)
    /\ LookUp(r, req[r].keys)

(* The token is accepted or refused, and the request goes on without it.   *)
End(r) ==
    /\ req[r].at \in {"accepted", "missing", "failed"}
    /\ req' = [req EXCEPT ![r] = Idle]
    /\ UNCHANGED <<since, until, cache, now>>

----------------------------------------------------------------------------
(* The issuer and the clock                                                *)

Publish(k) ==
    /\ since[k] = Never
    /\ since' = [since EXCEPT ![k] = now]
    /\ UNCHANGED <<until, cache, now, req>>

Retire(k) ==
    /\ k \in Published
    /\ until' = [until EXCEPT ![k] = now]
    /\ UNCHANGED <<since, cache, now, req>>

Tick ==
    /\ now < MaxTime
    /\ \A r \in Requests :
         /\ req[r].at = "put" => now < req[r].fetched + Delay
         /\ req[r].at \notin {"accepted", "missing"}
    /\ now' = now + 1
    /\ UNCHANGED <<since, until, cache, req>>

Next ==
    \/ \E r \in Requests :
         \/ \E kid \in Keys : Begin(r, kid)
         \/ Hit(r) \/ Miss(r) \/ Fetch(r) \/ FetchFails(r) \/ Put(r) \/ Clear(r) \/ End(r)
    \/ \E k \in Keys : Publish(k) \/ Retire(k)
    \/ Tick

Spec == Init /\ [][Next]_vars

----------------------------------------------------------------------------
(* Properties                                                              *)

(* A retired key is accepted no longer than the cache keeps a set that was *)
(* fetched when the key was still published, whichever requests put which  *)
(* sets in which order.  (auth.py 30-43, 83-111)                           *)
RetiredKeysExpire ==
    \A r \in Requests : req[r].at = "accepted" =>
        /\ since[req[r].kid] <= now
        /\ until[req[r].kid] = Never \/ now <= until[req[r].kid] + Delay + TTL

(* A token is refused for a missing key only if that key had just been     *)
(* published when the request began, or not at all, or was retired: the    *)
(* retry may find what another request fetched earlier and put after the   *)
(* cache was cleared, but nothing older than that.  (auth.py 127-135)      *)
PublishedKeysAreFound ==
    \A r \in Requests : req[r].at = "missing" =>
        \/ since[req[r].kid] + Delay >= req[r].began
        \/ until[req[r].kid] # Never

=============================================================================
