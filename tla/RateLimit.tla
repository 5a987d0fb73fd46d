----------------------------- MODULE RateLimit -----------------------------
(***************************************************************************)
(* The rate limiter that all API processes share through a database:       *)
(* DatabaseFixedWindowRateLimiter of shared_rate_limit.py, as the          *)
(* SecurityBoundaryMiddleware of http_security.py asks it.                 *)
(*                                                                         *)
(* A process handles one limited request at a time, since consume runs on  *)
(* its event loop.  It takes the time, then counts the request in the row  *)
(* of its key and window by an upsert, then may delete rows that have      *)
(* expired, and lets the request through or turns it away.  The upsert and *)
(* the delete are transactions of their own, and each may fail, before or  *)
(* after it took effect.  Any time may pass between the steps, also of     *)
(* the clock, up to a bound where the properties need one.                 *)
(*                                                                         *)
(* A definition that stands right before another of the same parameters,   *)
(* and whose name continues the other's, is a plausible mistake in it.     *)
(***************************************************************************)
EXTENDS Naturals, FiniteSets

CONSTANTS
    Processes,         \* API processes
    Requests,          \* HTTP requests that are subject to the limit
    Keys,              \* tenant, actor and address
    Limits,            \* what rate_limit_requests may be set to
    Window,            \* rate_limit_window_seconds
    Retention,         \* rate_limit_retention_seconds
    CleanupInterval,   \* rate_limit_cleanup_interval_seconds
    FailMode,          \* FailMode[p]: rate_limit_fail_mode of process p
    MaxDelay,          \* how far a request's time may lie behind when it is counted
    MaxTime,           \* bound on the clock
    None               \* no process, no key

(* validate_security_configuration of config.py.                           *)
ASSUME Configuration ==
    /\ Limits \subseteq Nat \ {0}
    /\ Window \in Nat \ {0}
    /\ Retention \in Nat /\ Retention >= Window
    /\ CleanupInterval \in Nat \ {0}
    /\ FailMode \in [Processes -> {"open", "closed"}]

(* Clocks of the processes agree, and an upsert ends, within the retention *)
(* of the rows, an hour as the settings come.                              *)
ASSUME RetentionCoversDelay == MaxDelay \in Nat /\ MaxDelay <= Retention

(* Processes start with a last cleanup at 0, long ago.                     *)
ASSUME TimeBound == MaxTime \in Nat /\ MaxTime >= CleanupInterval

Times == 0 .. MaxTime

VARIABLES
    rows,          \* rows[k][w]: count of key k in the window from w, 0 without a row
    now,           \* the time of the fastest clock
    lastCleanup,   \* lastCleanup[p]: time of the last cleanup of process p
    req,           \* req[r]: how far request r is
    limit          \* rate_limit_requests, one setting for all processes

vars == <<rows, now, lastCleanup, req, limit>>

----------------------------------------------------------------------------
(* "served": handed on, within the limit; "refused": 429; "error": 503, or *)
(* no answer; "degraded": handed on although the limiter failed.           *)
Request == [at : {"new", "upsert", "cleanup", "served", "refused", "error", "degraded"},
            proc : Processes \cup {None}, key : Keys \cup {None}, stamp : Times, place : Nat]

TypeOK ==
    /\ rows \in [Keys -> [Times -> Nat]]
    /\ now \in Times
    /\ lastCleanup \in [Processes -> Times]
    /\ req \in [Requests -> Request]
    /\ limit \in Limits

WindowOf(t) == (t \div Window) * Window
Expiry(w) == w + Window + Retention

InFlight(r) == req[r].at \in {"upsert", "cleanup"}

(* The request was counted, as number q.place of key k and window w.       *)
Counted(q) == q.place > 0
Counts(q, k, w) == Counted(q) /\ q.key = k /\ WindowOf(q.stamp) = w

Init ==
    /\ rows = [k \in Keys |-> [w \in Times |-> 0]]
    /\ now = CleanupInterval
    /\ lastCleanup = [p \in Processes |-> 0]
    /\ req = [r \in Requests |->
                [at |-> "new", proc |-> None, key |-> None, stamp |-> 0, place |-> 0]]
    /\ limit \in Limits

----------------------------------------------------------------------------
(* consume                                                                 *)

Arrive(p, r, k, t) ==
    /\ req[r].at = "new"
    /\ \A s \in Requests : InFlight(s) => req[s].proc # p
    /\ t <= now /\ now <= t + MaxDelay
    /\ req' = [req EXCEPT ![r] =
                 [at |-> "upsert", proc |-> p, key |-> k, stamp |-> t, place |-> 0]]
    /\ UNCHANGED <<rows, now, lastCleanup, limit>>

Advance(r, at, place) ==
    req' = [req EXCEPT ![r] = [at |-> at, proc |-> req[r].proc, key |-> req[r].key,
                               stamp |-> req[r].stamp, place |-> place]]

(* INSERT ... ON CONFLICT DO UPDATE SET count = count + 1 RETURNING count. *)
NewCount(r) == rows[req[r].key][WindowOf(req[r].stamp)] + 1

Count(r) ==
    rows' = [k \in Keys |-> [w \in Times |->
                IF k = req[r].key /\ w = WindowOf(req[r].stamp) THEN NewCount(r)
                ELSE rows[k][w]]]

Upsert(r) ==
    /\ req[r].at = "upsert"
    /\ Count(r)
    /\ Advance(r, "cleanup", NewCount(r))
    /\ UNCHANGED <<now, lastCleanup, limit>>

(* dispatch catches whatever consume raises.                               *)
OnErrorOpen(p) == "degraded"
OnError(p) == IF FailMode[p] = "closed" THEN "error" ELSE "degraded"

(* Whether or not the row was committed when the connection failed.        *)
UpsertFails(r) ==
    /\ req[r].at = "upsert"
    /\ \/ UNCHANGED rows /\ Advance(r, OnError(req[r].proc), 0)
       \/ Count(r) /\ Advance(r, OnError(req[r].proc), NewCount(r))
    /\ UNCHANGED <<now, lastCleanup, limit>>

Due(r) == lastCleanup[req[r].proc] + CleanupInterval <= req[r].stamp

ExpiredAtReset(w, t) == w + Window <= t
Expired(w, t) == Expiry(w) <= t

DeleteExpired(t) ==
    rows' = [k \in Keys |-> [w \in Times |-> IF Expired(w, t) THEN 0 ELSE rows[k][w]]]

DecisionOneShort(r) == IF req[r].place < limit THEN "served" ELSE "refused"
Decision(r) == IF req[r].place <= limit THEN "served" ELSE "refused"

Cleanup(r) ==
    /\ req[r].at = "cleanup"
    /\ IF Due(r)
       THEN /\ DeleteExpired(req[r].stamp)
            /\ lastCleanup' = [lastCleanup EXCEPT ![req[r].proc] = req[r].stamp]
       ELSE UNCHANGED <<rows, lastCleanup>>
    /\ Advance(r, Decision(r), req[r].place)
    /\ UNCHANGED <<now, limit>>

(* The request was counted all the same, and the next one cleans up again. *)
CleanupFails(r) ==
    /\ req[r].at = "cleanup"
    /\ Due(r)
    /\ UNCHANGED rows \/ DeleteExpired(req[r].stamp)
    /\ Advance(r, OnError(req[r].proc), req[r].place)
    /\ UNCHANGED <<now, lastCleanup, limit>>

----------------------------------------------------------------------------
(* A process stops, with the request it handles, and starts again.         *)
Restart(p) ==
    /\ lastCleanup' = [lastCleanup EXCEPT ![p] = 0]
    /\ req' = [r \in Requests |->
                 IF InFlight(r) /\ req[r].proc = p
                 THEN [at |-> "error", proc |-> p, key |-> req[r].key,
                       stamp |-> req[r].stamp, place |-> req[r].place]
                 ELSE req[r]]
    /\ UNCHANGED <<rows, now, limit>>

Tick ==
    /\ now < MaxTime
    /\ \A r \in Requests : req[r].at = "upsert" => now < req[r].stamp + MaxDelay
    /\ now' = now + 1
    /\ UNCHANGED <<rows, lastCleanup, req, limit>>

Handle(r) == Upsert(r) \/ UpsertFails(r) \/ Cleanup(r) \/ CleanupFails(r)

Next ==
    \/ \E p \in Processes, r \in Requests, k \in Keys, t \in Times : Arrive(p, r, k, t)
    \/ \E r \in Requests : Handle(r)
    \/ \E p \in Processes : Restart(p)
    \/ Tick

Spec == Init /\ [][Next]_vars

----------------------------------------------------------------------------
(* Properties                                                              *)

(* The requests of a key and window that reach the application.            *)
HandedOn(k, w) ==
    { r \in Requests : /\ \/ req[r].at = "served"
                          \/ req[r].at = "degraded" /\ FailMode[req[r].proc] = "closed"
                       /\ req[r].key = k /\ WindowOf(req[r].stamp) = w }

(* All processes together hand on no more than limit requests of one key   *)
(* and window, whatever fails, restarts or is late, and although rows are  *)
(* deleted; those aside for which the limiter of an open process failed.   *)
(* (shared_rate_limit.py 125-185, http_security.py 118-145)                *)
QuotaHolds == \A k \in Keys, w \in Times : Cardinality(HandedOn(k, w)) <= limit

(* A request is turned away only if limit others of its key and window     *)
(* were counted before: no process skips or takes a place twice.           *)
(* (shared_rate_limit.py 140-146, 181)                                     *)
RefusedOnlyWhenFull ==
    \A r \in Requests : req[r].at = "refused" =>
        \A n \in 1 .. limit : \E s \in Requests \ {r} :
            req[s].place = n /\ Counts(req[s], req[r].key, WindowOf(req[r].stamp))

(* Requests of one key and window never share a place.                     *)
PlacesDiffer ==
    \A r, s \in Requests :
        /\ Counted(req[s]) /\ req[r].place = req[s].place
        /\ Counts(req[r], req[s].key, WindowOf(req[s].stamp))
        => r = s

=============================================================================
