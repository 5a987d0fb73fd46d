--------------------------- MODULE KeyCacheProofs ---------------------------
(***************************************************************************)
(* Proofs about KeyCache: for any numbers of requests and keys, and any    *)
(* times, how long a retired key is accepted and what a refusal means.     *)
(***************************************************************************)
EXTENDS KeyCache, TLAPS

(* What the issuer published at time fetched.                              *)
IsSet(keys, fetched) ==
    /\ \A k \in keys : since[k] <= fetched /\ fetched <= until[k]
    /\ \A k \in Keys : since[k] < fetched /\ until[k] = Never => k \in keys

IssuerInv ==
    \A k \in Keys : /\ since[k] # Never => since[k] <= now
                    /\ until[k] # Never => until[k] <= now

CacheInv ==
    Fresh => /\ IsSet(cache.keys, cache.fetched)
             /\ cache.fetched <= now
             /\ cache.expires <= cache.fetched + Delay + TTL

(* An answer that waits to be cached is no older than Delay; what a        *)
(* request finds that has cleared the cache is little older than it.       *)
RequestInv ==
    \A r \in Requests :
        /\ req[r].began <= now
        /\ req[r].at # "idle" => req[r].kid \in Keys
        /\ req[r].at = "put" => /\ IsSet(req[r].keys, req[r].fetched)
                                /\ req[r].began <= req[r].fetched
                                /\ req[r].fetched <= now
                                /\ now <= req[r].fetched + Delay
        /\ req[r].at = "load" /\ req[r].again /\ Fresh => req[r].began <= cache.fetched + Delay

Decided == RetiredKeysExpire /\ PublishedKeysAreFound

IInv == TypeOK /\ IssuerInv /\ CacheInv /\ RequestInv /\ Decided

LEMMA RestingTypes ==
    /\ Empty \in Entry /\ Empty.expires = 0
    /\ Idle \in Request /\ Idle.at = "idle" /\ Idle.began = 0
<1>1. 0 \in Times
  BY Configuration DEF Times
<1> QED BY <1>1 DEF Empty, Entry, Idle, Request

LEMMA InitIInv == Init => IInv
<1> SUFFICES ASSUME Init PROVE IInv
  OBVIOUS
<1>1. TypeOK
  BY RestingTypes, Configuration DEF Init, TypeOK, Times, Never
<1>2. IssuerInv
  <2>1. \A k \in Keys : since[k] \in {0, Never} /\ until[k] = Never
    BY DEF Init
  <2>2. now = 0 /\ 0 <= 0
    BY DEF Init
  <2> QED BY <2>1, <2>2 DEF IssuerInv
<1>3. CacheInv
  BY RestingTypes DEF Init, CacheInv, Fresh
<1>4. RequestInv
  BY RestingTypes DEF Init, RequestInv
<1>5. Decided
  BY RestingTypes DEF Init, Decided, RetiredKeysExpire, PublishedKeysAreFound
<1> QED BY <1>1, <1>2, <1>3, <1>4, <1>5 DEF IInv

(* Request r takes a step to x; the issuer and the clock stay.             *)
LEMMA RequestStep ==
    ASSUME IInv, NEW r \in Requests, NEW x \in Request,
           req' = [req EXCEPT ![r] = x], UNCHANGED <<since, until, now>>,
           cache' \in Entry, CacheInv',
           Fresh' => cache' = cache \/ now <= cache'.fetched + Delay,
           x.began <= now,
           x.at # "idle" => x.kid \in Keys,
           x.at = "put" => /\ IsSet(x.keys, x.fetched)
                           /\ x.began <= x.fetched
                           /\ x.fetched <= now
                           /\ now <= x.fetched + Delay,
           x.at = "load" /\ x.again /\ Fresh' => x.began <= cache'.fetched + Delay,
           x.at = "accepted" =>
             /\ since[x.kid] <= now
             /\ until[x.kid] = Never \/ now <= until[x.kid] + Delay + TTL,
           x.at = "missing" => since[x.kid] + Delay >= x.began \/ until[x.kid] # Never
    PROVE  IInv'
<1>1. \A q \in Requests : req'[q] = IF q = r THEN x ELSE req[q]
  BY DEF IInv, TypeOK
<1>2. TypeOK'
  BY <1>1 DEF IInv, TypeOK
<1>3. IssuerInv'
  BY DEF IInv, IssuerInv
<1>4. \A keys, fetched : IsSet(keys, fetched) => IsSet(keys, fetched)'
  BY DEF IsSet
<1>5. RequestInv'
  <2> SUFFICES ASSUME NEW q \in Requests PROVE
        /\ req'[q].began <= now
        /\ req'[q].at # "idle" => req'[q].kid \in Keys
        /\ req'[q].at = "put" => /\ IsSet(req[q].keys, req[q].fetched)'
                                 /\ req'[q].began <= req'[q].fetched
                                 /\ req'[q].fetched <= now
                                 /\ now <= req'[q].fetched + Delay
        /\ req'[q].at = "load" /\ req'[q].again /\ Fresh' => req'[q].began <= cache'.fetched + Delay
    BY DEF RequestInv
  <2>1. CASE q = r
    BY <1>1, <2>1 DEF IsSet
  <2>2. CASE q # r
    <3>1. req'[q] = req[q]
      BY <1>1, <2>2
    <3>2. req[q].began <= now /\ req[q].began \in Times /\ now \in Times
      BY DEF IInv, TypeOK, RequestInv, Request
    <3>3. Fresh' /\ cache' = cache => Fresh
      BY DEF Fresh
    <3>4. cache'.fetched \in Times
      BY DEF Entry
    <3>5. req[q].at = "load" /\ req[q].again /\ Fresh' => req[q].began <= cache'.fetched + Delay
      BY <3>2, <3>3, <3>4, Configuration DEF IInv, RequestInv, Times
    <3> QED BY <3>1, <3>2, <3>5 DEF IInv, RequestInv, IsSet
  <2> QED BY <2>1, <2>2
<1>6. Decided'
  BY <1>1 DEF IInv, Decided, RetiredKeysExpire, PublishedKeysAreFound
<1> QED BY <1>2, <1>3, <1>5, <1>6 DEF IInv

(* A search in a set of keys that the issuer published at time fetched,    *)
(* which is not too old for the request.                                   *)
LEMMA LookUpStep ==
    ASSUME IInv, NEW r \in Requests, NEW keys \in SUBSET Keys, NEW fetched \in Times,
           req[r].at # "idle", LookUp(r, keys), IsSet(keys, fetched), fetched <= now,
           now <= fetched + Delay + TTL,
           req[r].again => req[r].began <= fetched + Delay,
           cache' \in Entry, CacheInv', Fresh' => cache' = cache \/ now <= cache'.fetched + Delay
    PROVE  IInv'
<1> DEFINE at == IF req[r].kid \in keys THEN "accepted"
                 ELSE IF req[r].again THEN "missing" ELSE "clear"
           x == [at |-> at, kid |-> req[r].kid, again |-> req[r].again,
                 began |-> req[r].began, keys |-> {}, fetched |-> 0]
<1>1. /\ req[r] \in Request /\ req[r].kid \in Keys /\ req[r].began <= now
      /\ req[r].began \in Times /\ now \in Times
  BY DEF IInv, TypeOK, RequestInv, Request
<1>2. x \in Request
  <2>1. 0 \in Times
    BY Configuration DEF Times
  <2> QED BY <1>1, <2>1 DEF Request
<1>3. /\ x.at = at /\ x.kid = req[r].kid /\ x.began = req[r].began
  OBVIOUS
<1>4. req' = [req EXCEPT ![r] = x] /\ UNCHANGED <<since, until, now>>
  BY DEF LookUp, Step
<1>5. since[req[r].kid] \in Times \cup {Never} /\ until[req[r].kid] \in Times \cup {Never}
  BY <1>1 DEF IInv, TypeOK
<1>6. at = "accepted" =>
        /\ since[req[r].kid] <= now
        /\ until[req[r].kid] = Never \/ now <= until[req[r].kid] + Delay + TTL
  <2> SUFFICES ASSUME req[r].kid \in keys
               PROVE  /\ since[req[r].kid] <= now
                      /\ now <= until[req[r].kid] + Delay + TTL
    OBVIOUS
  <2>1. since[req[r].kid] <= fetched /\ fetched <= until[req[r].kid]
    BY DEF IsSet
  <2> QED BY <1>1, <1>5, <2>1, Configuration DEF Times, Never
<1>7. at = "missing" => since[req[r].kid] + Delay >= req[r].began \/ until[req[r].kid] # Never
  <2> SUFFICES ASSUME req[r].kid \notin keys, req[r].again, until[req[r].kid] = Never
               PROVE  since[req[r].kid] + Delay >= req[r].began
    OBVIOUS
  <2>1. ~(since[req[r].kid] < fetched)
    BY <1>1 DEF IsSet
  <2> QED BY <1>1, <1>5, <2>1, Configuration DEF Times, Never
<1>8. at \in {"accepted", "missing", "clear"}
  OBVIOUS
<1> HIDE DEF x, at
<1> QED BY <1>1, <1>2, <1>3, <1>4, <1>6, <1>7, <1>8, RequestStep

LEMMA RequestNext ==
    ASSUME IInv, NEW r \in Requests,
           \/ \E kid \in Keys : Begin(r, kid)
           \/ Hit(r) \/ Miss(r) \/ Fetch(r) \/ FetchFails(r) \/ Put(r) \/ Clear(r) \/ End(r)
    PROVE  IInv'
<1>1. /\ req[r] \in Request /\ cache \in Entry /\ now \in Times /\ 0 \in Times
      /\ req[r].began \in Times /\ req[r].fetched \in Times
      /\ req[r].keys \in SUBSET Keys /\ req[r].again \in BOOLEAN
      /\ cache.fetched \in Times /\ cache.keys \in SUBSET Keys /\ cache.expires \in Nat
  BY Configuration DEF IInv, TypeOK, Request, Entry, Times
<1>2. /\ req[r].began <= now
      /\ req[r].at # "idle" => req[r].kid \in Keys
  BY DEF IInv, RequestInv
<1>3. cache' = cache /\ UNCHANGED <<since, until, now>> => CacheInv'
  BY DEF IInv, CacheInv, Fresh, IsSet
<1>4. cache' = Empty /\ UNCHANGED <<since, until, now>> => cache' \in Entry /\ CacheInv' /\ ~Fresh'
  BY <1>1, RestingTypes DEF CacheInv, Fresh, Times
<1>5. ASSUME NEW kid \in Keys, Begin(r, kid) PROVE IInv'
  <2> DEFINE x == [at |-> "load", kid |-> kid, again |-> FALSE, began |-> now,
                   keys |-> {}, fetched |-> 0]
  <2>1. x \in Request
    BY <1>1 DEF Request
  <2>2. x.at = "load" /\ x.kid = kid /\ ~x.again /\ x.began = now
    OBVIOUS
  <2>3. req' = [req EXCEPT ![r] = x] /\ UNCHANGED <<since, until, now>> /\ cache' = cache
    BY <1>5 DEF Begin
  <2> HIDE DEF x
  <2>4. now <= now
    BY <1>1 DEF Times
  <2> QED BY <1>1, <1>3, <2>1, <2>2, <2>3, <2>4, RequestStep
<1>6. CASE Hit(r)
  <2>1. /\ req[r].at = "load" /\ Fresh /\ LookUp(r, cache.keys) /\ cache' = cache
        /\ UNCHANGED <<since, until, now>>
    BY <1>6 DEF Hit, LookUp, Step
  <2>2. /\ IsSet(cache.keys, cache.fetched) /\ cache.fetched <= now
        /\ cache.expires <= cache.fetched + Delay + TTL
        /\ req[r].again => req[r].began <= cache.fetched + Delay
    BY <2>1 DEF IInv, CacheInv, RequestInv
  <2>3. now <= cache.fetched + Delay + TTL
    BY <1>1, <2>1, <2>2, Configuration DEF Fresh, Times
  <2> QED BY <1>1, <1>3, <2>1, <2>2, <2>3, LookUpStep
<1>7. ASSUME NEW at \in {"fetch", "failed", "load"}, NEW again \in BOOLEAN, req[r].at # "idle",
             Step(r, at, again, {}, 0),
             cache' = Empty \/ (cache' = cache /\ at # "load")
      PROVE  IInv'
  <2> DEFINE x == [at |-> at, kid |-> req[r].kid, again |-> again,
                   began |-> req[r].began, keys |-> {}, fetched |-> 0]
  <2>1. x \in Request
    BY <1>1, <1>2, <1>7 DEF Request
  <2>2. x.at = at /\ x.kid = req[r].kid /\ x.began = req[r].began
    OBVIOUS
  <2>3. req' = [req EXCEPT ![r] = x] /\ UNCHANGED <<since, until, now>>
    BY <1>7 DEF Step
  <2> HIDE DEF x
  <2> QED BY <1>1, <1>2, <1>3, <1>4, <1>7, <2>1, <2>2, <2>3, RequestStep
<1>8. CASE Miss(r)
  BY <1>1, <1>7, <1>8 DEF Miss
<1>9. CASE Clear(r)
  <2> DEFINE x == [at |-> "load", kid |-> req[r].kid, again |-> TRUE,
                   began |-> req[r].began, keys |-> {}, fetched |-> 0]
  <2>1. req[r].at = "clear" /\ cache' = Empty /\ req' = [req EXCEPT ![r] = x]
        /\ UNCHANGED <<since, until, now>>
    BY <1>9 DEF Clear, Step
  <2>2. x \in Request
    BY <1>1, <1>2, <2>1 DEF Request
  <2>3. x.at = "load" /\ x.kid = req[r].kid /\ x.began = req[r].began
    OBVIOUS
  <2> HIDE DEF x
  <2> QED BY <1>1, <1>2, <1>4, <2>1, <2>2, <2>3, RequestStep
<1>10. CASE FetchFails(r)
  BY <1>1, <1>7, <1>10 DEF FetchFails
<1>11. CASE Fetch(r)
  <2>1. CASE Published = {}
    BY <1>1, <1>7, <1>11, <2>1 DEF Fetch
  <2>2. CASE Published # {}
    <3> DEFINE x == [at |-> "put", kid |-> req[r].kid, again |-> req[r].again,
                     began |-> req[r].began, keys |-> Published, fetched |-> now]
    <3>1. x \in Request
      BY <1>1 DEF Request, Published
    <3>2. /\ x.at = "put" /\ x.kid = req[r].kid /\ x.began = req[r].began
          /\ x.keys = Published /\ x.fetched = now
      OBVIOUS
    <3>3. /\ req[r].at = "fetch" /\ req' = [req EXCEPT ![r] = x]
          /\ UNCHANGED <<since, until, now>> /\ cache' = cache
      BY <1>11, <2>2 DEF Fetch, Step
    <3> HIDE DEF x
    <3>4. IsSet(Published, now)
      <4>1. \A k \in Keys : since[k] \in Times \cup {Never} /\ until[k] \in Times \cup {Never}
        BY DEF IInv, TypeOK
      <4> QED BY <1>1, <4>1, Configuration DEF IsSet, Published, IInv, IssuerInv, Times, Never
    <3>5. now <= now /\ now <= now + Delay
      BY <1>1, Configuration DEF Times
    <3> QED BY <1>1, <1>2, <1>3, <3>1, <3>2, <3>3, <3>4, <3>5, RequestStep
  <2> QED BY <2>1, <2>2
<1>12. CASE Put(r)
  <2> DEFINE entry == Cached(r)
  <2>1. /\ req[r].at = "put" /\ cache' = entry /\ LookUp(r, req[r].keys)
        /\ UNCHANGED <<since, until, now>>
    BY <1>12 DEF Put, LookUp, Step
  <2>2. /\ IsSet(req[r].keys, req[r].fetched) /\ req[r].began <= req[r].fetched
        /\ req[r].fetched <= now /\ now <= req[r].fetched + Delay
    BY <2>1 DEF IInv, RequestInv
  <2>3. /\ entry.keys = req[r].keys /\ entry.fetched = req[r].fetched
        /\ entry.expires = now + TTL /\ entry \in Entry
    BY <1>1, Configuration DEF Cached, Entry, Times
  <2> HIDE DEF entry
  <2>4. now + TTL <= req[r].fetched + Delay + TTL /\ now <= req[r].fetched + Delay + TTL
    BY <1>1, <2>2, Configuration DEF Times
  <2>5. CacheInv'
    BY <2>1, <2>2, <2>3, <2>4 DEF CacheInv, IsSet
  <2>6. req[r].began <= req[r].fetched + Delay
    BY <1>1, <2>2, Configuration DEF Times
  <2> QED BY <1>1, <2>1, <2>2, <2>3, <2>4, <2>5, <2>6, LookUpStep
<1>13. CASE End(r)
  <2>1. 0 <= now
    BY <1>1 DEF Times
  <2>2. /\ req' = [req EXCEPT ![r] = Idle] /\ UNCHANGED <<since, until, now>> /\ cache' = cache
    BY <1>13 DEF End
  <2> DEFINE x == Idle
  <2>3. x \in Request /\ x.at = "idle" /\ x.began <= now /\ req' = [req EXCEPT ![r] = x]
    BY <2>1, <2>2, RestingTypes
  <2>4. cache' \in Entry /\ CacheInv'
    BY <1>1, <1>3, <2>2
  <2> HIDE DEF x
  <2> QED BY <2>2, <2>3, <2>4, RequestStep
<1> QED BY <1>5, <1>6, <1>8, <1>9, <1>10, <1>11, <1>12, <1>13

LEMMA PublishNext == ASSUME IInv, NEW k \in Keys, Publish(k) PROVE IInv'
<1>1. /\ since[k] = Never /\ since' = [since EXCEPT ![k] = now]
      /\ UNCHANGED <<until, cache, now, req>>
  BY DEF Publish
<1>2. now \in Times /\ \A j \in Keys : since'[j] = IF j = k THEN now ELSE since[j]
  BY <1>1 DEF IInv, TypeOK
<1>3. TypeOK'
  BY <1>1, <1>2 DEF IInv, TypeOK
<1>4. IssuerInv'
  BY <1>1, <1>2 DEF IInv, IssuerInv, Times
<1>5. ASSUME NEW keys \in SUBSET Keys, NEW fetched \in Times, fetched <= now, IsSet(keys, fetched)
      PROVE  IsSet(keys, fetched)'
  <2>1. k \notin keys
    BY <1>1, <1>5, Configuration DEF IsSet, Times, Never
  <2>2. ~(now < fetched)
    BY <1>2, <1>5, Configuration DEF Times
  <2> QED BY <1>1, <1>2, <1>5, <2>1, <2>2 DEF IsSet
<1>6. CacheInv'
  <2>1. cache.keys \in SUBSET Keys /\ cache.fetched \in Times
    BY DEF IInv, TypeOK, Entry
  <2> QED BY <1>1, <1>5, <2>1 DEF IInv, CacheInv, Fresh
<1>7. RequestInv'
  <2>1. \A r \in Requests : req[r].keys \in SUBSET Keys /\ req[r].fetched \in Times
    BY DEF IInv, TypeOK, Request
  <2> QED BY <1>1, <1>5, <2>1 DEF IInv, RequestInv, Fresh
<1>8. Decided'
  <2>1. \A r \in Requests : req[r].at # "idle" => req[r].kid \in Keys /\ req[r].began <= now
    BY DEF IInv, RequestInv
  <2>2. \A r \in Requests : req[r].began \in Times
    BY DEF IInv, TypeOK, Request
  <2>3. \A r \in Requests : req[r].at = "accepted" => req[r].kid # k
    BY <1>1, <1>2, <2>1, Configuration DEF IInv, Decided, RetiredKeysExpire, Times, Never
  <2>4. RetiredKeysExpire'
    BY <1>1, <1>2, <2>1, <2>3 DEF IInv, Decided, RetiredKeysExpire
  <2>5. PublishedKeysAreFound'
    BY <1>1, <1>2, <2>1, <2>2, Configuration DEF IInv, Decided, PublishedKeysAreFound, Times
  <2> QED BY <2>4, <2>5 DEF Decided
<1> QED BY <1>3, <1>4, <1>6, <1>7, <1>8 DEF IInv

LEMMA RetireNext == ASSUME IInv, NEW k \in Keys, Retire(k) PROVE IInv'
<1>1. /\ until[k] = Never /\ until' = [until EXCEPT ![k] = now]
      /\ UNCHANGED <<since, cache, now, req>>
  BY DEF Retire, Published
<1>2. now \in Times /\ \A j \in Keys : until'[j] = IF j = k THEN now ELSE until[j]
  BY <1>1 DEF IInv, TypeOK
<1>3. TypeOK'
  BY <1>1, <1>2 DEF IInv, TypeOK
<1>4. IssuerInv'
  BY <1>1, <1>2 DEF IInv, IssuerInv, Times
<1>5. now # Never
  BY <1>2, Configuration DEF Times, Never
<1>6. ASSUME NEW keys \in SUBSET Keys, NEW fetched \in Times, fetched <= now, IsSet(keys, fetched)
      PROVE  IsSet(keys, fetched)'
  BY <1>1, <1>2, <1>5, <1>6 DEF IsSet
<1>7. CacheInv'
  <2>1. cache.keys \in SUBSET Keys /\ cache.fetched \in Times
    BY DEF IInv, TypeOK, Entry
  <2> QED BY <1>1, <1>6, <2>1 DEF IInv, CacheInv, Fresh
<1>8. RequestInv'
  <2>1. \A r \in Requests : req[r].keys \in SUBSET Keys /\ req[r].fetched \in Times
    BY DEF IInv, TypeOK, Request
  <2> QED BY <1>1, <1>6, <2>1 DEF IInv, RequestInv, Fresh
<1>9. Decided'
  <2>1. \A r \in Requests : req[r].at # "idle" => req[r].kid \in Keys
    BY DEF IInv, RequestInv
  <2>2. now <= now + Delay + TTL
    BY <1>2, Configuration DEF Times
  <2> QED BY <1>1, <1>2, <1>5, <2>1, <2>2 DEF IInv, Decided, RetiredKeysExpire, PublishedKeysAreFound
<1> QED BY <1>3, <1>4, <1>7, <1>8, <1>9 DEF IInv

LEMMA TickNext == ASSUME IInv, Tick PROVE IInv'
<1>1. /\ now' = now + 1 /\ now' \in Times /\ now \in Times
      /\ UNCHANGED <<since, until, cache, req>>
      /\ \A r \in Requests : /\ req[r].at = "put" => now < req[r].fetched + Delay
                              /\ req[r].at \notin {"accepted", "missing"}
  BY Configuration DEF Tick, IInv, TypeOK, Times
<1>2. TypeOK'
  BY <1>1 DEF IInv, TypeOK
<1>3. IssuerInv'
  <2>1. \A k \in Keys : since[k] \in Times \cup {Never} /\ until[k] \in Times \cup {Never}
    BY DEF IInv, TypeOK
  <2> QED BY <1>1, <2>1, Configuration DEF IInv, IssuerInv, Times, Never
<1>4. Fresh' => Fresh
  <2>1. cache.expires \in Nat
    BY DEF IInv, TypeOK, Entry
  <2> QED BY <1>1, <2>1 DEF Fresh, Times
<1>5. CacheInv'
  <2>1. cache.fetched \in Times
    BY DEF IInv, TypeOK, Entry
  <2>2. cache.fetched <= now => cache.fetched <= now'
    BY <1>1, <2>1 DEF Times
  <2> QED BY <1>1, <1>4, <2>2 DEF IInv, CacheInv, IsSet
<1>6. RequestInv'
  <2>1. \A r \in Requests : req[r].began \in Times /\ req[r].fetched \in Times
    BY DEF IInv, TypeOK, Request
  <2>3. \A keys, fetched : IsSet(keys, fetched) => IsSet(keys, fetched)'
    BY <1>1 DEF IsSet
  <2>4. ASSUME NEW r \in Requests
        PROVE  /\ req[r].began <= now'
               /\ req[r].at # "idle" => req[r].kid \in Keys
               /\ req[r].at = "put" => /\ IsSet(req[r].keys, req[r].fetched)'
                                       /\ req[r].began <= req[r].fetched
                                       /\ req[r].fetched <= now'
                                       /\ now' <= req[r].fetched + Delay
               /\ req[r].at = "load" /\ req[r].again /\ Fresh' => req[r].began <= cache.fetched + Delay
    <3>1. req[r].at = "put" => IsSet(req[r].keys, req[r].fetched)'
      BY <1>1, <2>3, <2>4 DEF IInv, RequestInv
    <3>2. req[r].began \in Times /\ req[r].fetched \in Times
      BY <2>1, <2>4
    <3>3. /\ req[r].began <= now
          /\ req[r].at # "idle" => req[r].kid \in Keys
          /\ req[r].at = "put" => /\ req[r].began <= req[r].fetched
                                  /\ req[r].fetched <= now
                                  /\ now < req[r].fetched + Delay
      BY <1>1, <2>4 DEF IInv, RequestInv
    <3>4. /\ req[r].began <= now'
          /\ req[r].at = "put" => req[r].fetched <= now' /\ now' <= req[r].fetched + Delay
      BY <1>1, <3>2, <3>3, Configuration DEF Times
    <3>5. req[r].at = "load" /\ req[r].again /\ Fresh' => req[r].began <= cache.fetched + Delay
      BY <1>4, <2>4 DEF IInv, RequestInv
    <3> QED BY <3>1, <3>2, <3>3, <3>4, <3>5
  <2> QED BY <1>1, <2>4 DEF RequestInv
<1>7. Decided'
  <2>1. \A r \in Requests : req'[r].at # "accepted" /\ req'[r].at # "missing"
    BY Zenon DEF Tick
  <2> QED BY <2>1 DEF Decided, RetiredKeysExpire, PublishedKeysAreFound
<1> QED BY <1>2, <1>3, <1>5, <1>6, <1>7 DEF IInv

LEMMA NextIInv == IInv /\ [Next]_vars => IInv'
<1> SUFFICES ASSUME IInv, [Next]_vars PROVE IInv'
  OBVIOUS
<1>1. CASE UNCHANGED vars
  BY <1>1 DEF vars, IInv, TypeOK, IssuerInv, CacheInv, RequestInv, IsSet, Decided,
              RetiredKeysExpire, PublishedKeysAreFound, Fresh
<1> QED BY <1>1, RequestNext, PublishNext, RetireNext, TickNext DEF Next

LEMMA IInvHolds == Spec => []IInv
BY InitIInv, NextIInv, PTL DEF Spec

(* Keys, the cache and requests have their types.                          *)
THEOREM TypeCorrect == Spec => []TypeOK
<1>1. IInv => TypeOK
  BY DEF IInv
<1> QED BY <1>1, IInvHolds, PTL

(* However requests overlap, and for any durations, a key is accepted no   *)
(* later than TTL and Delay after the issuer retired it.                   *)
THEOREM RetiredKeysDoExpire == Spec => []RetiredKeysExpire
<1>1. IInv => RetiredKeysExpire
  BY DEF IInv, Decided
<1> QED BY <1>1, IInvHolds, PTL

(* A key that was published more than Delay before a request began, and is *)
(* not retired, is never missing from what the request finds.              *)
THEOREM PublishedKeysAreAlwaysFound == Spec => []PublishedKeysAreFound
<1>1. IInv => PublishedKeysAreFound
  BY DEF IInv, Decided
<1> QED BY <1>1, IInvHolds, PTL

=============================================================================
