-------------------------- MODULE RateLimitProofs --------------------------
(***************************************************************************)
(* Proofs about RateLimit and HttpBoundary.  The places that a row gives   *)
(* to requests are the heart of it: while the row of a window is there,    *)
(* the places given are those from 1 to its count, each once; when the row *)
(* is deleted, the window is too long past for any request to be counted   *)
(* in it again.                                                            *)
(***************************************************************************)
EXTENDS HttpBoundary, FiniteSetTheorems, TLAPS

(* What a request knows at each of its steps.                              *)
RequestsOK ==
    \A r \in Requests :
        /\ req[r].at \in {"new", "upsert"} => req[r].place = 0
        /\ req[r].at = "cleanup" => req[r].place > 0
        /\ InFlight(r) => /\ req[r].proc \in Processes /\ req[r].key \in Keys
                          /\ req[r].stamp <= now
        /\ req[r].at = "upsert" => now <= req[r].stamp + MaxDelay
        /\ req[r].at = "served" => req[r].place \in 1 .. limit
        /\ req[r].at = "refused" => req[r].place > limit
        /\ req[r].at = "degraded" => FailMode[req[r].proc] = "open"

(* A counted request is within the count of its row, or its row expired.   *)
PlacesInRow ==
    \A r \in Requests : Counted(req[r]) =>
        /\ req[r].key \in Keys
        /\ LET count == rows[req[r].key][WindowOf(req[r].stamp)]
           IN IF count = 0 THEN Expiry(WindowOf(req[r].stamp)) <= now
              ELSE req[r].place <= count

(* Every place up to the count of a row was given to a request.            *)
RowsFilled ==
    \A k \in Keys, w \in Times : \A n \in 1 .. rows[k][w] :
        \E s \in Requests : req[s].place = n /\ Counts(req[s], k, w)

(* So was every place before that of a counted request.                    *)
PlacesFilled ==
    \A r \in Requests : \A n \in 1 .. req[r].place - 1 :
        \E s \in Requests : req[s].place = n /\ Counts(req[s], req[r].key, WindowOf(req[r].stamp))

Inv == TypeOK /\ RequestsOK /\ PlacesInRow /\ RowsFilled /\ PlacesFilled /\ PlacesDiffer

USE Configuration, RetentionCoversDelay, TimeBound

----------------------------------------------------------------------------
(* Whatever the limit is, it is one that config.py accepts.                *)
LEMMA LimitIsPositive == TypeOK => limit \in Nat \ {0}
BY DEF TypeOK

LEMMA WindowBounds ==
    ASSUME NEW t \in Times
    PROVE  /\ WindowOf(t) \in Times
           /\ WindowOf(t) <= t /\ t < WindowOf(t) + Window
<1>1. t \in Nat /\ t <= MaxTime
  BY DEF Times
<1>2. WindowOf(t) \in Nat /\ WindowOf(t) <= t /\ t < WindowOf(t) + Window
  BY <1>1 DEF WindowOf
<1> QED
  BY <1>1, <1>2 DEF Times

(* The parts of the invariant that speak of requests alone last while      *)
(* counted requests keep key, time and place and no request is counted.    *)
Keep == \A s \in Requests :
           /\ req'[s].place = req[s].place
           /\ Counted(req[s]) => req'[s].key = req[s].key /\ req'[s].stamp = req[s].stamp

LEMMA CountsLast ==
    ASSUME Keep, NEW s \in Requests, NEW k, NEW w
    PROVE  Counts(req'[s], k, w) <=> Counts(req[s], k, w)
<1>1. Counted(req'[s]) <=> Counted(req[s])
  BY DEF Keep, Counted
<1>2. CASE Counted(req[s])
  BY <1>1, <1>2 DEF Keep, Counts
<1>3. CASE ~Counted(req[s])
  BY <1>1, <1>3 DEF Counts
<1> QED
  BY <1>2, <1>3

LEMMA PlacesLast ==
    ASSUME TypeOK, PlacesFilled, PlacesDiffer, Keep
    PROVE  PlacesFilled' /\ PlacesDiffer'
<1>1. PlacesFilled'
  <2> SUFFICES ASSUME NEW r \in Requests, NEW n \in 1 .. req'[r].place - 1
               PROVE  \E s \in Requests : /\ req'[s].place = n
                                          /\ Counts(req'[s], req'[r].key, WindowOf(req'[r].stamp))
    BY DEF PlacesFilled
  <2>1. n \in 1 .. req[r].place - 1 /\ req[r].place \in Nat
    BY DEF Keep, TypeOK, Request
  <2>2. req'[r].key = req[r].key /\ req'[r].stamp = req[r].stamp
    BY <2>1 DEF Keep, Counted
  <2>3. PICK s \in Requests : /\ req[s].place = n
                              /\ Counts(req[s], req[r].key, WindowOf(req[r].stamp))
    BY <2>1 DEF PlacesFilled
  <2>4. Counts(req'[s], req[r].key, WindowOf(req[r].stamp))
    BY <2>3, CountsLast
  <2> QED
    BY <2>2, <2>3, <2>4 DEF Keep
<1>2. PlacesDiffer'
  <2> SUFFICES ASSUME NEW r \in Requests, NEW s \in Requests,
                      Counted(req'[s]), req'[r].place = req'[s].place,
                      Counts(req'[r], req'[s].key, WindowOf(req'[s].stamp))
               PROVE  r = s
    BY DEF PlacesDiffer
  <2>1. Counted(req[s]) /\ req[r].place = req[s].place
    BY DEF Keep, Counted
  <2>2. req'[s].key = req[s].key /\ req'[s].stamp = req[s].stamp
    BY <2>1 DEF Keep
  <2>3. Counts(req[r], req[s].key, WindowOf(req[s].stamp))
    BY <2>2, CountsLast
  <2> QED
    BY <2>1, <2>3 DEF PlacesDiffer
<1> QED
  BY <1>1, <1>2

(* So do the parts about rows, also when rows that have expired are gone.  *)
RowsKept ==
    \A k \in Keys, w \in Times :
        rows'[k][w] = rows[k][w] \/ (rows'[k][w] = 0 /\ Expiry(w) <= now')

LEMMA RowsLast ==
    ASSUME TypeOK, PlacesInRow, RowsFilled, Keep, RowsKept, now' \in Times, now <= now'
    PROVE  PlacesInRow' /\ RowsFilled'
<1>1. PlacesInRow'
  <2> SUFFICES ASSUME NEW r \in Requests, Counted(req'[r])
               PROVE  /\ req'[r].key \in Keys
                      /\ LET count == rows'[req'[r].key][WindowOf(req'[r].stamp)]
                         IN IF count = 0 THEN Expiry(WindowOf(req'[r].stamp)) <= now'
                            ELSE req'[r].place <= count
    BY DEF PlacesInRow
  <2>1. /\ Counted(req[r]) /\ req'[r].place = req[r].place
        /\ req'[r].key = req[r].key /\ req'[r].stamp = req[r].stamp
    BY DEF Keep, Counted
  <2> DEFINE k == req[r].key
             w == WindowOf(req[r].stamp)
  <2>2. k \in Keys /\ (IF rows[k][w] = 0 THEN Expiry(w) <= now ELSE req[r].place <= rows[k][w])
    BY <2>1 DEF PlacesInRow
  <2>3. w \in Times
    BY WindowBounds DEF TypeOK, Request
  <2>4. rows'[k][w] = rows[k][w] \/ (rows'[k][w] = 0 /\ Expiry(w) <= now')
    BY <2>2, <2>3 DEF RowsKept
  <2>5. now \in Nat /\ now' \in Nat /\ Expiry(w) \in Nat
    BY <2>3 DEF TypeOK, Times, Expiry
  <2>6. k \in Keys /\ (IF rows'[k][w] = 0 THEN Expiry(w) <= now' ELSE req[r].place <= rows'[k][w])
    BY <2>2, <2>4, <2>5
  <2> QED
    BY <2>1, <2>6
<1>2. RowsFilled'
  <2> SUFFICES ASSUME NEW k \in Keys, NEW w \in Times, NEW n \in 1 .. rows'[k][w]
               PROVE  \E s \in Requests : req'[s].place = n /\ Counts(req'[s], k, w)
    BY DEF RowsFilled
  <2>1. n \in 1 .. rows[k][w]
    BY DEF RowsKept
  <2>2. PICK s \in Requests : req[s].place = n /\ Counts(req[s], k, w)
    BY <2>1 DEF RowsFilled
  <2> QED
    BY <2>2, CountsLast DEF Keep
<1> QED
  BY <1>1, <1>2

----------------------------------------------------------------------------
(* Counting a request                                                      *)

(* The request that is counted, and how its record changes.                *)
LEMMA CountType ==
    ASSUME TypeOK, RequestsOK, NEW r \in Requests, req[r].at = "upsert"
    PROVE  /\ req[r].key \in Keys /\ WindowOf(req[r].stamp) \in Times
           /\ NewCount(r) \in Nat \ {0}
           /\ NewCount(r) = rows[req[r].key][WindowOf(req[r].stamp)] + 1
           /\ now < Expiry(WindowOf(req[r].stamp))
<1>1. req[r].key \in Keys /\ req[r].stamp \in Times /\ now <= req[r].stamp + MaxDelay
  BY DEF RequestsOK, InFlight, TypeOK, Request
<1> DEFINE w == WindowOf(req[r].stamp)
<1>2. w \in Times /\ w <= req[r].stamp /\ req[r].stamp < w + Window
  BY <1>1, WindowBounds
<1>3. rows[req[r].key][w] \in Nat
  BY <1>1, <1>2 DEF TypeOK
<1>4. now < Expiry(w)
  BY <1>1, <1>2 DEF Expiry, Times, TypeOK
<1> QED
  BY <1>1, <1>2, <1>3, <1>4 DEF NewCount

LEMMA CountStep ==
    ASSUME Inv, NEW r \in Requests, req[r].at = "upsert", Count(r),
           NEW at, Advance(r, at, NewCount(r)), now' = now
    PROVE  PlacesInRow' /\ RowsFilled' /\ PlacesFilled' /\ PlacesDiffer'
<1> DEFINE k == req[r].key
           w == WindowOf(req[r].stamp)
           c == NewCount(r)
<1>1. k \in Keys /\ w \in Times /\ c \in Nat \ {0} /\ c = rows[k][w] + 1 /\ now < Expiry(w)
  BY CountType DEF Inv
<1>2. /\ req'[r].place = c /\ req'[r].key = k /\ req'[r].stamp = req[r].stamp
      /\ \A s \in Requests \ {r} : req'[s] = req[s]
  BY DEF Advance, Inv, TypeOK
<1>3. /\ rows'[k][w] = c
      /\ \A j \in Keys, v \in Times : ~(j = k /\ v = w) => rows'[j][v] = rows[j][v]
  BY <1>1 DEF Count
<1>4. req[r].place = 0
  BY DEF Inv, RequestsOK
<1>5. Counts(req'[r], k, w)
  BY <1>1, <1>2 DEF Counts, Counted
<1>6. \A s \in Requests : \A j, v : Counts(req[s], j, v) => s # r /\ Counts(req'[s], j, v)
  BY <1>2, <1>4 DEF Counts, Counted
<1>7. \A s \in Requests : Counts(req[s], k, w) => req[s].place <= rows[k][w] /\ req[s].place < c
  <2> SUFFICES ASSUME NEW s \in Requests, Counts(req[s], k, w)
               PROVE  req[s].place <= rows[k][w] /\ req[s].place < c
    OBVIOUS
  <2>1. IF rows[k][w] = 0 THEN Expiry(w) <= now ELSE req[s].place <= rows[k][w]
    BY DEF Inv, PlacesInRow, Counts
  <2>2. req[s].place \in Nat
    BY DEF Inv, TypeOK, Request
  <2>3. rows[k][w] \in Nat
    BY <1>1 DEF Inv, TypeOK
  <2>4. now \in Nat /\ Expiry(w) \in Nat
    BY <1>1 DEF Inv, TypeOK, Times, Expiry
  <2> QED
    BY <1>1, <2>1, <2>2, <2>3, <2>4
<1> HIDE DEF k, w, c
<1>8. RowsFilled'
  <2> SUFFICES ASSUME NEW j \in Keys, NEW v \in Times, NEW n \in 1 .. rows'[j][v]
               PROVE  \E s \in Requests : req'[s].place = n /\ Counts(req'[s], j, v)
    BY DEF RowsFilled
  <2>1. CASE j = k /\ v = w /\ n = c
    BY <2>1, <1>2, <1>5
  <2>2. CASE ~(j = k /\ v = w /\ n = c)
    <3>1. n \in 1 .. rows[j][v]
      <4>1. rows[k][w] \in Nat
        BY <1>1 DEF Inv, TypeOK
      <4> QED
        BY <4>1, <2>2, <1>1, <1>3
    <3>2. PICK s \in Requests : req[s].place = n /\ Counts(req[s], j, v)
      BY <3>1 DEF Inv, RowsFilled
    <3> QED
      BY <3>2, <1>6, <1>2
  <2> QED
    BY <2>1, <2>2
<1>9. PlacesInRow'
  <2> SUFFICES ASSUME NEW s \in Requests, Counted(req'[s])
               PROVE  /\ req'[s].key \in Keys
                      /\ LET count == rows'[req'[s].key][WindowOf(req'[s].stamp)]
                         IN IF count = 0 THEN Expiry(WindowOf(req'[s].stamp)) <= now'
                            ELSE req'[s].place <= count
    BY DEF PlacesInRow
  <2>1. CASE s = r
    <3>1. WindowOf(req'[r].stamp) = w /\ req'[r].key = k /\ req'[r].place = c
      BY <1>2, <1>5 DEF Counts
    <3>2. rows'[k][w] # 0 /\ c <= rows'[k][w] /\ k \in Keys
      BY <1>1, <1>3
    <3> QED
      BY <2>1, <3>1, <3>2
  <2>2. CASE s # r /\ Counts(req[s], k, w)
    <3>1. req[s].place <= c /\ req'[s] = req[s] /\ req[s].key = k /\ WindowOf(req[s].stamp) = w
      <4>1. req[s].place \in Nat
        BY DEF Inv, TypeOK, Request
      <4> QED
        BY <4>1, <2>2, <1>7, <1>2, <1>1 DEF Counts
    <3>2. rows'[k][w] # 0 /\ rows'[k][w] = c /\ k \in Keys
      BY <1>1, <1>3
    <3> QED
      BY <3>1, <3>2
  <2>3. CASE s # r /\ ~Counts(req[s], k, w)
    <3>1. Counted(req[s]) /\ req'[s] = req[s]
      BY <2>3, <1>2
    <3>2. WindowOf(req[s].stamp) \in Times
      BY WindowBounds DEF Inv, TypeOK, Request
    <3>3. /\ req[s].key \in Keys
          /\ LET count == rows[req[s].key][WindowOf(req[s].stamp)]
             IN IF count = 0 THEN Expiry(WindowOf(req[s].stamp)) <= now
                ELSE req[s].place <= count
      BY <3>1 DEF Inv, PlacesInRow
    <3>4. rows'[req[s].key][WindowOf(req[s].stamp)] = rows[req[s].key][WindowOf(req[s].stamp)]
      BY <2>3, <3>1, <3>2, <3>3, <1>3 DEF Counts
    <3> QED
      BY <3>1, <3>3, <3>4
  <2> QED
    BY <2>1, <2>2, <2>3
<1>10. PlacesFilled'
  <2> SUFFICES ASSUME NEW s \in Requests, NEW n \in 1 .. req'[s].place - 1
               PROVE  \E t \in Requests : /\ req'[t].place = n
                                          /\ Counts(req'[t], req'[s].key, WindowOf(req'[s].stamp))
    BY DEF PlacesFilled
  <2>1. CASE s = r
    <3>1. n \in 1 .. rows[k][w]
      <4>1. rows[k][w] \in Nat
        BY <1>1 DEF Inv, TypeOK
      <4> QED
        BY <4>1, <2>1, <1>1, <1>2
    <3>2. PICK t \in Requests : req[t].place = n /\ Counts(req[t], k, w)
      BY <3>1, <1>1 DEF Inv, RowsFilled
    <3>3. WindowOf(req'[r].stamp) = w /\ req'[r].key = k
      BY <1>5 DEF Counts
    <3> QED
      BY <2>1, <3>2, <3>3, <1>6, <1>2
  <2>2. CASE s # r
    <3>1. req'[s] = req[s]
      BY <2>2, <1>2
    <3>2. PICK t \in Requests : req[t].place = n /\ Counts(req[t], req[s].key, WindowOf(req[s].stamp))
      BY <3>1 DEF Inv, PlacesFilled
    <3> QED
      BY <3>1, <3>2, <1>6, <1>2
  <2> QED
    BY <2>1, <2>2
<1>11. PlacesDiffer'
  <2> SUFFICES ASSUME NEW s \in Requests, NEW t \in Requests,
                      Counted(req'[t]), req'[s].place = req'[t].place,
                      Counts(req'[s], req'[t].key, WindowOf(req'[t].stamp)), s # t
               PROVE  FALSE
    BY DEF PlacesDiffer
  <2>1. CASE s # r /\ t # r
    <3>1. req'[s] = req[s] /\ req'[t] = req[t]
      BY <2>1, <1>2
    <3> QED
      BY <3>1 DEF Inv, PlacesDiffer
  <2>2. ASSUME NEW u \in Requests, u # r, req'[u].place = c, Counts(req'[u], k, w)
        PROVE  FALSE
    <3>1. req[u].place = c /\ Counts(req[u], k, w)
      BY <2>2, <1>2
    <3> QED
      BY <3>1, <1>1, <1>7
  <2>3. CASE t = r
    <3>1. req'[t].key = k /\ WindowOf(req'[t].stamp) = w /\ req'[t].place = c
      BY <2>3, <1>2, <1>5 DEF Counts
    <3> QED
      BY <2>2, <2>3, <3>1
  <2>4. CASE s = r
    <3>1. req'[s].key = k /\ WindowOf(req'[s].stamp) = w /\ req'[s].place = c
      BY <2>4, <1>2, <1>5 DEF Counts
    <3>2. Counts(req'[t], k, w)
      BY <3>1 DEF Counts
    <3> QED
      BY <2>2, <2>4, <3>1, <3>2
  <2> QED
    BY <2>1, <2>3, <2>4
<1> QED
  BY <1>8, <1>9, <1>10, <1>11

----------------------------------------------------------------------------
(* The invariant                                                           *)

LEMMA InvInit == Init => Inv
<1> SUFFICES ASSUME Init PROVE Inv
  OBVIOUS
<1>1. TypeOK
  BY DEF Init, TypeOK, Times, Request
<1>2. \A r \in Requests : req[r].at = "new" /\ req[r].place = 0
  BY DEF Init
<1>3. RequestsOK
  BY <1>2 DEF RequestsOK, InFlight
<1>4. PlacesInRow /\ PlacesFilled /\ PlacesDiffer
  BY <1>2 DEF PlacesInRow, PlacesFilled, PlacesDiffer, Counted
<1>5. RowsFilled
  BY DEF RowsFilled, Init
<1> QED
  BY <1>1, <1>3, <1>4, <1>5 DEF Inv

(* A request's record after a step of its own.                             *)
LEMMA AdvanceType ==
    ASSUME TypeOK, NEW r \in Requests, NEW at, NEW place \in Nat, Advance(r, at, place),
           at \in {"new", "upsert", "cleanup", "served", "refused", "error", "degraded"}
    PROVE  /\ req' \in [Requests -> Request]
           /\ req'[r].at = at /\ req'[r].place = place
           /\ req'[r].proc = req[r].proc /\ req'[r].key = req[r].key
           /\ req'[r].stamp = req[r].stamp
           /\ \A s \in Requests \ {r} : req'[s] = req[s]
<1>1. req[r].proc \in Processes \cup {None} /\ req[r].key \in Keys \cup {None}
      /\ req[r].stamp \in Times
  BY DEF TypeOK, Request
<1> DEFINE new == [at |-> at, proc |-> req[r].proc, key |-> req[r].key,
                   stamp |-> req[r].stamp, place |-> place]
<1>2. new \in Request
  BY <1>1 DEF Request
<1>3. /\ new.at = at /\ new.place = place /\ new.proc = req[r].proc
      /\ new.key = req[r].key /\ new.stamp = req[r].stamp
  OBVIOUS
<1>4. req' = [req EXCEPT ![r] = new]
  BY DEF Advance
<1> HIDE DEF new
<1>5. req'[r] = new /\ req' \in [Requests -> Request]
      /\ \A s \in Requests \ {r} : req'[s] = req[s]
  BY <1>2, <1>4 DEF TypeOK
<1> QED
  BY <1>3, <1>5

(* A request that takes a step in flight still knows what it should.       *)
LEMMA AdvanceOK ==
    ASSUME TypeOK, RequestsOK, NEW r \in Requests, InFlight(r),
           now' = now, limit' = limit,
           NEW at \in {"cleanup", "served", "refused", "error", "degraded"},
           NEW place \in Nat, Advance(r, at, place),
           at = "cleanup" => place > 0,
           at = "served" => place \in 1 .. limit,
           at = "refused" => place > limit,
           at = "degraded" => FailMode[req[r].proc] = "open"
    PROVE  RequestsOK'
<1>1. /\ req'[r].at = at /\ req'[r].place = place
      /\ req'[r].proc = req[r].proc /\ req'[r].key = req[r].key
      /\ req'[r].stamp = req[r].stamp
      /\ \A s \in Requests \ {r} : req'[s] = req[s]
  BY AdvanceType
<1>2. req[r].proc \in Processes /\ req[r].key \in Keys /\ req[r].stamp <= now
  BY DEF RequestsOK
<1> QED
  BY <1>1, <1>2 DEF RequestsOK, InFlight

LEMMA KeepsPlaces ==
    ASSUME TypeOK, NEW r \in Requests,
           NEW at \in {"cleanup", "served", "refused", "error", "degraded"},
           Advance(r, at, req[r].place)
    PROVE  Keep
<1>1. req[r].place \in Nat
  BY DEF TypeOK, Request
<1> QED
  BY <1>1, AdvanceType DEF Keep

LEMMA ErrorIsKnown ==
    ASSUME NEW p \in Processes
    PROVE  OnError(p) \in {"error", "degraded"} /\ (OnError(p) = "degraded" => FailMode[p] = "open")
BY DEF OnError

LEMMA CountIsTyped ==
    ASSUME TypeOK, RequestsOK, NEW r \in Requests, req[r].at = "upsert", Count(r)
    PROVE  rows' \in [Keys -> [Times -> Nat]]
BY CountType DEF Count, TypeOK

LEMMA DeleteIsTyped ==
    ASSUME TypeOK, NEW t \in Times, DeleteExpired(t)
    PROVE  rows' \in [Keys -> [Times -> Nat]]
BY DEF DeleteExpired, TypeOK

LEMMA DeleteKeepsRows ==
    ASSUME TypeOK, NEW t \in Times, t <= now, now' = now, DeleteExpired(t)
    PROVE  RowsKept
<1> SUFFICES ASSUME NEW k \in Keys, NEW w \in Times
             PROVE  rows'[k][w] = rows[k][w] \/ (rows'[k][w] = 0 /\ Expiry(w) <= now')
  BY DEF RowsKept
<1>1. rows'[k][w] = IF Expired(w, t) THEN 0 ELSE rows[k][w]
  BY DEF DeleteExpired
<1>2. Expired(w, t) => Expiry(w) <= now
  BY DEF Expired, Expiry, TypeOK, Times
<1> QED
  BY <1>1, <1>2

----------------------------------------------------------------------------
(* The steps                                                               *)

LEMMA ArriveStep ==
    ASSUME Inv, NEW p \in Processes, NEW r \in Requests, NEW k \in Keys, NEW t \in Times,
           Arrive(p, r, k, t)
    PROVE  Inv'
<1> DEFINE new == [at |-> "upsert", proc |-> p, key |-> k, stamp |-> t, place |-> 0]
<1>1. /\ req' = [req EXCEPT ![r] = new]
      /\ rows' = rows /\ now' = now /\ lastCleanup' = lastCleanup /\ limit' = limit
      /\ req[r].at = "new" /\ t <= now /\ now <= t + MaxDelay
  BY DEF Arrive
<1>2. /\ new \in Request /\ new.at = "upsert" /\ new.proc = p /\ new.key = k
      /\ new.stamp = t /\ new.place = 0
  BY DEF Request
<1> HIDE DEF new
<1>3. req'[r] = new /\ \A s \in Requests \ {r} : req'[s] = req[s]
  BY <1>1 DEF Inv, TypeOK
<1>4. TypeOK'
  BY <1>1, <1>2 DEF Inv, TypeOK
<1>5. RequestsOK'
  BY <1>1, <1>2, <1>3 DEF Inv, RequestsOK, InFlight
<1>6. Keep
  <2>1. req[r].place = 0
    BY <1>1 DEF Inv, RequestsOK
  <2> QED
    BY <2>1, <1>2, <1>3 DEF Keep, Counted
<1>7. RowsKept /\ now' \in Times /\ now <= now'
  BY <1>1 DEF RowsKept, Inv, TypeOK, Times
<1> QED
  BY <1>4, <1>5, <1>6, <1>7, PlacesLast, RowsLast DEF Inv

LEMMA UpsertStep ==
    ASSUME Inv, NEW r \in Requests, Upsert(r) \/ UpsertFails(r)
    PROVE  Inv'
<1>1. /\ req[r].at = "upsert" /\ InFlight(r) /\ req[r].place = 0 /\ req[r].proc \in Processes
      /\ now' = now /\ lastCleanup' = lastCleanup /\ limit' = limit
  BY DEF Upsert, UpsertFails, InFlight, Inv, RequestsOK
<1>2. CASE /\ Count(r)
           /\ \E at \in {"cleanup", OnError(req[r].proc)} : Advance(r, at, NewCount(r))
  <2>1. PICK at \in {"cleanup", OnError(req[r].proc)} : Advance(r, at, NewCount(r))
    BY <1>2
  <2>2. NewCount(r) \in Nat \ {0}
    BY <1>1, CountType DEF Inv
  <2>3. at \in {"cleanup", "served", "refused", "error", "degraded"} /\ at \notin {"served", "refused"}
        /\ (at = "degraded" => FailMode[req[r].proc] = "open")
    BY <1>1, ErrorIsKnown
  <2>4. req' \in [Requests -> Request]
    BY <2>1, <2>2, <2>3, AdvanceType DEF Inv
  <2>5. rows' \in [Keys -> [Times -> Nat]]
    BY <1>1, <1>2, CountIsTyped DEF Inv
  <2>6. TypeOK'
    BY <1>1, <2>4, <2>5 DEF Inv, TypeOK
  <2>7. RequestsOK'
    BY <1>1, <2>1, <2>2, <2>3, AdvanceOK DEF Inv
  <2>8. PlacesInRow' /\ RowsFilled' /\ PlacesFilled' /\ PlacesDiffer'
    BY <1>1, <1>2, <2>1, CountStep
  <2> QED
    BY <2>6, <2>7, <2>8 DEF Inv
<1>3. CASE UNCHANGED rows /\ Advance(r, OnError(req[r].proc), 0)
  <2> DEFINE at == OnError(req[r].proc)
  <2>1. at \in {"cleanup", "served", "refused", "error", "degraded"}
        /\ at \notin {"cleanup", "served", "refused"}
        /\ (at = "degraded" => FailMode[req[r].proc] = "open")
    BY <1>1, ErrorIsKnown
  <2>2. req' \in [Requests -> Request]
    BY <1>3, <2>1, AdvanceType DEF Inv
  <2>3. TypeOK'
    BY <1>1, <1>3, <2>2 DEF Inv, TypeOK
  <2>4. RequestsOK'
    BY <1>1, <1>3, <2>1, AdvanceOK DEF Inv
  <2>5. Keep
    BY <1>1, <1>3, <2>1, KeepsPlaces DEF Inv
  <2>6. RowsKept /\ now' \in Times /\ now <= now'
    BY <1>1, <1>3 DEF RowsKept, Inv, TypeOK, Times
  <2> QED
    BY <2>3, <2>4, <2>5, <2>6, PlacesLast, RowsLast DEF Inv
<1> QED
  BY <1>2, <1>3 DEF Upsert, UpsertFails

LEMMA CleanupStep ==
    ASSUME Inv, NEW r \in Requests, Cleanup(r) \/ CleanupFails(r)
    PROVE  Inv'
<1>1. /\ req[r].at = "cleanup" /\ InFlight(r) /\ now' = now /\ limit' = limit
      /\ req[r].place \in Nat \ {0} /\ req[r].stamp \in Times /\ req[r].stamp <= now
      /\ req[r].proc \in Processes
  BY DEF Cleanup, CleanupFails, InFlight, Inv, RequestsOK, TypeOK, Request
<1>2. rows' = rows \/ DeleteExpired(req[r].stamp)
  BY DEF Cleanup, CleanupFails
<1>3. lastCleanup' \in [Processes -> Times]
  BY <1>1 DEF Cleanup, CleanupFails, Inv, TypeOK
<1>4. PICK at \in {Decision(r), OnError(req[r].proc)} : Advance(r, at, req[r].place)
  BY DEF Cleanup, CleanupFails
<1>5. /\ at \in {"served", "refused", "error", "degraded"}
      /\ at = "served" => req[r].place \in 1 .. limit
      /\ at = "refused" => req[r].place > limit
      /\ at = "degraded" => FailMode[req[r].proc] = "open"
  BY <1>1, ErrorIsKnown, LimitIsPositive DEF Decision, Inv
<1>6. req' \in [Requests -> Request]
  BY <1>1, <1>4, <1>5, AdvanceType DEF Inv
<1>7. rows' \in [Keys -> [Times -> Nat]]
  BY <1>1, <1>2, DeleteIsTyped DEF Inv, TypeOK
<1>8. TypeOK'
  BY <1>1, <1>3, <1>6, <1>7 DEF Inv, TypeOK
<1>9. RequestsOK'
  BY <1>1, <1>4, <1>5, AdvanceOK DEF Inv
<1>10. Keep
  BY <1>4, <1>5, KeepsPlaces DEF Inv
<1>11. RowsKept
  <2>1. CASE rows' = rows
    BY <2>1 DEF RowsKept
  <2> QED
    BY <1>1, <1>2, <2>1, DeleteKeepsRows DEF Inv
<1>12. now' \in Times /\ now <= now'
  BY <1>1 DEF Inv, TypeOK, Times
<1> QED
  BY <1>8, <1>9, <1>10, <1>11, <1>12, PlacesLast, RowsLast DEF Inv

LEMMA RestartStep ==
    ASSUME Inv, NEW p \in Processes, Restart(p)
    PROVE  Inv'
<1> DEFINE lost(r) == [at |-> "error", proc |-> p, key |-> req[r].key,
                       stamp |-> req[r].stamp, place |-> req[r].place]
<1>1. /\ rows' = rows /\ now' = now /\ limit' = limit
      /\ lastCleanup' = [lastCleanup EXCEPT ![p] = 0]
      /\ req' = [r \in Requests |-> IF InFlight(r) /\ req[r].proc = p THEN lost(r) ELSE req[r]]
  BY DEF Restart
<1>2. \A r \in Requests :
         /\ lost(r) \in Request /\ lost(r).at = "error" /\ lost(r).place = req[r].place
         /\ lost(r).key = req[r].key /\ lost(r).stamp = req[r].stamp
  BY DEF Inv, TypeOK, Request
<1> HIDE DEF lost
<1>3. \A r \in Requests : req'[r] = req[r] \/ req'[r] = lost(r)
  BY <1>1
<1>4. TypeOK'
  <2>1. req' \in [Requests -> Request]
    BY <1>1, <1>2 DEF Inv, TypeOK
  <2>2. lastCleanup' \in [Processes -> Times]
    BY <1>1 DEF Inv, TypeOK, Times
  <2> QED
    BY <1>1, <2>1, <2>2 DEF Inv, TypeOK
<1>5. RequestsOK'
  BY <1>1, <1>2, <1>3 DEF Inv, RequestsOK, InFlight
<1>6. Keep
  BY <1>2, <1>3 DEF Keep
<1>7. RowsKept /\ now' \in Times /\ now <= now'
  BY <1>1 DEF RowsKept, Inv, TypeOK, Times
<1> QED
  BY <1>4, <1>5, <1>6, <1>7, PlacesLast, RowsLast DEF Inv

LEMMA TickStep ==
    ASSUME Inv, Tick
    PROVE  Inv'
<1>1. /\ rows' = rows /\ req' = req /\ lastCleanup' = lastCleanup /\ now' = now + 1
      /\ limit' = limit
      /\ now \in Nat /\ now' \in Times
      /\ \A r \in Requests : req[r].at = "upsert" => now < req[r].stamp + MaxDelay
  BY DEF Tick, Inv, TypeOK, Times
<1>2. TypeOK'
  BY <1>1 DEF Inv, TypeOK
<1>3. RequestsOK'
  <2>1. \A r \in Requests : req[r].stamp \in Nat
    BY DEF Inv, TypeOK, Request, Times
  <2> QED
    BY <1>1, <2>1 DEF Inv, RequestsOK, InFlight
<1>4. Keep /\ RowsKept
  BY <1>1 DEF Keep, RowsKept
<1> QED
  BY <1>1, <1>2, <1>3, <1>4, PlacesLast, RowsLast DEF Inv

LEMMA InvNext == Inv /\ [Next]_vars => Inv'
<1> SUFFICES ASSUME Inv, [Next]_vars PROVE Inv'
  OBVIOUS
<1>1. ASSUME NEW p \in Processes, NEW r \in Requests, NEW k \in Keys, NEW t \in Times,
             Arrive(p, r, k, t)
      PROVE  Inv'
  BY <1>1, ArriveStep
<1>2. ASSUME NEW r \in Requests, Handle(r)
      PROVE  Inv'
  BY <1>2, UpsertStep, CleanupStep DEF Handle
<1>3. ASSUME NEW p \in Processes, Restart(p)
      PROVE  Inv'
  BY <1>3, RestartStep
<1>4. CASE Tick
  BY <1>4, TickStep
<1>5. CASE UNCHANGED vars
  BY <1>5 DEF vars, Inv, TypeOK, RequestsOK, InFlight, PlacesInRow, RowsFilled,
              PlacesFilled, PlacesDiffer
<1> QED
  BY <1>1, <1>2, <1>3, <1>4, <1>5 DEF Next

----------------------------------------------------------------------------
(* The theorems                                                            *)

(* The places that rows give out are as described above, always.           *)
THEOREM PlacesInvariant == Spec => []Inv
<1> QED
  BY InvInit, InvNext, PTL DEF Spec

(* Rows, clock and requests have their types (shared_rate_limit.py 23-31). *)
THEOREM TypeCorrect == Spec => []TypeOK
<1>1. Inv => TypeOK
  BY DEF Inv
<1> QED
  BY <1>1, PlacesInvariant, PTL

(* For every number of processes, requests and keys, every configuration   *)
(* that config.py accepts and every order of counting, deleting, failing   *)
(* and restarting, no window of a key hands on more than limit requests.   *)
THEOREM QuotaAlwaysHolds == Spec => []QuotaHolds
<1>1. ASSUME Inv, NEW k \in Keys, NEW w \in Times
      PROVE  Cardinality(HandedOn(k, w)) <= limit
  <2> DEFINE H == HandedOn(k, w)
             place == [r \in H |-> req[r].place]
  <2>1. \A r \in H : req[r].at = "served" /\ Counts(req[r], k, w) /\ req[r].place \in 1 .. limit
    BY <1>1 DEF HandedOn, Inv, RequestsOK, Counts, Counted
  <2>2. \A r, s \in H : req[r].place = req[s].place => r = s
    BY <1>1, <2>1 DEF HandedOn, Inv, PlacesDiffer, Counts
  <2>3. place \in Injection(H, 1 .. limit)
    BY <2>1, <2>2 DEF Injection, IsInjective
  <2>4. IsFiniteSet(1 .. limit) /\ Cardinality(1 .. limit) = limit
    <3>1. limit \in Nat \ {0}
      BY <1>1, LimitIsPositive DEF Inv
    <3> QED
      BY <3>1, FS_Interval
  <2> HIDE DEF H, place
  <2>5. Cardinality(H) <= Cardinality(1 .. limit)
    BY <2>3, <2>4, FS_Injection
  <2> QED
    BY <2>4, <2>5 DEF H
<1>2. Inv => QuotaHolds
  BY <1>1 DEF QuotaHolds
<1> QED
  BY <1>2, PlacesInvariant, PTL

(* A request that is refused has limit others of its window before it.     *)
THEOREM RefusalsAreDue == Spec => []RefusedOnlyWhenFull
<1>1. ASSUME Inv, NEW r \in Requests, req[r].at = "refused", NEW n \in 1 .. limit
      PROVE  \E s \in Requests \ {r} :
                req[s].place = n /\ Counts(req[s], req[r].key, WindowOf(req[r].stamp))
  <2>1. req[r].place \in Nat /\ req[r].place > limit /\ limit \in Nat
    BY <1>1, LimitIsPositive DEF Inv, RequestsOK, TypeOK, Request
  <2>2. n \in 1 .. req[r].place - 1 /\ n # req[r].place
    BY <2>1
  <2> QED
    BY <1>1, <2>2 DEF Inv, PlacesFilled
<1>2. Inv => RefusedOnlyWhenFull
  BY <1>1 DEF RefusedOnlyWhenFull
<1> QED
  BY <1>2, PlacesInvariant, PTL

----------------------------------------------------------------------------
(* HttpBoundary                                                            *)

(* A step of the boundary is a step of the limiter or none.                *)
LEMMA BoundaryStep == BoundaryNext => [Next]_vars
<1> SUFFICES ASSUME BoundaryNext
             PROVE  [Next]_vars
  OBVIOUS
<1>1. CASE \E r \in Requests, p \in Processes, s \in Shapes : Receive(r, p, s)
  BY <1>1 DEF Receive, Next
<1>2. CASE \E r \in Requests : Consume(r)
  BY <1>2 DEF Consume, Next
<1>3. CASE \E r \in Requests : Respond(r)
  BY <1>3 DEF Respond
<1>4. CASE \E p \in Processes : Stop(p)
  BY <1>4 DEF Stop, Next
<1>5. CASE Pass
  BY <1>5 DEF Pass, Next
<1> QED
  BY <1>1, <1>2, <1>3, <1>4, <1>5 DEF BoundaryNext

(* The boundary uses the limiter as RateLimit allows, so that what holds   *)
(* of RateLimit holds behind the boundary.                                 *)
THEOREM BoundaryIsLimited == BoundarySpec => Spec
<1>1. BoundaryInit => Init
  BY DEF BoundaryInit
<1>2. [BoundaryNext]_allVars => [Next]_vars
  <2>1. UNCHANGED allVars => UNCHANGED vars
    BY DEF allVars
  <2> QED
    BY <2>1, BoundaryStep
<1> QED
  BY <1>1, <1>2, PTL DEF BoundarySpec, Spec

(* What dispatch knows of one request, with q its record of the limiter, x *)
(* its exchange and s its shape.                                           *)
Admissible(s) ==
    /\ s \in Shapes
    /\ RequireHttps => s.secure
HandlesX(x) == x.at = "handling" \/ x.status \in {200, 500}
ExchangeOK(q, x, s) ==
    /\ x \in Exchange
    /\ q.at \in {"upsert", "cleanup"} => x.at = "consuming" /\ x.proc = q.proc
    /\ x.at = "new" => q.at = "new"
    /\ x.at = "consuming" => x.status = 0 /\ x.remaining = None
    /\ x.at = "consuming" \/ q.place > 0 => Admissible(s) /\ s.limited
    /\ HandlesX(x) => Admissible(s) /\ ~Forged(s)
                      /\ (s.limited => q.at \in {"served", "degraded"})
    /\ x.remaining # None => /\ q.at \in {"served", "refused"}
                             /\ x.remaining = Remaining(q.place)
    /\ x.status = 429 => x.retry \in 1 .. Window

BoundaryInv == \A r \in Requests : ExchangeOK(req[r], http[r], shape[r])

BoundaryTyped ==
    /\ http \in [Requests -> Exchange]
    /\ shape \in [Requests -> Shapes \cup {None}]

LEMMA RemainingType ==
    ASSUME TypeOK, NEW place \in Nat
    PROVE  Remaining(place) \in Nat
BY LimitIsPositive DEF Remaining

(* The setting stays, so that what an answer said of it does.              *)
LEMMA ExchangesLast ==
    ASSUME limit' = limit,
           \A r \in Requests : ExchangeOK(req'[r], http'[r], shape'[r])
    PROVE  BoundaryInv'
<1> SUFFICES ASSUME NEW r \in Requests
             PROVE  ExchangeOK(req[r], http[r], shape[r])'
  BY DEF BoundaryInv
<1>1. ExchangeOK(req'[r], http'[r], shape'[r])
  OBVIOUS
<1> QED
  BY <1>1 DEF ExchangeOK, Remaining

(* Answers and calls of the handler, as what they make of an exchange.     *)
Reply(status, remaining, retry, degraded) ==
    [at |-> "answered", proc |-> None, status |-> status, remaining |-> remaining,
     retry |-> retry, degraded |-> degraded]
Call(p, remaining, degraded) ==
    [at |-> "handling", proc |-> p, status |-> 0, remaining |-> remaining,
     retry |-> None, degraded |-> degraded]

LEMMA PassOnOK ==
    ASSUME NEW q, NEW x, NEW s, NEW p \in Processes, NEW remaining, NEW degraded \in BOOLEAN,
           IF Forged(s) THEN x = Reply(403, remaining, None, degraded)
           ELSE x = Call(p, remaining, degraded),
           Admissible(s), q.at \notin {"upsert", "cleanup"},
           q.place > 0 => s.limited,
           s.limited => q.at \in {"served", "degraded"},
           remaining \in Nat \cup {None},
           remaining # None => q.at = "served" /\ remaining = Remaining(q.place)
    PROVE  ExchangeOK(q, x, s)
<1>1. CASE Forged(s)
  BY <1>1 DEF ExchangeOK, HandlesX, Reply, Exchange, Statuses
<1>2. CASE ~Forged(s)
  BY <1>2 DEF ExchangeOK, HandlesX, Call, Exchange, Statuses
<1> QED
  BY <1>1, <1>2

LEMMA HandleFrame ==
    ASSUME TypeOK, NEW r \in Requests, Handle(r)
    PROVE  /\ req' = [req EXCEPT ![r] = req'[r]]
           /\ \A s \in Requests \ {r} : req'[s] = req[s]
           /\ req'[r].at \notin {"new", "upsert"}
           /\ InFlight(r)
           /\ req'[r].proc = req[r].proc /\ req'[r].key = req[r].key
           /\ req'[r].stamp = req[r].stamp /\ limit' = limit
<1> DEFINE Moved(at, place) == Advance(r, at, place) /\ at \notin {"new", "upsert"}
<1>1. (\E at, place : Moved(at, place)) /\ InFlight(r) /\ limit' = limit
  BY DEF Handle, Upsert, UpsertFails, Cleanup, CleanupFails, OnError, Decision, InFlight
<1>2. PICK at, place : Moved(at, place)
  BY <1>1
<1>3. req'[r] = [at |-> at, proc |-> req[r].proc, key |-> req[r].key,
                 stamp |-> req[r].stamp, place |-> place]
  BY <1>2 DEF Advance, TypeOK
<1> QED
  BY <1>1, <1>2, <1>3 DEF Advance, TypeOK

LEMMA BoundaryInitOK == BoundaryInit => BoundaryInv /\ BoundaryTyped
<1> SUFFICES ASSUME BoundaryInit
             PROVE  BoundaryInv /\ BoundaryTyped
  OBVIOUS
<1>1. Fresh \in Exchange /\ Fresh.at = "new" /\ Fresh.status = 0 /\ Fresh.remaining = None
  BY DEF Fresh, Exchange, Statuses
<1>2. BoundaryTyped
  BY <1>1 DEF BoundaryInit, BoundaryTyped
<1>3. ASSUME NEW r \in Requests
      PROVE  ExchangeOK(req[r], http[r], shape[r])
  <2>1. req[r].at = "new" /\ req[r].place = 0 /\ http[r] = Fresh
    BY DEF BoundaryInit, Init
  <2> QED
    BY <1>1, <2>1 DEF ExchangeOK, HandlesX
<1> QED
  BY <1>2, <1>3 DEF BoundaryInv

(* One exchange, one shape at most and one record of the limiter change.   *)
LEMMA ExchangeStep ==
    ASSUME BoundaryInv, BoundaryTyped, NEW r \in Requests, NEW x, NEW s \in Shapes \cup {None},
           http' = [http EXCEPT ![r] = x], shape' = [shape EXCEPT ![r] = s],
           \A t \in Requests \ {r} : req'[t] = req[t],
           limit' = limit, ExchangeOK(req'[r], x, s)
    PROVE  BoundaryInv' /\ BoundaryTyped'
<1>1. http'[r] = x /\ shape'[r] = s
  BY DEF BoundaryTyped
<1>2. \A t \in Requests \ {r} : http'[t] = http[t] /\ shape'[t] = shape[t]
  BY DEF BoundaryTyped
<1>3. BoundaryTyped'
  BY DEF BoundaryTyped, ExchangeOK
<1>4. ASSUME NEW t \in Requests
      PROVE  ExchangeOK(req'[t], http'[t], shape'[t])
  <2>1. CASE t = r
    BY <1>1, <2>1
  <2>2. CASE t # r
    <3>1. req'[t] = req[t] /\ http'[t] = http[t] /\ shape'[t] = shape[t]
      BY <1>2, <2>2
    <3>2. ExchangeOK(req[t], http[t], shape[t])
      BY DEF BoundaryInv
    <3> QED
      BY <3>1, <3>2
  <2> QED
    BY <2>1, <2>2
<1> QED
  BY <1>3, <1>4, ExchangesLast

LEMMA ReceiveStep ==
    ASSUME Inv, BoundaryInv, BoundaryTyped, NEW r \in Requests, NEW p \in Processes,
           NEW s \in Shapes, Receive(r, p, s)
    PROVE  BoundaryInv' /\ BoundaryTyped'
<1>1. ExchangeOK(req[r], http[r], shape[r]) /\ http[r].at = "new"
  BY DEF BoundaryInv, Receive
<1>2. req[r].at = "new" /\ req[r].place = 0
  BY <1>1 DEF ExchangeOK, Inv, RequestsOK
<1>3. shape' = [shape EXCEPT ![r] = s]
  BY DEF Receive
<1>4. CASE UNCHANGED vars /\ TurnedAway(s) /\ Answer(r, 426, None, None, FALSE)
  <2> DEFINE x == Reply(426, None, None, FALSE)
  <2>1. http' = [http EXCEPT ![r] = x]
    BY <1>4 DEF Answer, Reply
  <2>2. req' = req /\ limit' = limit
    BY <1>4 DEF vars
  <2>3. ExchangeOK(req[r], x, s)
    BY <1>2 DEF ExchangeOK, HandlesX, Reply, Exchange, Statuses
  <2> HIDE DEF x
  <2> QED
    BY <1>3, <2>1, <2>2, <2>3, ExchangeStep
<1>5. CASE UNCHANGED vars /\ ~TurnedAway(s) /\ ~s.limited /\ PassOn(r, p, s, None, FALSE)
  <2> DEFINE x == IF Forged(s) THEN Reply(403, None, None, FALSE) ELSE Call(p, None, FALSE)
  <2>1. http' = [http EXCEPT ![r] = x]
    BY <1>5 DEF PassOn, Answer, CallNext, Reply, Call
  <2>2. req' = req /\ limit' = limit
    BY <1>5 DEF vars
  <2>3. Admissible(s)
    BY <1>5 DEF Admissible, TurnedAway
  <2> DEFINE q == req[r]
  <2>4. q.at = "new" /\ ~(q.place > 0) /\ ~s.limited
    BY <1>2, <1>5
  <2> HIDE DEF q
  <2>5. ExchangeOK(q, x, s)
    BY <2>3, <2>4, PassOnOK
  <2>6. ExchangeOK(req[r], x, s)
    BY <2>5 DEF q
  <2> HIDE DEF x
  <2> QED
    BY <1>3, <2>1, <2>2, <2>6, ExchangeStep
<1>6. CASE /\ ~TurnedAway(s) /\ s.limited
           /\ \E k \in Keys, t \in Times : Arrive(p, r, k, t)
           /\ http' = [http EXCEPT ![r] = [at |-> "consuming", proc |-> p, status |-> 0,
                                           remaining |-> None, retry |-> None,
                                           degraded |-> FALSE]]
  <2> DEFINE x == [at |-> "consuming", proc |-> p, status |-> 0,
                   remaining |-> None, retry |-> None, degraded |-> FALSE]
  <2>1. http' = [http EXCEPT ![r] = x]
    BY <1>6
  <2>2. PICK k \in Keys, t \in Times : Arrive(p, r, k, t)
    BY <1>6
  <2>3. /\ req'[r].at = "upsert" /\ req'[r].proc = p /\ limit' = limit
        /\ \A u \in Requests \ {r} : req'[u] = req[u]
    BY <2>2 DEF Arrive, Inv, TypeOK
  <2>4. Admissible(s)
    BY <1>6 DEF Admissible, TurnedAway
  <2>5. ExchangeOK(req'[r], x, s)
    BY <1>6, <2>3, <2>4 DEF ExchangeOK, HandlesX, Exchange, Statuses
  <2> HIDE DEF x
  <2> QED
    BY <1>3, <2>1, <2>3, <2>5, ExchangeStep
<1> QED
  BY <1>4, <1>5, <1>6 DEF Receive

LEMMA ConsumeStep ==
    ASSUME Inv, Inv', BoundaryInv, BoundaryTyped, NEW r \in Requests, Consume(r)
    PROVE  BoundaryInv' /\ BoundaryTyped'
<1> DEFINE p == req[r].proc
           s == shape[r]
           q == req'[r]
<1>1. ExchangeOK(req[r], http[r], s) /\ http[r].at = "consuming" /\ http[r] \in Exchange
  BY DEF BoundaryInv, Consume, BoundaryTyped
<1>2. Handle(r) /\ TypeOK
  BY DEF Consume, Inv
<1>3. /\ \A t \in Requests \ {r} : req'[t] = req[t]
      /\ q.at \notin {"new", "upsert"} /\ InFlight(r) /\ q.stamp = req[r].stamp
      /\ q.proc = req[r].proc /\ limit' = limit
  BY <1>2, HandleFrame
<1>4. p \in Processes /\ req[r].stamp \in Times /\ now \in Times
  BY <1>3 DEF Inv, RequestsOK, TypeOK, Request
<1>5. Admissible(s) /\ s.limited /\ s \in Shapes \cup {None}
  BY <1>1 DEF ExchangeOK, Admissible
<1>6. shape' = [shape EXCEPT ![r] = s]
  BY DEF Consume, BoundaryTyped
<1>7. q.place \in Nat
  BY DEF Inv, TypeOK, Request
<1>8. CASE q.at = "cleanup" /\ UNCHANGED http
  <2>1. http' = [http EXCEPT ![r] = http[r]]
    BY <1>8 DEF BoundaryTyped
  <2>2. ExchangeOK(q, http[r], s)
    BY <1>1, <1>3, <1>5, <1>8 DEF ExchangeOK, HandlesX, InFlight
  <2> HIDE DEF s
  <2> QED
    BY <1>3, <1>5, <1>6, <2>1, <2>2, ExchangeStep
<1>9. CASE q.at = "served" /\ PassOn(r, p, s, Remaining(q.place), FALSE)
  <2> DEFINE x == IF Forged(s) THEN Reply(403, Remaining(q.place), None, FALSE)
                  ELSE Call(p, Remaining(q.place), FALSE)
  <2>1. http' = [http EXCEPT ![r] = x]
    BY <1>9 DEF PassOn, Answer, CallNext, Reply, Call
  <2>2. Remaining(q.place) \in Nat
    BY <1>2, <1>7, RemainingType
  <2> HIDE DEF p, s, q
  <2>3. ExchangeOK(q, x, s)
    BY <1>4, <1>5, <1>9, <2>2, PassOnOK
  <2> HIDE DEF x
  <2>4. ExchangeOK(req'[r], x, s)
    BY <2>3 DEF q
  <2> QED
    BY <1>3, <1>5, <1>6, <2>1, <2>4, ExchangeStep
<1>10. CASE q.at = "degraded" /\ PassOn(r, p, s, None, TRUE)
  <2> DEFINE x == IF Forged(s) THEN Reply(403, None, None, TRUE) ELSE Call(p, None, TRUE)
  <2>1. http' = [http EXCEPT ![r] = x]
    BY <1>10 DEF PassOn, Answer, CallNext, Reply, Call
  <2> HIDE DEF p, s, q
  <2>3. ExchangeOK(q, x, s)
    BY <1>4, <1>5, <1>10, PassOnOK
  <2> HIDE DEF x
  <2>4. ExchangeOK(req'[r], x, s)
    BY <2>3 DEF q
  <2> QED
    BY <1>3, <1>5, <1>6, <2>1, <2>4, ExchangeStep
<1>11. CASE q.at = "error" /\ Answer(r, 503, None, None, FALSE)
  <2> DEFINE x == Reply(503, None, None, FALSE)
  <2>1. http' = [http EXCEPT ![r] = x]
    BY <1>11 DEF Answer, Reply
  <2>2. ExchangeOK(q, x, s)
    BY <1>5, <1>11 DEF ExchangeOK, HandlesX, Reply, Exchange, Statuses
  <2> HIDE DEF x, s
  <2> QED
    BY <1>3, <1>5, <1>6, <2>1, <2>2, ExchangeStep
<1>12. CASE /\ q.at = "refused"
            /\ \E t \in req[r].stamp .. now :
                   Answer(r, 429, Remaining(q.place),
                          RetryAfter(WindowOf(req[r].stamp) + Window, t), FALSE)
  <2>1. PICK t \in req[r].stamp .. now :
               Answer(r, 429, Remaining(q.place),
                      RetryAfter(WindowOf(req[r].stamp) + Window, t), FALSE)
    BY <1>12
  <2> DEFINE retry == RetryAfter(WindowOf(req[r].stamp) + Window, t)
             x == Reply(429, Remaining(q.place), retry, FALSE)
  <2>2. retry \in 1 .. Window
    <3>1. WindowOf(req[r].stamp) \in Nat /\ WindowOf(req[r].stamp) <= req[r].stamp
      BY <1>4, WindowBounds DEF Times
    <3>2. t \in Nat /\ req[r].stamp <= t /\ req[r].stamp \in Nat
      BY <1>4 DEF Times
    <3> QED
      BY <3>1, <3>2 DEF RetryAfter
  <2>3. http' = [http EXCEPT ![r] = x]
    BY <2>1 DEF Answer, Reply
  <2>4. Remaining(q.place) \in Nat
    BY <1>2, <1>7, RemainingType
  <2> HIDE DEF retry
  <2>5. ExchangeOK(q, x, s)
    BY <1>5, <1>12, <2>2, <2>4 DEF ExchangeOK, HandlesX, Reply, Exchange, Statuses
  <2> HIDE DEF x, s
  <2> QED
    BY <1>3, <1>5, <1>6, <2>3, <2>5, ExchangeStep
<1> QED
  BY <1>8, <1>9, <1>10, <1>11, <1>12 DEF Consume

LEMMA RespondStep ==
    ASSUME BoundaryInv, BoundaryTyped, NEW r \in Requests, Respond(r)
    PROVE  BoundaryInv' /\ BoundaryTyped'
<1> DEFINE s == shape[r]
<1>1. ExchangeOK(req[r], http[r], s) /\ http[r].at = "handling" /\ http[r] \in Exchange
  BY DEF BoundaryInv, Respond, BoundaryTyped
<1>2. req' = req /\ limit' = limit /\ shape' = [shape EXCEPT ![r] = s]
  BY DEF Respond, vars, BoundaryTyped
<1>3. Admissible(s) /\ s \in Shapes \cup {None} /\ ~Forged(s)
  BY <1>1 DEF ExchangeOK, HandlesX, Admissible
<1>4. PICK x : /\ http' = [http EXCEPT ![r] = x]
               /\ \/ x = Reply(200, http[r].remaining, None, http[r].degraded)
                  \/ x = Reply(500, None, None, FALSE)
  BY DEF Respond, Answer, Reply
<1>5. ExchangeOK(req[r], x, s)
  <2> DEFINE rest == http[r].remaining
             mark == http[r].degraded
             q == req[r]
  <2>1. rest \in Nat \cup {None} /\ mark \in BOOLEAN
    BY <1>1 DEF Exchange
  <2>2. /\ q.at \notin {"upsert", "cleanup"}
        /\ q.place > 0 => s.limited
        /\ s.limited => q.at \in {"served", "degraded"}
        /\ rest # None => q.at \in {"served", "refused"} /\ rest = Remaining(q.place)
    BY <1>1 DEF ExchangeOK, HandlesX
  <2>3. x = Reply(200, rest, None, mark) \/ x = Reply(500, None, None, FALSE)
    BY <1>4
  <2> HIDE DEF rest, mark, q, s
  <2>4. ASSUME x = Reply(200, rest, None, mark)
        PROVE  ExchangeOK(q, x, s)
    BY <1>3, <2>1, <2>2, <2>4 DEF ExchangeOK, HandlesX, Reply, Exchange, Statuses
  <2>5. ASSUME x = Reply(500, None, None, FALSE)
        PROVE  ExchangeOK(q, x, s)
    BY <1>3, <2>1, <2>2, <2>5 DEF ExchangeOK, HandlesX, Reply, Exchange, Statuses
  <2>6. ExchangeOK(q, x, s)
    BY <2>3, <2>4, <2>5
  <2> QED
    BY <2>6 DEF q
<1> HIDE DEF s
<1> QED
  BY <1>2, <1>3, <1>4, <1>5, ExchangeStep

LEMMA StopStep ==
    ASSUME Inv, BoundaryInv, BoundaryTyped, NEW p \in Processes, Stop(p)
    PROVE  BoundaryInv' /\ BoundaryTyped'
<1>1. /\ Lost \in Exchange /\ Lost.at = "lost" /\ ~HandlesX(Lost)
      /\ Lost.remaining = None /\ Lost.status = 0
  BY DEF Lost, Exchange, Statuses, HandlesX
<1>2. http' = [r \in Requests |->
                 IF http[r].at \in {"consuming", "handling"} /\ http[r].proc = p
                 THEN Lost ELSE http[r]]
  BY DEF Stop
<1>3. BoundaryTyped'
  BY <1>1, <1>2 DEF Stop, BoundaryTyped
<1>4. ASSUME NEW r \in Requests
      PROVE  ExchangeOK(req'[r], http'[r], shape'[r])
  <2>1. ExchangeOK(req[r], http[r], shape[r]) /\ shape'[r] = shape[r]
    BY DEF BoundaryInv, Stop
  <2>2. \/ req'[r] = req[r]
        \/ /\ InFlight(r) /\ req'[r].at = "error" /\ req'[r].place = req[r].place
    BY DEF Stop, Restart
  <2>3. InFlight(r) /\ req[r].proc = p => req'[r].at = "error"
    BY DEF Stop, Restart
  <2>4. ~(InFlight(r) /\ req[r].proc = p) => req'[r] = req[r]
    BY DEF Stop, Restart
  <2>5. InFlight(r) => http[r].at = "consuming" /\ http[r].proc = req[r].proc
    BY <2>1 DEF ExchangeOK, InFlight
  <2>6. CASE http'[r] = http[r] /\ req'[r] = req[r]
    BY <2>1, <2>6
  <2>7. CASE http'[r] = Lost /\ req'[r].at \notin {"upsert", "cleanup"}
    <3>1. req'[r].place > 0 => req[r].place > 0
      BY <2>2
    <3> QED
      BY <1>1, <2>1, <2>7, <3>1 DEF ExchangeOK
  <2> QED
    BY <1>2, <2>3, <2>4, <2>5, <2>6, <2>7 DEF InFlight
<1>5. limit' = limit
  BY DEF Stop, Restart
<1> QED
  BY <1>3, <1>4, <1>5, ExchangesLast

LEMMA BoundaryNextOK ==
    ASSUME Inv, Inv', BoundaryInv, BoundaryTyped, [BoundaryNext]_allVars
    PROVE  BoundaryInv' /\ BoundaryTyped'
<1>1. CASE \E r \in Requests, p \in Processes, s \in Shapes : Receive(r, p, s)
  BY <1>1, ReceiveStep
<1>2. CASE \E r \in Requests : Consume(r)
  BY <1>2, ConsumeStep
<1>3. CASE \E r \in Requests : Respond(r)
  BY <1>3, RespondStep
<1>4. CASE \E p \in Processes : Stop(p)
  BY <1>4, StopStep
<1>5. CASE Pass \/ UNCHANGED allVars
  <2>1. req' = req /\ http' = http /\ shape' = shape /\ limit' = limit
    BY <1>5 DEF Pass, Tick, httpVars, allVars, vars
  <2>2. \A r \in Requests : ExchangeOK(req'[r], http'[r], shape'[r])
    BY <2>1 DEF BoundaryInv
  <2> QED
    BY <2>1, <2>2, ExchangesLast DEF BoundaryTyped
<1> QED
  BY <1>1, <1>2, <1>3, <1>4, <1>5 DEF BoundaryNext

THEOREM BoundaryInvariant == BoundarySpec => [](Inv /\ BoundaryInv /\ BoundaryTyped)
<1>1. BoundaryInit => BoundaryInv /\ BoundaryTyped
  BY BoundaryInitOK
<1>2. Inv /\ Inv' /\ BoundaryInv /\ BoundaryTyped /\ [BoundaryNext]_allVars
      => BoundaryInv' /\ BoundaryTyped'
  BY BoundaryNextOK
<1>3. BoundarySpec => []Inv
  BY BoundaryIsLimited, PlacesInvariant, PTL
<1> QED
  BY <1>1, <1>2, <1>3, PTL DEF BoundarySpec

(* The limiter's records, the exchanges and the shapes have their types.   *)
THEOREM BoundaryTypeCorrect == BoundarySpec => []BoundaryTypeOK
<1>1. Inv /\ BoundaryTyped => BoundaryTypeOK
  BY DEF Inv, BoundaryTyped, BoundaryTypeOK
<1> QED
  BY <1>1, BoundaryInvariant, PTL

(* Behind the boundary, too, no window hands on more than limit requests.  *)
THEOREM BoundaryQuotaHolds == BoundarySpec => []QuotaHolds
BY BoundaryIsLimited, QuotaAlwaysHolds, PTL

(* And none is refused before limit others were counted.                   *)
THEOREM BoundaryRefusalsAreDue == BoundarySpec => []RefusedOnlyWhenFull
BY BoundaryIsLimited, RefusalsAreDue, PTL

(* A handler sees only requests that passed the checks before it, and only *)
(* requests that may be limited use up places.                             *)
THEOREM HandledAreAdmitted == BoundarySpec => []HandledWhenAdmitted
<1>1. ASSUME Inv, BoundaryInv, NEW r \in Requests
      PROVE  /\ Handled(r) =>
                   /\ RequireHttps => shape[r].secure
                   /\ CookieAuth /\ shape[r].cookie => shape[r].token
                   /\ shape[r].limited =>
                         \/ req[r].place \in 1 .. limit
                         \/ FailMode[req[r].proc] = "open" /\ req[r].at = "degraded"
             /\ Counted(req[r]) => shape[r].limited /\ (RequireHttps => shape[r].secure)
  <2>1. ExchangeOK(req[r], http[r], shape[r])
    BY <1>1 DEF BoundaryInv
  <2>2. Handled(r) => /\ Admissible(shape[r]) /\ ~Forged(shape[r])
                      /\ shape[r].limited => req[r].at \in {"served", "degraded"}
    BY <2>1 DEF ExchangeOK, Handled, HandlesX
  <2>3. Counted(req[r]) => Admissible(shape[r]) /\ shape[r].limited
    BY <2>1 DEF ExchangeOK, Counted
  <2>4. /\ req[r].at = "served" => req[r].place \in 1 .. limit
        /\ req[r].at = "degraded" => FailMode[req[r].proc] = "open"
    BY <1>1 DEF Inv, RequestsOK
  <2> QED
    BY <2>2, <2>3, <2>4 DEF Admissible, Forged
<1>2. Inv /\ BoundaryInv => HandledWhenAdmitted
  BY <1>1 DEF HandledWhenAdmitted
<1> QED
  BY <1>2, BoundaryInvariant, PTL

(* What answers say of the rate comes true.                                *)
THEOREM AnswersStayHonest == BoundarySpec => []AnswersAreHonest
<1>1. ASSUME Inv, BoundaryInv, NEW r \in Requests
      PROVE  /\ http[r].remaining # None =>
                   \A s \in Requests :
                       /\ Counts(req[s], req[r].key, WindowOf(req[r].stamp))
                       /\ req[s].place > req[r].place
                       => /\ req[s].at = "served" => req[s].place <= req[r].place + http[r].remaining
                          /\ req[s].at = "refused" => req[s].place > req[r].place + http[r].remaining
             /\ http[r].status = 429 => http[r].retry \in 1 .. Window
  <2>1. ExchangeOK(req[r], http[r], shape[r])
    BY <1>1 DEF BoundaryInv
  <2>2. ASSUME http[r].remaining # None, NEW s \in Requests, req[s].place > req[r].place
        PROVE  /\ req[s].at = "served" => req[s].place <= req[r].place + http[r].remaining
               /\ req[s].at = "refused" => req[s].place > req[r].place + http[r].remaining
    <3>1. http[r].remaining = Remaining(req[r].place) /\ req[r].at \in {"served", "refused"}
      BY <2>1, <2>2 DEF ExchangeOK
    <3>2. \A t \in Requests : /\ req[t].place \in Nat
                              /\ req[t].at = "served" => req[t].place <= limit
                              /\ req[t].at = "refused" => req[t].place > limit
      BY <1>1 DEF Inv, RequestsOK, TypeOK, Request
    <3>3. req[r].place \in Nat /\ req[s].place \in Nat /\ limit \in Nat
      BY <1>1, <3>2, LimitIsPositive DEF Inv
    <3>4. CASE req[r].place > limit
      <4>1. Remaining(req[r].place) = 0
        BY <3>4 DEF Remaining
      <4> QED
        BY <2>2, <3>1, <3>2, <3>3, <3>4, <4>1
    <3>5. CASE ~(req[r].place > limit)
      <4>1. Remaining(req[r].place) = limit - req[r].place
        BY <3>5 DEF Remaining
      <4> QED
        BY <3>1, <3>2, <3>3, <4>1
    <3> QED
      BY <3>4, <3>5
  <2> QED
    BY <2>1, <2>2 DEF ExchangeOK
<1>2. Inv /\ BoundaryInv => AnswersAreHonest
  BY <1>1 DEF AnswersAreHonest
<1> QED
  BY <1>2, BoundaryInvariant, PTL

=============================================================================
