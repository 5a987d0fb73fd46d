------------------------- MODULE ConnectivityProofs -------------------------
(* What holds of Connectivity, and of Reports and Trace on top of it, for  *)
(* any ports, cables, mappings and routes and any number of request        *)
(* threads.                                                                *)
EXTENDS Trace, Reports, FiniteSetTheorems, FunctionTheorems, WellFoundedInduction, TLAPS

----------------------------------------------------------------------------
(* The inductive invariant: a request holds what its checks established,   *)
(* and nobody else holds or has stored the entries it has inserted.        *)

Started(r) == req[r].at # "idle"
HasCable(r) == req[r].at \in {"route", "side_a", "side_b", "commit"}
HasRoute(r) == req[r].at \in {"side_a", "side_b", "commit"}

RowIsChecked(row) ==
    /\ row.media \in Media /\ row.a \in Ports /\ row.b \in Ports
    /\ Fits(row.media, row.a, row.b)

RequestsAreChecked ==
    \A r \in Requests :
        /\ Started(r) => req[r].cable \in Cables /\ RowIsChecked(req[r].row)
        /\ HasRoute(r) => ~SegmentsMissing(r)

HeldIsNew ==
    \A r \in Requests :
        /\ HasCable(r) => ~Stored(req[r].cable)
        /\ \A p \in Ports : HoldsPort(r, p) => ~Terminated(p)

HeldByOne ==
    \A r, s \in Requests : r # s =>
        /\ HasCable(r) /\ HasCable(s) => req[r].cable # req[s].cable
        /\ \A p \in Ports : ~(HoldsPort(r, p) /\ HoldsPort(s, p))

StoredIsChecked ==
    \A c \in Cables : Stored(c) =>
        /\ RowIsChecked(cables[c])
        /\ \A n \in DOMAIN cables[c].route : cables[c].route[n] \in Segments

EventsOf(c) == { n \in DOMAIN audit : audit[n] = c }
LoggedOnce ==
    \A c \in Cables : Cardinality(EventsOf(c)) = (IF Stored(c) THEN 1 ELSE 0)

Shape == /\ TypeOK /\ RequestsAreChecked /\ HeldIsNew /\ HeldByOne
         /\ StoredIsChecked /\ PortsHoldOneCable /\ LoggedOnce

----------------------------------------------------------------------------
(* The log after one more event.                                           *)
LEMMA AppendAddsOneEvent ==
    ASSUME TypeOK, NEW c \in Cables, NEW d \in Cables, audit' = Append(audit, c)
    PROVE  /\ Cardinality(EventsOf(d)) \in Nat
           /\ Cardinality(EventsOf(d))' = Cardinality(EventsOf(d)) + (IF c = d THEN 1 ELSE 0)
<1> DEFINE before == EventsOf(d)
           after == { n \in DOMAIN audit' : audit'[n] = d }
           n1 == Len(audit) + 1
<1>1. audit \in Seq(Cables) /\ Len(audit) \in Nat
  BY DEF TypeOK
<1>2. /\ DOMAIN audit = 1 .. Len(audit) /\ DOMAIN audit' = 1 .. n1
      /\ audit'[n1] = c /\ \A n \in 1 .. Len(audit) : audit'[n] = audit[n]
  BY <1>1
<1>3. IsFiniteSet(before)
  <2>1. IsFiniteSet(1 .. Len(audit))
    BY <1>1, FS_Interval
  <2>2. before \in SUBSET (1 .. Len(audit))
    BY <1>2 DEF EventsOf
  <2> QED
    BY <2>1, <2>2, FS_Subset
<1>4. Cardinality(before) \in Nat
  BY <1>3, FS_CardinalityType
<1>5. CASE c = d
  <2>1. after = before \cup {n1} /\ n1 \notin before
    BY <1>1, <1>2, <1>5 DEF EventsOf
  <2>2. Cardinality(after) = Cardinality(before) + 1
    BY <1>3, <2>1, FS_AddElement
  <2> QED
    BY <1>4, <1>5, <2>2 DEF EventsOf
<1>6. CASE c # d
  <2>1. after = before
    BY <1>1, <1>2, <1>6 DEF EventsOf
  <2>2. Cardinality(EventsOf(d))' = Cardinality(before)
    BY <2>1 DEF EventsOf
  <2> HIDE DEF before
  <2>3. Cardinality(before) + 0 = Cardinality(before)
    BY <1>4
  <2> QED
    BY <1>4, <1>6, <2>2, <2>3 DEF before
<1> QED
  BY <1>5, <1>6

----------------------------------------------------------------------------
(* Steps that change no row                                                *)

(* A request that ends lets go and leaves the rest as it was.              *)
LEMMA FailStep ==
    ASSUME Shape, NEW r \in Requests, Fail(r)
    PROVE  Shape'
<1>1. Idle \in Request
  BY DEF Idle, Request, NoCable, CableRow
<1>2. TypeOK'
  BY <1>1 DEF Shape, TypeOK, Fail
<1>3. /\ UNCHANGED <<cables, audit>> /\ req'[r] = Idle
      /\ \A s \in Requests : s # r => req'[s] = req[s]
  BY DEF Fail, Shape, TypeOK
<1>4. \A s \in Requests : req'[s] = req[s] \/ ~Started(s)'
  BY <1>3 DEF Started, Idle
<1>5. RequestsAreChecked'
  BY <1>4 DEF Shape, RequestsAreChecked, Started, HasRoute, SegmentsMissing, RowIsChecked, Fits
<1>6. HeldIsNew' /\ HeldByOne'
  BY <1>3, <1>4 DEF Shape, HeldIsNew, HeldByOne, Started, HasCable, HoldsPort, Stored, Terminated
<1>7. StoredIsChecked' /\ PortsHoldOneCable' /\ LoggedOnce'
  BY <1>3 DEF Shape, StoredIsChecked, PortsHoldOneCable, LoggedOnce, Stored, RowIsChecked, Ends,
              EventsOf
<1> QED
  BY <1>2, <1>5, <1>6, <1>7 DEF Shape

(* What a step by r to one of its inserts has to show.                     *)
LEMMA AdvanceStep ==
    ASSUME Shape, NEW r \in Requests,
           NEW to \in {"route", "side_a", "side_b", "commit"},
           Started(r), Advance(r, to),
           HasRoute(r)' => ~SegmentsMissing(r),
           ~Stored(req[r].cable),
           \A s \in Requests : s # r /\ HasCable(s) => req[s].cable # req[r].cable,
           \A p \in Ports : HoldsPort(r, p)' =>
              ~Terminated(p) /\ \A s \in Requests : s # r => ~HoldsPort(s, p)
    PROVE  Shape'
<1>1. /\ UNCHANGED <<cables, audit>>
      /\ req'[r].at = to /\ req'[r].cable = req[r].cable /\ req'[r].row = req[r].row
      /\ \A s \in Requests : s # r => req'[s] = req[s]
  BY DEF Advance, Shape, TypeOK
<1>2. TypeOK'
  <2>1. req[r] \in Request
    BY DEF Shape, TypeOK
  <2>2. [at |-> to, cable |-> req[r].cable, row |-> req[r].row] \in Request
    BY <2>1 DEF Request
  <2> QED
    BY <2>2 DEF Shape, TypeOK, Advance
<1>3. RequestsAreChecked'
  <2> SUFFICES ASSUME NEW s \in Requests
               PROVE  /\ Started(s)' => req'[s].cable \in Cables /\ RowIsChecked(req[s].row)'
                      /\ HasRoute(s)' => ~SegmentsMissing(s)'
    BY DEF RequestsAreChecked
  <2>1. CASE s = r
    BY <1>1, <2>1 DEF Shape, RequestsAreChecked, RowIsChecked, SegmentsMissing, Fits
  <2>2. CASE s # r
    BY <1>1, <2>2 DEF Shape, RequestsAreChecked, RowIsChecked, SegmentsMissing, Fits,
                      Started, HasRoute
  <2> QED
    BY <2>1, <2>2
<1>4. HeldIsNew'
  <2> SUFFICES ASSUME NEW s \in Requests
               PROVE  /\ HasCable(s)' => ~Stored(req[s].cable)'
                      /\ \A p \in Ports : HoldsPort(s, p)' => ~Terminated(p)'
    BY DEF HeldIsNew
  <2>1. CASE s = r
    BY <1>1, <2>1 DEF Stored, Terminated
  <2>2. CASE s # r
    BY <1>1, <2>2 DEF Shape, HeldIsNew, HasCable, HoldsPort, Stored, Terminated
  <2> QED
    BY <2>1, <2>2
<1>5. HeldByOne'
  <2>1. \A s \in Requests : s # r =>
           /\ HasCable(s)' = HasCable(s) /\ req'[s].cable = req[s].cable
           /\ \A p \in Ports : HoldsPort(s, p)' = HoldsPort(s, p)
    BY <1>1 DEF HasCable, HoldsPort
  <2> QED
    BY <1>1, <2>1 DEF Shape, HeldByOne
<1>6. StoredIsChecked' /\ PortsHoldOneCable' /\ LoggedOnce'
  BY <1>1 DEF Shape, StoredIsChecked, PortsHoldOneCable, LoggedOnce, Stored, RowIsChecked, Ends,
              EventsOf
<1> QED
  BY <1>2, <1>3, <1>4, <1>5, <1>6 DEF Shape

LEMMA InsertCableStep ==
    ASSUME Shape, NEW r \in Requests, InsertCable(r)
    PROVE  Shape'
<1>1. CASE Stored(req[r].cable)
  BY <1>1, FailStep DEF InsertCable
<1>2. CASE ~Stored(req[r].cable)
  <2>1. Advance(r, "route") /\ Started(r)
    BY <1>2 DEF InsertCable, Started
  <2>2. req'[r].at = "route" /\ ~HasRoute(r)' /\ \A p \in Ports : ~HoldsPort(r, p)'
    BY <2>1 DEF Advance, Shape, TypeOK, HasRoute, HoldsPort
  <2>3. \A s \in Requests : s # r /\ HasCable(s) => req[s].cable # req[r].cable
    BY DEF InsertCable, Waiting, Waits, HoldsCable, HasCable
  <2> QED
    BY <1>2, <2>1, <2>2, <2>3, AdvanceStep
<1> QED
  BY <1>1, <1>2

LEMMA ReadRouteStep ==
    ASSUME Shape, NEW r \in Requests, ReadRoute(r)
    PROVE  Shape'
<1>1. CASE SegmentsMissing(r)
  BY <1>1, FailStep DEF ReadRoute
<1>2. CASE ~SegmentsMissing(r)
  <2>1. Advance(r, "side_a") /\ Started(r) /\ HasCable(r)
    BY <1>2 DEF ReadRoute, Started, HasCable
  <2>2. req'[r].at = "side_a" /\ \A p \in Ports : ~HoldsPort(r, p)'
    BY <2>1 DEF Advance, Shape, TypeOK, HoldsPort
  <2>3. /\ ~Stored(req[r].cable)
        /\ \A s \in Requests : s # r /\ HasCable(s) => req[s].cable # req[r].cable
    BY <2>1 DEF Shape, HeldIsNew, HeldByOne
  <2> QED
    BY <1>2, <2>1, <2>2, <2>3, AdvanceStep
<1> QED
  BY <1>1, <1>2

LEMMA InsertSidesStep ==
    ASSUME Shape, NEW r \in Requests, InsertSides(r)
    PROVE  Shape'
<1>1. CASE Fail(r)
  BY <1>1, FailStep
<1>2. ASSUME NEW side \in {"side_a", "side_b"}, NEW next \in {"side_b", "commit"},
             req[r].at = side, Advance(r, next),
             \A p \in Ports : HoldsPort(r, p)' /\ ~HoldsPort(r, p) =>
                ~Terminated(p) /\ \A s \in Requests : s # r => ~HoldsPort(s, p)
      PROVE  Shape'
  <2>1. Started(r) /\ HasCable(r) /\ HasRoute(r)
    BY <1>2 DEF Started, HasCable, HasRoute
  <2>2. /\ ~Stored(req[r].cable) /\ ~SegmentsMissing(r)
        /\ \A s \in Requests : s # r /\ HasCable(s) => req[s].cable # req[r].cable
    BY <2>1 DEF Shape, RequestsAreChecked, HeldIsNew, HeldByOne
  <2>3. \A p \in Ports : HoldsPort(r, p) =>
           ~Terminated(p) /\ \A s \in Requests : s # r => ~HoldsPort(s, p)
    BY DEF Shape, HeldIsNew, HeldByOne
  <2> QED
    BY <1>2, <2>1, <2>2, <2>3, AdvanceStep
<1>3. ASSUME req[r].at = "side_a", ~Waiting(r), ~Terminated(req[r].row.a), Advance(r, "side_b")
      PROVE  Shape'
  <2>1. \A p \in Ports : HoldsPort(r, p)' => p = req[r].row.a
    BY <1>3 DEF Advance, HoldsPort, Shape, TypeOK
  <2>2. \A s \in Requests : s # r => ~HoldsPort(s, req[r].row.a)
    BY <1>3 DEF Waiting, Waits
  <2> QED
    BY <1>2, <1>3, <2>1, <2>2
<1>4. ASSUME req[r].at = "side_b", ~Waiting(r), ~Terminated(req[r].row.b), Advance(r, "commit")
      PROVE  Shape'
  <2>1. \A p \in Ports : HoldsPort(r, p)' /\ ~HoldsPort(r, p) => p = req[r].row.b
    BY <1>4 DEF Advance, HoldsPort, Shape, TypeOK
  <2>2. \A s \in Requests : s # r => ~HoldsPort(s, req[r].row.b)
    BY <1>4 DEF Waiting, Waits
  <2> QED
    BY <1>2, <1>4, <2>1, <2>2
<1> QED
  BY <1>1, <1>3, <1>4 DEF InsertSides, InsertSide

LEMMA CommitStep ==
    ASSUME Shape, NEW r \in Requests, Commit(r)
    PROVE  Shape'
<1> DEFINE c == req[r].cable
           row == req[r].row
<1>1. /\ c \in Cables /\ RowIsChecked(row) /\ row \in CableRow
      /\ ~Stored(c) /\ ~SegmentsMissing(r)
      /\ HoldsPort(r, row.a) /\ HoldsPort(r, row.b)
  BY DEF Commit, Shape, TypeOK, Request, RequestsAreChecked, HeldIsNew, Started, HasRoute, HasCable,
         HoldsPort
<1>2. row.a \in Ports /\ row.b \in Ports /\ row.a # row.b /\ row.media \in Media
  BY <1>1 DEF RowIsChecked, Fits
<1>3. /\ cables'[c] = row /\ \A d \in Cables : d # c => cables'[d] = cables[d]
      /\ audit' = Append(audit, c)
      /\ req'[r] = Idle /\ \A s \in Requests : s # r => req'[s] = req[s]
  BY <1>1 DEF Commit, Shape, TypeOK
<1>4. ~Terminated(row.a) /\ ~Terminated(row.b)
  BY <1>1, <1>2 DEF Shape, HeldIsNew
<1>5. TypeOK'
  <2>1. Idle \in Request
    BY DEF Idle, Request, NoCable, CableRow
  <2>2. Append(audit, c) \in Seq(Cables)
    BY <1>1 DEF Shape, TypeOK
  <2> QED
    BY <1>1, <2>1, <2>2 DEF Commit, Shape, TypeOK
<1>6. \A d \in Cables : /\ d # c => (Stored(d)' <=> Stored(d))
                        /\ d = c => Stored(d)'
  BY <1>1, <1>2, <1>3, NoneIsNoMedia DEF Stored
<1>7. RequestsAreChecked'
  BY <1>3 DEF Shape, RequestsAreChecked, Started, HasRoute, SegmentsMissing, RowIsChecked, Fits, Idle
<1>8. HeldIsNew'
  <2> SUFFICES ASSUME NEW s \in Requests
               PROVE  /\ HasCable(s)' => ~Stored(req[s].cable)'
                      /\ \A p \in Ports : HoldsPort(s, p)' => ~Terminated(p)'
    BY DEF HeldIsNew
  <2>1. CASE s = r
    BY <1>3, <2>1, NoneIsNoPort DEF HasCable, HoldsPort, Idle, NoCable
  <2>2. CASE s # r
    <3>1. /\ req'[s] = req[s]
          /\ HasCable(s) => /\ ~Stored(req[s].cable) /\ req[s].cable # c
                            /\ req[s].cable \in Cables
          /\ \A p \in Ports : HoldsPort(s, p) => ~Terminated(p) /\ p \notin {row.a, row.b}
      BY <1>1, <1>2, <1>3, <2>2
         DEF Shape, HeldIsNew, HeldByOne, RequestsAreChecked, Started, HasCable, Commit
    <3>2. HasCable(s)' => ~Stored(req[s].cable)'
      BY <1>3, <3>1 DEF HasCable, Stored
    <3>3. \A p \in Ports : HoldsPort(s, p)' => ~Terminated(p)'
      BY <1>3, <1>6, <3>1 DEF HoldsPort, Terminated
    <3> QED
      BY <3>2, <3>3
  <2> QED
    BY <2>1, <2>2
<1>9. HeldByOne'
  BY <1>3, NoneIsNoPort DEF Shape, HeldByOne, HasCable, HoldsPort, Idle, NoCable
<1>10. StoredIsChecked'
  <2> SUFFICES ASSUME NEW d \in Cables, Stored(d)'
               PROVE  /\ RowIsChecked(cables[d])'
                      /\ \A n \in DOMAIN cables'[d].route : cables'[d].route[n] \in Segments
    BY DEF StoredIsChecked
  <2>1. CASE d = c
    BY <1>1, <1>3, <2>1 DEF RowIsChecked, Fits, SegmentsMissing
  <2>2. CASE d # c
    BY <1>3, <1>6, <2>2 DEF Shape, StoredIsChecked, RowIsChecked, Fits
  <2> QED
    BY <2>1, <2>2
<1>11. PortsHoldOneCable'
  <2>1. \A d \in Cables : Stored(d) => row.a \notin Ends(d) /\ row.b \notin Ends(d)
    BY <1>4 DEF Terminated, Ends
  <2>2. \A d \in Cables : /\ d = c => Ends(d)' = {row.a, row.b}
                          /\ d # c => Ends(d)' = Ends(d)
    BY <1>3 DEF Ends
  <2>3. ASSUME NEW d \in Cables, Stored(d)'
        PROVE  cables'[d].a # cables'[d].b
    BY <1>2, <1>3, <1>6, <2>3 DEF Shape, PortsHoldOneCable
  <2>4. ASSUME NEW d \in Cables, NEW e \in Cables, Stored(d)', Stored(e)', d # e
        PROVE  Ends(d)' \cap Ends(e)' = {}
    <3>1. CASE d # c /\ e # c
      BY <1>6, <2>2, <2>4, <3>1 DEF Shape, PortsHoldOneCable
    <3>2. CASE d = c
      BY <1>6, <2>1, <2>2, <2>4, <3>2
    <3>3. CASE e = c
      BY <1>6, <2>1, <2>2, <2>4, <3>3
    <3> QED
      BY <3>1, <3>2, <3>3
  <2> QED
    BY <2>3, <2>4 DEF PortsHoldOneCable
<1>12. LoggedOnce'
  <2> SUFFICES ASSUME NEW d \in Cables
               PROVE  Cardinality(EventsOf(d))' = (IF Stored(d)' THEN 1 ELSE 0)
    BY DEF LoggedOnce
  <2>1. Cardinality(EventsOf(d))' = Cardinality(EventsOf(d)) + (IF c = d THEN 1 ELSE 0)
    BY <1>1, <1>3, AppendAddsOneEvent DEF Shape
  <2>2. Cardinality(EventsOf(d)) = (IF Stored(d) THEN 1 ELSE 0)
    BY DEF Shape, LoggedOnce
  <2> QED
    BY <1>1, <1>6, <2>1, <2>2
<1> QED
  BY <1>5, <1>7, <1>8, <1>9, <1>10, <1>11, <1>12 DEF Shape

LEMMA BeginStep ==
    ASSUME Shape, NEW r \in Requests, NEW c \in Cables, NEW media \in Media,
           NEW a \in Ports, NEW b \in Ports, NEW route \in Routes,
           BeginCable(r, c, media, a, b, route)
    PROVE  Shape'
<1> DEFINE row == [media |-> media, a |-> a, b |-> b, route |-> route]
           q == [at |-> "cable", cable |-> c, row |-> row]
<1>1. /\ UNCHANGED <<cables, audit>> /\ req'[r] = q
      /\ \A s \in Requests : s # r => req'[s] = req[s]
  BY DEF BeginCable, Shape, TypeOK
<1>2. row \in CableRow /\ RowIsChecked(row)
  BY DEF CableRow, RowIsChecked, BeginCable
<1>3. q \in Request
  BY <1>2 DEF Request
<1>4. TypeOK'
  BY <1>3 DEF BeginCable, Shape, TypeOK
<1> HIDE DEF row
<1>5. ~HasCable(r)' /\ ~HasRoute(r)' /\ \A p \in Ports : ~HoldsPort(r, p)'
  BY <1>1 DEF HasCable, HasRoute, HoldsPort
<1>6. RequestsAreChecked'
  <2> SUFFICES ASSUME NEW s \in Requests
               PROVE  /\ Started(s)' => req'[s].cable \in Cables /\ RowIsChecked(req[s].row)'
                      /\ HasRoute(s)' => ~SegmentsMissing(s)'
    BY DEF RequestsAreChecked
  <2>1. CASE s = r
    BY <1>1, <1>2, <1>5, <2>1 DEF RowIsChecked, Fits
  <2>2. CASE s # r
    BY <1>1, <2>2 DEF Shape, RequestsAreChecked, RowIsChecked, SegmentsMissing, Fits,
                      Started, HasRoute
  <2> QED
    BY <2>1, <2>2
<1>7. HeldIsNew'
  <2> SUFFICES ASSUME NEW s \in Requests, s # r
               PROVE  /\ HasCable(s)' => ~Stored(req[s].cable)'
                      /\ \A p \in Ports : HoldsPort(s, p)' => ~Terminated(p)'
    BY <1>5 DEF HeldIsNew
  <2> QED
    BY <1>1 DEF Shape, HeldIsNew, HasCable, HoldsPort, Stored, Terminated
<1>8. HeldByOne'
  BY <1>1, <1>5 DEF Shape, HeldByOne, HasCable, HoldsPort
<1>9. StoredIsChecked' /\ PortsHoldOneCable' /\ LoggedOnce'
  BY <1>1 DEF Shape, StoredIsChecked, PortsHoldOneCable, LoggedOnce, Stored, RowIsChecked, Ends,
              EventsOf
<1> QED
  BY <1>4, <1>6, <1>7, <1>8, <1>9 DEF Shape

----------------------------------------------------------------------------
(* Theorems                                                                *)

LEMMA ShapeInit == Init => Shape
<1> SUFFICES ASSUME Init PROVE Shape
  OBVIOUS
<1>1. NoCable \in CableRow /\ Idle \in Request
  BY DEF NoCable, CableRow, Idle, Request
<1>2. TypeOK
  BY <1>1 DEF Init, TypeOK
<1>3. \A c \in Cables : ~Stored(c) /\ EventsOf(c) = {}
  BY DEF Init, Stored, NoCable, EventsOf
<1>4. \A r \in Requests : ~Started(r) /\ ~HasCable(r) /\ ~HasRoute(r)
                        /\ \A p \in Ports : ~HoldsPort(r, p)
  BY DEF Init, Idle, Started, HasCable, HasRoute, HoldsPort
<1>5. LoggedOnce
  BY <1>3, FS_EmptySet DEF LoggedOnce
<1> QED
  BY <1>2, <1>3, <1>4, <1>5
     DEF Shape, RequestsAreChecked, HeldIsNew, HeldByOne, StoredIsChecked, PortsHoldOneCable

LEMMA ShapeStep == Shape /\ [Next]_vars => Shape'
<1> SUFFICES ASSUME Shape, [Next]_vars PROVE Shape'
  OBVIOUS
<1>1. ASSUME UNCHANGED vars
      PROVE  Shape'
  BY <1>1 DEF vars, Shape, TypeOK, RequestsAreChecked, HeldIsNew, HeldByOne, StoredIsChecked,
              PortsHoldOneCable, LoggedOnce, Started, HasCable, HasRoute, HoldsPort, Stored,
              Terminated, RowIsChecked, SegmentsMissing, Ends, EventsOf
<1>2. ASSUME NEW r \in Requests, Begin(r)
      PROVE  Shape'
  <2>1. PICK w \in Wanted : BeginCable(r, w.cable, w.media, w.a, w.b, w.route)
    BY <1>2 DEF Begin
  <2>2. /\ w.cable \in Cables /\ w.media \in Media /\ w.route \in Routes
        /\ w.a \in Ports /\ w.b \in Ports
    BY WantedIsTyped
  <2> QED
    BY <2>1, <2>2, BeginStep
<1>3. ASSUME NEW r \in Requests, Progress(r)
      PROVE  Shape'
  BY <1>3, InsertCableStep, ReadRouteStep, InsertSidesStep, CommitStep, FailStep
     DEF Progress, AbortDeadlock
<1>4. ASSUME NEW r \in Requests, Abort(r)
      PROVE  Shape'
  BY <1>4, FailStep DEF Abort
<1> QED
  BY <1>1, <1>2, <1>3, <1>4 DEF Next

(* The inductive invariant holds.                                          *)
THEOREM ShapeInvariant == Spec => []Shape
BY ShapeInit, ShapeStep, PTL DEF Spec

(* Every committed cable and every request has its type.                   *)
THEOREM TypeCorrect == Spec => []TypeOK
<1>1. Shape => TypeOK
  BY DEF Shape
<1> QED
  BY <1>1, ShapeInvariant, PTL

(* However many requests overlap, no port takes two ends of cables: the    *)
(* index entry a request holds was free when it took it and stays its own. *)
THEOREM PortsAreExclusive == Spec => []PortsHoldOneCable
<1>1. Shape => PortsHoldOneCable
  BY DEF Shape
<1> QED
  BY <1>1, ShapeInvariant, PTL

(* A cable is stored whole: both ends of its family, its route, one event. *)
THEOREM CablesStoredWhole == Spec => []CablesAreWhole
<1>1. Shape => CablesAreWhole
  <2> SUFFICES ASSUME Shape, NEW c \in Cables
               PROVE  /\ Stored(c) =>
                           /\ \A p \in Ends(c) :
                                 p \in Ports /\ Family(PortMedia[p]) = Family(cables[c].media)
                           /\ \A n \in DOMAIN cables[c].route : cables[c].route[n] \in Segments
                      /\ Cardinality({ n \in DOMAIN audit : audit[n] = c })
                           = (IF Stored(c) THEN 1 ELSE 0)
    BY DEF CablesAreWhole
  <2>1. Stored(c) => \A p \in Ends(c) :
                        p \in Ports /\ Family(PortMedia[p]) = Family(cables[c].media)
    BY DEF Shape, StoredIsChecked, RowIsChecked, Fits, Ends
  <2>2. Stored(c) => \A n \in DOMAIN cables[c].route : cables[c].route[n] \in Segments
    BY DEF Shape, StoredIsChecked
  <2>3. Cardinality({ n \in DOMAIN audit : audit[n] = c }) = (IF Stored(c) THEN 1 ELSE 0)
    BY DEF Shape, LoggedOnce, EventsOf
  <2> QED
    BY <2>1, <2>2, <2>3
<1> QED
  BY <1>1, ShapeInvariant, PTL

----------------------------------------------------------------------------
(* Connectivity implements AtomicCables                                    *)

(* What a request is about to store is what somebody asked for.            *)
AskedFor ==
    \A r \in Requests : Started(r) =>
        \E w \in Wanted : w.cable = req[r].cable /\ RowFor(w) = req[r].row

LEMMA AskedForStep ==
    ASSUME Shape, AskedFor, [Next]_vars
    PROVE  AskedFor'
<1>1. ASSUME NEW r \in Requests, req' = [req EXCEPT ![r] = Idle]
      PROVE  AskedFor'
  <2>1. ~Started(r)' /\ \A s \in Requests : s # r => req'[s] = req[s]
    BY <1>1 DEF Shape, TypeOK, Started, Idle
  <2> QED
    BY <2>1 DEF AskedFor, Started
<1>2. ASSUME NEW r \in Requests, NEW to, Advance(r, to), Started(r)
      PROVE  AskedFor'
  <2>1. /\ req'[r].cable = req[r].cable /\ req'[r].row = req[r].row
        /\ \A s \in Requests : s # r => req'[s] = req[s]
    BY <1>2 DEF Shape, TypeOK, Advance
  <2> QED
    BY <1>2, <2>1 DEF AskedFor, Started
<1>3. ASSUME NEW r \in Requests, NEW w \in Wanted,
             BeginCable(r, w.cable, w.media, w.a, w.b, w.route)
      PROVE  AskedFor'
  <2>1. /\ req'[r].cable = w.cable /\ req'[r].row = RowFor(w)
        /\ \A s \in Requests : s # r => req'[s] = req[s]
    BY <1>3 DEF Shape, TypeOK, BeginCable, RowFor
  <2> QED
    BY <2>1 DEF AskedFor, Started
<1>4. CASE UNCHANGED vars
  BY <1>4 DEF AskedFor, Started, vars
<1>5. ASSUME NEW r \in Requests, Progress(r)
      PROVE  AskedFor'
  BY <1>1, <1>2, <1>5
     DEF Progress, InsertCable, ReadRoute, InsertSides, InsertSide, Commit, AbortDeadlock, Fail, Started
<1> QED
  BY <1>1, <1>3, <1>4, <1>5 DEF Next, Begin, Abort, Fail

LEMMA CommitIsAGrant ==
    ASSUME Shape, AskedFor, NEW r \in Requests, Commit(r)
    PROVE  Atomic!Next
<1> DEFINE c == req[r].cable
<1>1. /\ req[r].at = "commit" /\ c \in Cables /\ RowIsChecked(req[r].row)
      /\ ~SegmentsMissing(r) /\ ~Stored(c)
      /\ cables' = [cables EXCEPT ![c] = req[r].row] /\ audit' = Append(audit, c)
  BY DEF Commit, Shape, RequestsAreChecked, HeldIsNew, Started, HasRoute, HasCable
<1>2. PICK w \in Wanted : w.cable = c /\ RowFor(w) = req[r].row
  BY <1>1 DEF AskedFor, Started
<1>3. /\ w \in [cable : Cables, media : Media, a : Ports, b : Ports, route : Routes]
      /\ req[r].row = [media |-> w.media, a |-> w.a, b |-> w.b, route |-> w.route]
  BY <1>2, WantedIsTyped DEF RowFor
<1>4. w \in Creatable
  <2>1. /\ req[r].row.media = w.media /\ req[r].row.a = w.a
        /\ req[r].row.b = w.b /\ req[r].row.route = w.route
    BY <1>3
  <2> QED
    BY <1>1, <1>2, <2>1 DEF Creatable, RowIsChecked, SegmentsMissing
<1>5. /\ \A d \in Cables \ {c} : cables'[d] = cables[d]
      /\ cables'[c] = RowFor(w)
  BY <1>1, <1>2 DEF Shape, TypeOK
<1>6. ASSUME NEW v \in Granted
      PROVE  /\ v \in Creatable /\ v \in Wanted /\ v.cable \in Cables \ {c} /\ Stored(v.cable)
             /\ cables[v.cable] = RowFor(v) /\ v.a \in Ports /\ v.b \in Ports
             /\ Terminated(v.a) /\ Terminated(v.b)
  <2>1. v \in Creatable /\ v \in Wanted /\ cables[v.cable] = RowFor(v)
    BY DEF Granted, Creatable
  <2>2. /\ v.cable \in Cables /\ v.media \in Media /\ v.a \in Ports /\ v.b \in Ports
        /\ cables[v.cable].media = v.media /\ cables[v.cable].a = v.a /\ cables[v.cable].b = v.b
    BY <2>1, WantedIsTyped DEF RowFor
  <2>3. Stored(v.cable)
    BY <2>2, NoneIsNoMedia DEF Stored
  <2> QED
    BY <1>1, <2>1, <2>2, <2>3 DEF Terminated
<1>7. Granted' = Granted \cup {w}
  <2>1. ASSUME NEW v \in Granted' PROVE v \in Granted \cup {w}
    <3>1. v \in Creatable /\ v \in Wanted /\ cables'[v.cable] = RowFor(v)
      BY DEF Granted, Creatable
    <3>2. v \in [cable : Cables, media : Media, a : Ports, b : Ports, route : Routes]
      BY <3>1, WantedIsTyped
    <3>3. CASE v.cable = c
      <4>1. RowFor(v) = RowFor(w) /\ v.cable = w.cable
        BY <1>2, <1>5, <3>1, <3>3
      <4>2. v.media = w.media /\ v.a = w.a /\ v.b = w.b /\ v.route = w.route
        BY <4>1 DEF RowFor
      <4>3. v = w
        BY <1>3, <3>2, <4>1, <4>2
      <4> QED
        BY <4>3
    <3>4. CASE v.cable # c
      BY <1>5, <3>1, <3>2, <3>4 DEF Granted
    <3> QED
      BY <3>3, <3>4
  <2>2. ASSUME NEW v \in Granted PROVE v \in Granted'
    BY <1>5, <1>6 DEF Granted
  <2>3. w \in Granted'
    BY <1>2, <1>4, <1>5 DEF Granted
  <2> QED
    BY <2>1, <2>2, <2>3
<1>8. Atomic!Free(w)
  <2>1. ~Terminated(w.a) /\ ~Terminated(w.b)
    <3>1. HoldsPort(r, w.a) /\ HoldsPort(r, w.b)
      BY <1>1, <1>3 DEF HoldsPort
    <3> QED
      BY <1>3, <3>1 DEF Shape, HeldIsNew
  <2> QED
    BY <1>2, <1>6, <2>1 DEF Atomic!Free
<1>9. Atomic!Grant(w)
  BY <1>1, <1>2, <1>7, <1>8 DEF Atomic!Grant
<1> QED
  BY <1>4, <1>9 DEF Atomic!Next

(* However requests overlap, wait, fail and are aborted, the committed     *)
(* cables and their events are those of create_cable run by one request    *)
(* after the other, each in a single step (connectivity.py 80-137), in the *)
(* order of their commits.                                                 *)
THEOREM CreatesBehaveAtomically == Spec => CreatesAreAtomic
<1>1. Init => AskedFor /\ Atomic!Init
  <2>1. ASSUME Init PROVE AskedFor
    BY <2>1 DEF Init, AskedFor, Started, Idle
  <2>2. ASSUME Init PROVE Granted = {}
    <3> SUFFICES ASSUME NEW v \in Granted PROVE FALSE
      OBVIOUS
    <3>1. v \in Wanted /\ cables[v.cable] = RowFor(v)
      BY DEF Granted, Creatable
    <3>2. v.cable \in Cables /\ v.media \in Media /\ RowFor(v).media = v.media
      BY <3>1, WantedIsTyped DEF RowFor
    <3> QED
      BY <2>2, <3>1, <3>2, NoneIsNoMedia DEF Init, NoCable
  <2> QED
    BY <2>1, <2>2 DEF Init, Atomic!Init
<1>2. Shape /\ AskedFor /\ [Next]_vars => AskedFor'
  BY AskedForStep
<1>3. Shape /\ AskedFor /\ [Next]_vars => [Atomic!Next]_Atomic!vars
  <2> SUFFICES ASSUME Shape, AskedFor, [Next]_vars
               PROVE  Atomic!Next \/ UNCHANGED Atomic!vars
    OBVIOUS
  <2>1. CASE UNCHANGED <<cables, audit>>
    BY <2>1 DEF Atomic!vars, Granted
  <2>2. ASSUME NEW r \in Requests, Begin(r) \/ Abort(r)
        PROVE  UNCHANGED <<cables, audit>>
    BY <2>2 DEF Begin, BeginCable, Abort, Fail
  <2>3. ASSUME NEW r \in Requests, Progress(r)
        PROVE  Commit(r) \/ UNCHANGED <<cables, audit>>
    BY <2>3 DEF Progress, InsertCable, ReadRoute, InsertSides, InsertSide, AbortDeadlock, Fail, Advance
  <2> QED
    BY <2>1, <2>2, <2>3, CommitIsAGrant DEF Next, vars
<1> QED
  BY <1>1, <1>2, <1>3, ShapeInvariant, PTL DEF Spec, Atomic!Spec, CreatesAreAtomic

----------------------------------------------------------------------------
(* Requests do not all wait for each other unnoticed                       *)

LEMMA LeastNumber ==
    ASSUME NEW T \in SUBSET Nat, T # {}
    PROVE  \E n \in T : \A m \in T : ~(m < n)
<1> DEFINE R == OpToRel(<, Nat)
<1>1. IsWellFoundedOn(R, Nat)
  BY NatLessThanWellFounded
<1>2. \A m, n \in Nat : m < n => <<m, n>> \in R
  BY DEF OpToRel
<1> HIDE DEF R
<1>3. PICK n \in T : \A m \in T : ~(<<m, n>> \in R)
  BY <1>1, WFMin
<1> QED BY <1>2, <1>3

LEMMA WaitersMeet ==
    ASSUME NEW A \in SUBSET Requests, IsFiniteSet(A), A # {},
           \A r \in A : \E s \in A : Waits(r, s)
    PROVE  \E r \in A : Deadlocked(r)
<1> DEFINE Knots == { S \in SUBSET A : S # {} /\ \A r \in S : \E s \in S : Waits(r, s) }
           Sizes == { Cardinality(S) : S \in Knots }
<1>1. \A S \in Knots : IsFiniteSet(S) /\ Cardinality(S) \in Nat
  BY FS_Subset, FS_CardinalityType
<1>2. Sizes \in SUBSET Nat /\ Sizes # {}
  BY <1>1
<1>3. PICK n \in Sizes : \A m \in Sizes : ~(m < n)
  <2> HIDE DEF Sizes
  <2> QED
    BY <1>2, LeastNumber
<1>4. PICK S \in Knots : Cardinality(S) = n
  OBVIOUS
<1>5. ASSUME NEW t \in S
      PROVE  \E s \in S : Waits(s, t)
  <2> SUFFICES ASSUME \A s \in S : ~Waits(s, t)
               PROVE  FALSE
    OBVIOUS
  <2> DEFINE T == S \ {t}
  <2>1. PICK u \in S : Waits(t, u)
    OBVIOUS
  <2>2. u # t
    BY <2>1 DEF Waits
  <2>3. T \in Knots
    BY <2>2
  <2>4. Cardinality(T) < Cardinality(S)
    <3>1. T \in SUBSET S /\ T # S /\ IsFiniteSet(S)
      BY <1>1
    <3> QED
      BY <3>1, FS_Subset, FS_CardinalityType
  <2>5. Cardinality(T) \in Sizes /\ Cardinality(T) \in Nat /\ Cardinality(S) \in Nat
    BY <1>1, <2>3
  <2> QED
    BY <1>3, <1>4, <2>4, <2>5
<1>6. \A s \in S : (\E t \in S : Waits(s, t)) /\ (\E t \in S : Waits(t, s))
  BY <1>5
<1>7. S \in SUBSET Requests /\ S # {} /\ S \subseteq A
  OBVIOUS
<1> QED
  BY <1>6, <1>7 DEF Deadlocked

(* Of requests under way there is one that can go on: one that waits for   *)
(* nobody, or one that the database ends as the member of a deadlock.      *)
SomebodyMoves ==
    (\E r \in Requests : Started(r)) =>
        \E r \in Requests : Started(r) /\ (Deadlocked(r) \/ ~Waiting(r))

(* Requests never wait in a way that the database does not take for a      *)
(* deadlock: behind every request that waits there is a commit to come or  *)
(* an abort (the terminations of side A and side B, connectivity.py        *)
(* 97-112).                                                                *)
THEOREM RequestsMoveOn ==
    ASSUME IsFiniteSet(Requests)
    PROVE  Spec => []SomebodyMoves
<1>1. SomebodyMoves
  <2> DEFINE A == { r \in Requests : Started(r) }
  <2> SUFFICES ASSUME A # {}, \A r \in A : ~Deadlocked(r) /\ Waiting(r)
               PROVE  FALSE
    BY DEF SomebodyMoves
  <2>1. \A r \in A : \E s \in A : Waits(r, s)
    BY DEF Waiting, Waits, HoldsCable, HoldsPort, Started
  <2>2. IsFiniteSet(A)
    BY FS_Subset
  <2> QED
    BY <2>1, <2>2, WaitersMeet
<1> QED
  BY <1>1, PTL

(* A request waits for one other at most, and what deadlocks are cables    *)
(* that cross: each member has inserted side A, is after a port for side B *)
(* that another member has as its side A, and another is after its own.    *)
(* Requests that wait for a cable identifier are never part of one.        *)
DeadlocksAreCrossed ==
    /\ \A r, s, t \in Requests : Waits(r, s) /\ Waits(r, t) => s = t
    /\ \A r \in Requests : Deadlocked(r) =>
          \E s, t \in Requests :
              /\ \A m \in {r, s, t} : req[m].at = "side_b" /\ Deadlocked(m)
              /\ req[r].row.b = req[s].row.a /\ req[t].row.b = req[r].row.a

(* Whichever requests overlap, only side B of a cable waits in a deadlock, *)
(* for a port that is side A of another cable of it (connectivity.py       *)
(* 97-112).                                                                *)
THEOREM OnlyCrossedCablesDeadlock == Spec => []DeadlocksAreCrossed
<1>1. ASSUME Shape, NEW r \in Requests, NEW s \in Requests, NEW t \in Requests,
             Waits(r, s), Waits(r, t)
      PROVE  s = t
  <2>1. Started(r) /\ RowIsChecked(req[r].row)
    BY <1>1 DEF Waits, Started, Shape, RequestsAreChecked
  <2>2. CASE req[r].at = "cable"
    BY <1>1, <2>2 DEF Waits, HoldsCable, HasCable, Shape, HeldByOne
  <2>3. CASE req[r].at = "side_a"
    BY <1>1, <2>1, <2>3 DEF Waits, RowIsChecked, Shape, HeldByOne
  <2>4. CASE req[r].at = "side_b"
    BY <1>1, <2>1, <2>4 DEF Waits, RowIsChecked, Shape, HeldByOne
  <2> QED
    BY <1>1, <2>2, <2>3, <2>4 DEF Waits
<1>2. ASSUME NEW r \in Requests, Deadlocked(r)
      PROVE  \E s, t \in Requests :
                /\ \A m \in {r, s, t} : req[m].at = "side_b" /\ Deadlocked(m)
                /\ req[r].row.b = req[s].row.a /\ req[t].row.b = req[r].row.a
  <2>1. PICK S \in SUBSET Requests :
           /\ r \in S
           /\ \A s \in S : (\E t \in S : Waits(s, t)) /\ (\E t \in S : Waits(t, s))
    BY <1>2 DEF Deadlocked
  <2>2. \A s \in S : Deadlocked(s)
    BY <2>1 DEF Deadlocked
  <2>3. \A s \in S : req[s].at \in {"side_a", "side_b"}
    <3> TAKE s \in S
    <3>1. PICK t \in S : Waits(t, s)
      BY <2>1
    <3>2. req[s].at # "cable"
      BY <3>1 DEF Waits, HoldsCable, HoldsPort
    <3> QED
      BY <2>1, <3>2 DEF Waits
  <2>4. \A s \in S : req[s].at = "side_b"
    <3> TAKE s \in S
    <3>1. PICK t \in S : Waits(t, s)
      BY <2>1
    <3>2. req[t].at # "cable"
      BY <2>3
    <3> QED
      BY <2>3, <3>1, <3>2 DEF Waits, HoldsPort
  <2>5. \A s, t \in S : Waits(s, t) => req[s].row.b = req[t].row.a
    BY <2>4 DEF Waits, HoldsPort
  <2>6. PICK s \in S : Waits(r, s)
    BY <2>1
  <2>7. PICK t \in S : Waits(t, r)
    BY <2>1
  <2> QED
    BY <2>1, <2>2, <2>4, <2>5, <2>6, <2>7
<1>3. Shape => DeadlocksAreCrossed
  BY <1>1, <1>2 DEF DeadlocksAreCrossed
<1> QED
  BY <1>3, ShapeInvariant, PTL

----------------------------------------------------------------------------
(* Reports                                                                 *)

(* The cables of a set by their identifiers: where they stand in the order.*)
Positions(S) == { k \in DOMAIN InOrder : InOrder[k] \in S }
UpTo(S, k) == { i \in 1 .. k : InOrder[i] \in S }

LEMMA CountingUp ==
    ASSUME NEW n \in Nat
    PROVE  IsFiniteSet(1 .. n) /\ Cardinality(1 .. n) = n
<1>1. IsFiniteSet(1 .. n) /\ Cardinality(1 .. n) = IF 1 > n THEN 0 ELSE n - 1 + 1
  BY FS_Interval
<1> QED
  BY <1>1

LEMMA OrderIsOneToOne ==
    /\ DOMAIN InOrder = 1 .. Len(InOrder) /\ Len(InOrder) \in Nat
    /\ \A k \in DOMAIN InOrder : InOrder[k] \in Cables
    /\ \A i, k \in DOMAIN InOrder : InOrder[i] = InOrder[k] => i = k
    /\ IsFiniteSet(Cables)
<1>1. /\ InOrder \in [1 .. Len(InOrder) -> Cables] /\ Len(InOrder) \in Nat
      /\ DOMAIN InOrder = 1 .. Len(InOrder)
  BY CablesAreOrdered
<1>2. InOrder \in Surjection(1 .. Len(InOrder), Cables)
  BY <1>1, CablesAreOrdered, Fun_IsSurj
<1>3. IsFiniteSet(1 .. Len(InOrder)) /\ Cardinality(1 .. Len(InOrder)) = Len(InOrder)
  BY <1>1, CountingUp
<1>4. InOrder \in Injection(1 .. Len(InOrder), Cables) /\ IsFiniteSet(Cables)
  BY <1>2, <1>3, CablesAreOrdered, FS_SurjSameCardinalityImpliesInj, FS_Surjection
<1>5. \A i, k \in 1 .. Len(InOrder) : InOrder[i] = InOrder[k] => i = k
  BY <1>4 DEF Injection, IsInjective
<1> QED BY <1>1, <1>4, <1>5

LEMMA PositionsAreCounted ==
    ASSUME NEW S
    PROVE  /\ IsFiniteSet(Positions(S))
           /\ \A k \in Positions(S) :
                 Cardinality(UpTo(S, k)) \in 1 .. Cardinality(Positions(S))
           /\ \A i, k \in Positions(S) :
                 i < k => Cardinality(UpTo(S, i)) < Cardinality(UpTo(S, k))
<1>1. Positions(S) \in SUBSET (1 .. Len(InOrder)) /\ IsFiniteSet(1 .. Len(InOrder))
  BY OrderIsOneToOne, CountingUp DEF Positions
<1>2. IsFiniteSet(Positions(S)) /\ Cardinality(Positions(S)) \in Nat
  BY <1>1, FS_Subset, FS_CardinalityType
<1>3. ASSUME NEW k \in Positions(S)
      PROVE  /\ UpTo(S, k) \in SUBSET Positions(S) /\ k \in UpTo(S, k) /\ k \in Nat
             /\ IsFiniteSet(UpTo(S, k)) /\ Cardinality(UpTo(S, k)) \in Nat
             /\ Cardinality(UpTo(S, k)) <= Cardinality(Positions(S))
             /\ Cardinality(UpTo(S, k)) # 0
  <2>1. UpTo(S, k) \in SUBSET Positions(S) /\ k \in UpTo(S, k) /\ k \in Nat
    BY OrderIsOneToOne DEF Positions, UpTo
  <2> QED
    BY <1>2, <2>1, FS_Subset, FS_CardinalityType, FS_EmptySet
<1>4. ASSUME NEW i \in Positions(S), NEW k \in Positions(S), i < k
      PROVE  Cardinality(UpTo(S, i)) < Cardinality(UpTo(S, k))
  <2> i \in Nat /\ k \in Nat /\ k \in UpTo(S, k)
    BY <1>3
  <2>1. UpTo(S, i) \in SUBSET UpTo(S, k) /\ k \notin UpTo(S, i) /\ k \in UpTo(S, k)
    BY <1>4 DEF UpTo
  <2>2. /\ Cardinality(UpTo(S, i)) <= Cardinality(UpTo(S, k))
        /\ Cardinality(UpTo(S, k)) # Cardinality(UpTo(S, i))
    BY <1>3, <2>1, FS_Subset
  <2> QED
    BY <1>3, <2>2
<1> QED BY <1>2, <1>3, <1>4

(* The rows of a schedule are all that match, or as many as its limit.     *)
LEMMA FirstOfIsFullOrWhole ==
    ASSUME NEW S, S \subseteq Cables
    PROVE  /\ FirstOf(S) \subseteq S /\ IsFiniteSet(FirstOf(S))
           /\ S \subseteq FirstOf(S) \/ Cardinality(FirstOf(S)) = Limit
<1> DEFINE P == Positions(S)
           n == Cardinality(P)
           rank == [k \in P |-> Cardinality(UpTo(S, k))]
           K == { k \in P : rank[k] <= Limit }
           row == [k \in K |-> InOrder[k]]
<1>1. IsFiniteSet(P) /\ n \in Nat /\ Limit \in Nat \ {0}
  BY PositionsAreCounted, FS_CardinalityType, LimitIsPositive
<1>2. /\ FirstOf(S) = { InOrder[k] : k \in K }
      /\ \A k \in P : InOrder[k] \in S
  BY DEF FirstOf, Positions, UpTo
<1>3. \A i, k \in P : InOrder[i] = InOrder[k] => i = k
  BY OrderIsOneToOne DEF Positions
<1>4. /\ rank \in [P -> 1 .. n]
      /\ \A i, k \in P : rank[i] = rank[k] => i = k
  <2>1. P \subseteq Nat
    BY OrderIsOneToOne DEF Positions
  <2>2. \A i, k \in P : i = k \/ i < k \/ k < i
    BY <2>1
  <2>3. \A k \in P : rank[k] \in 1 .. n /\ rank[k] \in Nat
    BY PositionsAreCounted
  <2>4. \A i, k \in P : i < k => rank[i] < rank[k]
    BY PositionsAreCounted
  <2> QED
    BY <2>2, <2>3, <2>4
<1>5. \A s \in S : \E k \in P : InOrder[k] = s
  BY CablesAreOrdered DEF Positions
<1> HIDE DEF P, n, rank
<1>6. K \in SUBSET P /\ IsFiniteSet(K)
  BY <1>1, FS_Subset
<1>7. row \in Surjection(K, FirstOf(S)) /\ row \in Injection(K, FirstOf(S))
  <2>1. row \in [K -> FirstOf(S)] /\ \A s \in FirstOf(S) : \E k \in K : row[k] = s
    BY <1>2
  <2>2. \A i, k \in K : row[i] = row[k] => i = k
    BY <1>3
  <2> HIDE DEF row, K
  <2> QED
    BY <2>1, <2>2, Fun_IsSurj, Fun_IsInj
<1>8. IsFiniteSet(FirstOf(S)) /\ Cardinality(FirstOf(S)) = Cardinality(K)
  <2> HIDE DEF row, K
  <2> QED
    BY <1>6, <1>7, FS_Surjection
<1>9. FirstOf(S) \subseteq S
  BY <1>2
<1>10. CASE n <= Limit
  <2>1. \A k \in P : rank[k] <= Limit
    BY <1>1, <1>4, <1>10
  <2> QED
    BY <1>2, <1>5, <1>8, <1>9, <2>1
<1>11. CASE n > Limit
  <2> DEFINE short == [k \in K |-> rank[k]]
  <2>1. /\ IsFiniteSet(1 .. n) /\ Cardinality(1 .. n) = n
        /\ IsFiniteSet(1 .. Limit) /\ Cardinality(1 .. Limit) = Limit
    BY <1>1, CountingUp
  <2>2. rank \in Injection(P, 1 .. n)
    BY <1>4, Fun_IsInj
  <2>3. rank \in Surjection(P, 1 .. n)
    BY <2>1, <2>2, FS_Injection DEF n
  <2>4. \A m \in 1 .. n : \E k \in P : rank[k] = m
    BY <2>3 DEF Surjection
  <2>5. /\ short \in [K -> 1 .. Limit]
        /\ \A m \in 1 .. Limit : \E k \in K : short[k] = m
    <3>1. 1 .. Limit \subseteq 1 .. n
      BY <1>1, <1>11
    <3>2. \A m \in 1 .. Limit : \E k \in P : rank[k] = m /\ k \in K
      BY <1>1, <2>4, <3>1
    <3>3. \A k \in K : rank[k] \in 1 .. Limit
      BY <1>1, <1>4
    <3> QED
      BY <3>2, <3>3
  <2>6. \A i, k \in K : short[i] = short[k] => i = k
    BY <1>4
  <2> HIDE DEF short, K
  <2>7. short \in Injection(K, 1 .. Limit) /\ short \in Surjection(K, 1 .. Limit)
    BY <2>5, <2>6, Fun_IsSurj, Fun_IsInj
  <2>8. Cardinality(K) = Limit
    BY <1>6, <2>1, <2>7, FS_Injection
  <2> QED
    BY <1>8, <1>9, <2>8
<1> QED
  BY <1>1, <1>10, <1>11

LEMMA CardinalityOfMatching ==
    ASSUME NEW S, S \subseteq Cables
    PROVE  IsFiniteSet(S) /\ Cardinality(S) \in Nat
BY OrderIsOneToOne, FS_Subset, FS_CardinalityType

----------------------------------------------------------------------------
(* Stored cables stay as they are, and have two ends.                      *)
LEMMA StoredStay ==
    ASSUME Shape, [Next]_vars, NEW c \in Cables, Stored(c)
    PROVE  cables'[c] = cables[c] /\ Stored(c)'
<1>1. ASSUME NEW r \in Requests, Commit(r)
      PROVE  cables'[c] = cables[c]
  <2>1. ~Stored(req[r].cable)
    BY <1>1 DEF Shape, HeldIsNew, HasCable, Commit
  <2> QED
    BY <1>1, <2>1 DEF Commit, Shape, TypeOK
<1>2. cables'[c] = cables[c]
  BY <1>1 DEF Next, vars, Begin, BeginCable, Progress, InsertCable, ReadRoute, InsertSides,
              InsertSide, Advance, Fail, AbortDeadlock, Abort
<1> QED
  BY <1>2 DEF Stored

LEMMA TwoEnds ==
    ASSUME Shape, NEW c \in Cables, Stored(c)
    PROVE  EndsOf(c) \subseteq Ports /\ Cardinality(EndsOf(c)) = 2
<1>1. cables[c].a \in Ports /\ cables[c].b \in Ports /\ cables[c].a # cables[c].b
  BY DEF Shape, StoredIsChecked, RowIsChecked, Fits
<1>2. EndsOf(c) = {cables[c].a} \cup {cables[c].b}
  BY <1>1, NoneIsNoPort DEF EndsOf
<1>3. IsFiniteSet({cables[c].a}) /\ Cardinality({cables[c].a}) = 1
  BY FS_Singleton
<1>4. Cardinality({cables[c].a} \cup {cables[c].b}) = 2
  <2>1. Cardinality({cables[c].a} \cup {cables[c].b}) =
           IF cables[c].b \in {cables[c].a} THEN Cardinality({cables[c].a})
           ELSE Cardinality({cables[c].a}) + 1
    BY <1>3, FS_AddElement
  <2> QED
    BY <1>1, <1>3, <2>1
<1> QED
  BY <1>1, <1>2, <1>4

(* What other requests commit.                                             *)
ReportPhases == {"idle", "rows", "ends", "places", "commit", "labels", "again", "check", "done"}
Kinds == {"inconsistent_endpoints", "missing_label", "unverified_installation"}
Report == [kind : {"none", "schedule", "compliance"}, at : ReportPhases, filter : SUBSET Statuses,
           total : Nat, rows : SUBSET Cables, first : [Cables -> Statuses],
           ends : [Cables -> SUBSET Ports], places : SUBSET Locations,
           pending : SUBSET (Locations \cup Cables), routes : [Cables -> Routes \cup {<<>>}],
           truncated : BOOLEAN, labelled : SUBSET Cables,
           findings : SUBSET (Kinds \X Cables)]
ReadsOK ==
    /\ report \in Report
    /\ report.kind = "none" => report.at = "idle"
    /\ status \in [Cables -> Statuses]
    /\ labels \subseteq Committed
    /\ report.rows \subseteq Committed

(* What a compliance report found in its selects so far was true.          *)
Unlabelled(c) == <<"missing_label", c>> \in held
Unverified(c) == <<"unverified_installation", c>> \in held
ComplianceOK ==
    report.kind = "compliance" =>
        /\ report.at \in {"labels", "again", "check", "done"}
        /\ report.at \in {"labels", "again"} =>
             \A c \in report.rows : report.first[c] = "installed" => Unverified(c)
        /\ report.at = "again" =>
             \A c \in Committed : c \notin report.labelled => Unlabelled(c)
        /\ report.at = "check" =>
             /\ report.pending \subseteq Committed
             /\ \A c \in report.pending :
                   /\ c \notin report.labelled => Unlabelled(c)
                   /\ report.first[c] = "installed" => Unverified(c)
        /\ report.findings \subseteq held
        /\ \A c \in Cables : <<"inconsistent_endpoints", c>> \notin report.findings

(* What a schedule has selected so far.                                    *)
Counted ==
    /\ held \subseteq Matching(report.filter)
    /\ report.total \in Nat /\ Cardinality(held) <= report.total
RowsAreHonest ==
    /\ \/ Cardinality(report.rows) < report.total
       \/ held \subseteq report.rows
       \/ ~(report.rows \subseteq held) /\ Cardinality(report.rows) = Limit
    /\ \A c \in report.rows : report.first[c] \in report.filter
EndsAreThere == \A c \in report.rows : report.ends[c] = EndsOf(c)
Origins == { PortLocation[p] : p \in UNION { report.ends[c] : c \in report.rows } }
PlacesGoUp ==
    /\ report.places \cup report.pending \subseteq Locations
    /\ Origins \cup Parents(report.places) \subseteq report.places \cup report.pending
RoutesAreThere == \A c \in report.rows : report.routes[c] = cables[c].route

ScheduleOK ==
    report.kind = "schedule" =>
        /\ report.at \in {"rows", "ends", "places", "commit", "done"}
        /\ report.at = "rows" => Counted
        /\ report.at \in {"rows", "ends"} => report.places = {}
        /\ report.at \in {"ends", "places", "commit"} => RowsAreHonest
        /\ report.at \in {"places", "commit", "done"} => EndsAreThere /\ PlacesGoUp
        /\ report.at \in {"commit", "done"} => RoutesAreThere /\ report.pending = {}
        /\ report.at = "done" => 
             /\ \/ report.truncated
                \/ held \subseteq report.rows
                \/ ~(report.rows \subseteq held) /\ Cardinality(report.rows) = Limit
             /\ \A c \in report.rows : report.first[c] \in report.filter

ReadsInv == Shape /\ ReadsOK /\ ComplianceOK /\ ScheduleOK
----------------------------------------------------------------------------
LEMMA RememberFindings ==
    ASSUME Remember, report'.kind = "compliance", report'.at \notin {"idle", "done"}
    PROVE  /\ report.at # "idle" => held \subseteq held'
           /\ \A c \in Committed' :
                 /\ c \notin labels' => Unlabelled(c)'
                 /\ status'[c] = "installed" => Unverified(c)'
<1>1. held' = TrueFindings' \cup (IF report.at = "idle" THEN {} ELSE held)
  BY DEF Remember
<1>2. ASSUME NEW c \in Committed'
      PROVE  /\ c \notin labels' => <<"missing_label", c>> \in TrueFindings'
             /\ status'[c] = "installed" => <<"unverified_installation", c>> \in TrueFindings'
  <2>1. /\ c \notin labels' =>
             <<"missing_label", c>> \in Faults(c, EndsOf(c)', labels', status'[c])
        /\ status'[c] = "installed" =>
             <<"unverified_installation", c>> \in Faults(c, EndsOf(c)', labels', status'[c])
    BY DEF Faults
  <2> QED
    BY <1>2, <2>1 DEF TrueFindings
<1> QED
  BY <1>1, <1>2 DEF Unlabelled, Unverified

LEMMA RememberMatching ==
    ASSUME Remember, report'.kind = "schedule", report'.at \notin {"idle", "done"},
           report.at # "idle"
    PROVE  held' = held \cap Matching(report.filter)'
BY DEF Remember

(* Requests create cables, work and label: a report under way stays true.  *)
LEMMA OthersStep ==
    ASSUME ReadsInv, [Next]_vars, report' = report, status' \in [Cables -> Statuses],
           labels' \subseteq Committed, Remember
    PROVE  ReadsInv'
<1>1. Shape'
  BY ShapeStep DEF ReadsInv
<1>2. \A c \in Committed : /\ c \in Committed' /\ cables'[c] = cables[c]
                           /\ EndsOf(c)' = EndsOf(c)
  BY StoredStay DEF ReadsInv, Committed, EndsOf
<1>3. ReadsOK'
  BY <1>2 DEF ReadsInv, ReadsOK
<1>4. ComplianceOK'
  <2> SUFFICES ASSUME report.kind = "compliance"
               PROVE  ComplianceOK'
    BY DEF ComplianceOK
  <2>1. CASE report.at = "done"
    BY <2>1 DEF ReadsInv, ComplianceOK, Remember
  <2>2. CASE report.at # "done"
    <3>1. /\ held \subseteq held'
          /\ \A c \in Committed' : c \notin labels' => Unlabelled(c)'
      BY <2>2, RememberFindings DEF ReadsInv, ComplianceOK
    <3>2. \A c \in Cables : /\ Unlabelled(c) => Unlabelled(c)'
                            /\ Unverified(c) => Unverified(c)'
      BY <3>1 DEF Unlabelled, Unverified
    <3>3. report.at = "again" =>
             \A c \in Committed' : c \notin report.labelled => Unlabelled(c)'
      BY <3>1, <3>2 DEF ReadsInv, ComplianceOK, Committed
    <3>4. ComplianceOK /\ report.rows \subseteq Cables /\ Committed \subseteq Cables
      BY DEF ReadsInv, ReadsOK, Committed
    <3> QED
      BY <1>2, <2>2, <3>1, <3>2, <3>3, <3>4 DEF ComplianceOK
  <2> QED
    BY <2>1, <2>2
<1>5. ScheduleOK'
  <2> SUFFICES ASSUME report.kind = "schedule"
               PROVE  ScheduleOK'
    BY DEF ScheduleOK
  <2>1. ScheduleOK /\ report.at # "idle" /\ report.rows \subseteq Committed
    BY DEF ReadsInv, ScheduleOK, ReadsOK
  <2>2. /\ held' \subseteq held
        /\ report.at # "done" => held' \subseteq Matching(report.filter)'
    <3>1. CASE report.at = "done"
      BY <3>1 DEF Remember
    <3>2. CASE report.at # "done"
      BY <2>1, <3>2, RememberMatching
    <3> QED
      BY <3>1, <3>2
  <2>3. report.at = "rows" => Counted'
    <3> SUFFICES ASSUME Counted, report.at = "rows"
                 PROVE  Counted'
      BY <2>1 DEF ScheduleOK
    <3>1. held \subseteq Cables /\ held' \in SUBSET held
      BY <2>2 DEF Counted, Matching, Committed
    <3>2. /\ Cardinality(held') <= Cardinality(held)
          /\ Cardinality(held) \in Nat /\ Cardinality(held') \in Nat
      BY <3>1, CardinalityOfMatching, FS_Subset
    <3> QED
      BY <2>2, <3>2 DEF Counted
  <2>4. RowsAreHonest => RowsAreHonest'
    BY <2>2 DEF RowsAreHonest
  <2>5. EndsAreThere => EndsAreThere'
    BY <1>2, <2>1 DEF EndsAreThere
  <2>6. PlacesGoUp => PlacesGoUp'
    BY DEF PlacesGoUp, Origins
  <2>7. RoutesAreThere => RoutesAreThere'
    BY <1>2, <2>1 DEF RoutesAreThere
  <2> QED
    BY <2>1, <2>2, <2>3, <2>4, <2>5, <2>6, <2>7 DEF ScheduleOK
<1> QED
  BY <1>1, <1>3, <1>4, <1>5 DEF ReadsInv

----------------------------------------------------------------------------
(* The statements of a report change nothing but the report.               *)
LEMMA NothingElseChanges ==
    ASSUME UNCHANGED <<vars, status, labels>>
    PROVE  /\ Shape => Shape'
           /\ Committed' = Committed
           /\ \A c : EndsOf(c)' = EndsOf(c)
           /\ \A filter : Matching(filter)' = Matching(filter)
BY ShapeStep DEF vars, Committed, Stored, EndsOf, Matching

LEMMA BeginExportStep ==
    ASSUME ReadsInv, UNCHANGED vars, NEW filter \in SUBSET Statuses, BeginExport(filter), Remember
    PROVE  ReadsInv'
<1>1. report' = [NoReport EXCEPT !.kind = "schedule", !.at = "rows", !.filter = filter,
                                 !.total = Cardinality(Matching(filter))]
  BY DEF BeginExport
<1>2. Matching(filter) \subseteq Cables
  BY DEF Matching, Committed
<1>3. Cardinality(Matching(filter)) \in Nat
  BY <1>2, CardinalityOfMatching
<1>4. NoReport \in Report
  BY DEF NoReport, Report, ReportPhases, Statuses
<1>5. /\ report'.kind = "schedule" /\ report'.at = "rows" /\ report'.filter = filter
      /\ report'.total = Cardinality(Matching(filter)) /\ report'.rows = {}
      /\ report'.places = {}
      /\ report' \in Report
  BY <1>1, <1>3, <1>4 DEF Report, ReportPhases, NoReport
<1>6. held' = Matching(filter)
  BY <1>5 DEF Remember, BeginExport
<1>7. Counted'
  BY <1>3, <1>5, <1>6, NothingElseChanges DEF Counted, BeginExport, OthersUnchanged
<1>8. ReadsOK'
  BY <1>5, NothingElseChanges DEF ReadsInv, ReadsOK, BeginExport, OthersUnchanged
<1> QED
  BY <1>5, <1>7, <1>8, NothingElseChanges
     DEF ReadsInv, ComplianceOK, ScheduleOK, BeginExport, OthersUnchanged

LEMMA SelectRowsStep ==
    ASSUME ReadsInv, UNCHANGED vars, SelectRows, Remember
    PROVE  ReadsInv'
<1> DEFINE S == Matching(report.filter)
<1>1. /\ report.kind = "schedule" /\ report.at = "rows" /\ report \in Report
      /\ Counted /\ UNCHANGED <<vars, status, labels>>
      /\ status \in [Cables -> Statuses]
  BY DEF SelectRows, Reading, ReadsInv, ReadsOK, ScheduleOK, OthersUnchanged
<1>2. S \subseteq Committed /\ Committed \subseteq Cables
  BY DEF Matching, Committed
<1>3. /\ FirstOf(S) \subseteq S /\ IsFiniteSet(FirstOf(S))
      /\ S \subseteq FirstOf(S) \/ Cardinality(FirstOf(S)) = Limit
  BY <1>2, FirstOfIsFullOrWhole
<1>4. /\ report'.kind = "schedule" /\ report'.at = "ends" /\ report'.filter = report.filter
      /\ report'.rows = FirstOf(S) /\ report'.first = status /\ report'.total = report.total
      /\ report'.places = report.places
  BY <1>1 DEF SelectRows, Report
<1>5. report' \in Report
  BY <1>1, <1>2, <1>3 DEF SelectRows, Report, ReportPhases
<1>6. held' = held /\ held \subseteq S
  <2>1. held' = held \cap Matching(report.filter)'
    BY <1>1, <1>4, RememberMatching
  <2> QED
    BY <1>1, <1>4, <2>1, NothingElseChanges DEF Counted
<1>7. RowsAreHonest'
  <2>1. \A c \in FirstOf(S) : status[c] \in report.filter
    BY <1>3 DEF Matching
  <2>2. CASE S \subseteq FirstOf(S)
    BY <1>4, <1>6, <2>1, <2>2 DEF RowsAreHonest
  <2>3. CASE Cardinality(FirstOf(S)) = Limit /\ FirstOf(S) \subseteq held /\ ~(held \subseteq FirstOf(S))
    <3>1. IsFiniteSet(held) /\ Cardinality(held) \in Nat
      BY <1>2, <1>6, CardinalityOfMatching
    <3>2. /\ Cardinality(FirstOf(S)) <= Cardinality(held)
          /\ Cardinality(FirstOf(S)) # Cardinality(held)
      BY <2>3, <3>1, FS_Subset
    <3>3. Cardinality(FirstOf(S)) < report.total
      BY <1>1, <2>3, <3>1, <3>2, LimitIsPositive DEF Counted
    <3> QED
      BY <1>4, <2>1, <3>3 DEF RowsAreHonest
  <2> QED
    BY <1>3, <1>4, <1>6, <2>1, <2>2, <2>3 DEF RowsAreHonest
<1>8. ReadsOK'
  BY <1>1, <1>2, <1>3, <1>4, <1>5, NothingElseChanges DEF ReadsInv, ReadsOK
<1> QED
  BY <1>1, <1>4, <1>7, <1>8, NothingElseChanges DEF ReadsInv, ComplianceOK, ScheduleOK

LEMMA SelectEndsStep ==
    ASSUME ReadsInv, UNCHANGED vars, SelectEnds, Remember
    PROVE  ReadsInv'
<1> DEFINE ends == [c \in Cables |-> IF c \in report.rows THEN EndsOf(c) ELSE {}]
           origins == { PortLocation[p] : p \in UNION { ends[c] : c \in Cables } }
<1>1. /\ report.kind = "schedule" /\ report.at = "ends" /\ report \in Report
      /\ RowsAreHonest /\ UNCHANGED <<vars, status, labels>>
      /\ report.rows \subseteq Committed
  BY DEF SelectEnds, Reading, ReadsInv, ReadsOK, ScheduleOK, OthersUnchanged
<1>2. \A c \in report.rows : EndsOf(c) \subseteq Ports
  BY <1>1, TwoEnds DEF ReadsInv, Committed
<1>3. ends \in [Cables -> SUBSET Ports]
  BY <1>2
<1>4. origins \subseteq Locations
  BY <1>3, LocationsHaveParents
<1> HIDE DEF ends, origins
<1>5. report' = [report EXCEPT !.ends = ends, !.at = "places", !.pending = origins]
  BY DEF SelectEnds, ends, origins
<1>6. /\ report'.kind = "schedule" /\ report'.at = "places" /\ report'.filter = report.filter
      /\ report'.rows = report.rows /\ report'.first = report.first
      /\ report'.total = report.total /\ report'.ends = ends /\ report'.pending = origins
      /\ report'.places = report.places
      /\ report' \in Report
  BY <1>1, <1>3, <1>4, <1>5 DEF Report, ReportPhases
<1>7. held' \subseteq held
  BY <1>1, <1>6, RememberMatching
<1>8. RowsAreHonest'
  BY <1>1, <1>6, <1>7 DEF RowsAreHonest
<1>9. EndsAreThere'
  <2>1. \A c \in report.rows : ends[c] = EndsOf(c)
    BY <1>1 DEF ends, Committed
  <2> QED
    BY <1>1, <1>6, <2>1, NothingElseChanges DEF EndsAreThere
<1>10. PlacesGoUp'
  <2>1. Origins' \subseteq origins
    BY <1>1, <1>6 DEF Origins, origins, Committed
  <2>2. report.places = {}
    BY <1>1 DEF ReadsInv, ScheduleOK
  <2> QED
    BY <1>4, <1>6, <2>1, <2>2 DEF PlacesGoUp, Parents
<1>11. ReadsOK'
  BY <1>1, <1>6, NothingElseChanges DEF ReadsInv, ReadsOK
<1> QED
  BY <1>1, <1>6, <1>8, <1>9, <1>10, <1>11, NothingElseChanges
     DEF ReadsInv, ComplianceOK, ScheduleOK

LEMMA SelectPlacesStep ==
    ASSUME ReadsInv, UNCHANGED vars, SelectPlaces, Remember
    PROVE  ReadsInv'
<1>1. /\ report.kind = "schedule" /\ report.at = "places" /\ report \in Report
      /\ RowsAreHonest /\ EndsAreThere /\ PlacesGoUp /\ UNCHANGED <<vars, status, labels>>
  BY DEF SelectPlaces, Reading, ReadsInv, ReadsOK, ScheduleOK, OthersUnchanged
<1>2. PICK again \in SUBSET (Parents(report.pending) \cap report.pending) :
         report' = [report EXCEPT
                      !.places = @ \cup report.pending,
                      !.pending = (Parents(@) \ (@ \cup report.places)) \cup again]
  BY DEF SelectPlaces
<1>3. Parents(report.pending) \subseteq Locations
  BY <1>1, LocationsHaveParents DEF PlacesGoUp, Parents
<1>4. /\ report'.kind = "schedule" /\ report'.at = "places" /\ report'.filter = report.filter
      /\ report'.rows = report.rows /\ report'.first = report.first
      /\ report'.total = report.total /\ report'.ends = report.ends
      /\ report'.places = report.places \cup report.pending
      /\ report'.pending =
           (Parents(report.pending) \ (report.pending \cup report.places)) \cup again
  BY <1>1, <1>2 DEF Report
<1>5. report' \in Report
  <2>1. /\ report.places \cup report.pending \in SUBSET Locations
        /\ (Parents(report.pending) \ (report.pending \cup report.places)) \cup again
              \in SUBSET (Locations \cup Cables)
    BY <1>1, <1>3 DEF PlacesGoUp
  <2> QED
    BY <1>1, <1>2, <2>1 DEF Report
<1>6. held' \subseteq held
  BY <1>1, <1>4, RememberMatching
<1>7. RowsAreHonest'
  BY <1>1, <1>4, <1>6 DEF RowsAreHonest
<1>8. EndsAreThere'
  BY <1>1, <1>4, NothingElseChanges DEF EndsAreThere
<1>9. PlacesGoUp'
  <2>1. Origins' = Origins
    BY <1>4 DEF Origins
  <2>2. Parents(report.places \cup report.pending)
          = Parents(report.places) \cup Parents(report.pending)
    BY DEF Parents
  <2> QED
    BY <1>1, <1>3, <1>4, <2>1, <2>2 DEF PlacesGoUp
<1>10. ReadsOK'
  BY <1>1, <1>4, <1>5, NothingElseChanges DEF ReadsInv, ReadsOK
<1> QED
  BY <1>1, <1>4, <1>7, <1>8, <1>9, <1>10, NothingElseChanges
     DEF ReadsInv, ComplianceOK, ScheduleOK

LEMMA SelectRoutesStep ==
    ASSUME ReadsInv, UNCHANGED vars, SelectRoutes, Remember
    PROVE  ReadsInv'
<1> DEFINE routes == [c \in Cables |-> IF c \in report.rows THEN cables[c].route ELSE <<>>]
<1>1. /\ report.kind = "schedule" /\ report.at = "places" /\ report \in Report
      /\ report.pending = {} /\ report.rows \subseteq Committed
      /\ RowsAreHonest /\ EndsAreThere /\ PlacesGoUp /\ UNCHANGED <<vars, status, labels>>
  BY DEF SelectRoutes, Reading, ReadsInv, ReadsOK, ScheduleOK, OthersUnchanged
<1>2. routes \in [Cables -> Routes \cup {<<>>}]
  BY DEF ReadsInv, Shape, TypeOK, CableRow
<1>3. \A c \in report.rows : routes[c] = cables[c].route
  BY <1>1 DEF Committed
<1> HIDE DEF routes
<1>4. report' = [report EXCEPT !.at = "commit", !.routes = routes]
  BY DEF SelectRoutes, routes
<1>5. /\ report'.kind = "schedule" /\ report'.at = "commit" /\ report'.filter = report.filter
      /\ report'.rows = report.rows /\ report'.first = report.first
      /\ report'.total = report.total /\ report'.ends = report.ends
      /\ report'.places = report.places /\ report'.pending = {} /\ report'.routes = routes
      /\ report' \in Report
  BY <1>1, <1>2, <1>4 DEF Report, ReportPhases
<1>6. held' \subseteq held
  BY <1>1, <1>5, RememberMatching
<1>7. RowsAreHonest'
  BY <1>1, <1>5, <1>6 DEF RowsAreHonest
<1>8. EndsAreThere' /\ RoutesAreThere'
  BY <1>1, <1>3, <1>5, NothingElseChanges DEF EndsAreThere, RoutesAreThere, vars
<1>9. PlacesGoUp'
  BY <1>1, <1>5 DEF PlacesGoUp, Origins
<1>10. ReadsOK'
  BY <1>1, <1>5, NothingElseChanges DEF ReadsInv, ReadsOK
<1> QED
  BY <1>1, <1>5, <1>7, <1>8, <1>9, <1>10, NothingElseChanges
     DEF ReadsInv, ComplianceOK, ScheduleOK

LEMMA CommitExportStep ==
    ASSUME ReadsInv, UNCHANGED vars, CommitExport, Remember
    PROVE  ReadsInv'
<1>1. /\ report.kind = "schedule" /\ report.at = "commit" /\ report \in Report
      /\ report.pending = {} /\ RowsAreHonest /\ EndsAreThere /\ PlacesGoUp /\ RoutesAreThere
      /\ UNCHANGED <<vars, status, labels>>
  BY DEF CommitExport, Reading, ReadsInv, ReadsOK, ScheduleOK, OthersUnchanged
<1>2. report' = [report EXCEPT !.at = "done",
                               !.truncated = Cardinality(report.rows) < report.total]
  BY DEF CommitExport
<1>3. /\ report'.kind = "schedule" /\ report'.at = "done" /\ report'.filter = report.filter
      /\ report'.rows = report.rows /\ report'.first = report.first
      /\ report'.total = report.total /\ report'.ends = report.ends
      /\ report'.places = report.places /\ report'.pending = {}
      /\ report'.routes = report.routes
      /\ report'.truncated = (Cardinality(report.rows) < report.total)
  BY <1>1, <1>2 DEF Report
<1>4. report' \in Report
  <2>1. (Cardinality(report.rows) < report.total) \in BOOLEAN
    OBVIOUS
  <2> QED
    BY <1>1, <1>2, <2>1 DEF Report, ReportPhases
<1>5. held' = held
  BY <1>3 DEF Remember
<1>6. /\ EndsAreThere' /\ RoutesAreThere' /\ PlacesGoUp'
  BY <1>1, <1>3, NothingElseChanges DEF EndsAreThere, RoutesAreThere, vars, PlacesGoUp, Origins
<1>7. /\ \/ report'.truncated
         \/ held' \subseteq report'.rows
         \/ ~(report'.rows \subseteq held') /\ Cardinality(report'.rows) = Limit
      /\ \A c \in report'.rows : report'.first[c] \in report'.filter
  BY <1>1, <1>3, <1>5 DEF RowsAreHonest
<1>8. ReadsOK'
  BY <1>1, <1>3, <1>4, NothingElseChanges DEF ReadsInv, ReadsOK
<1> QED
  BY <1>1, <1>3, <1>6, <1>7, <1>8, NothingElseChanges
     DEF ReadsInv, ComplianceOK, ScheduleOK

----------------------------------------------------------------------------
LEMMA BeginReportStep ==
    ASSUME ReadsInv, UNCHANGED vars, BeginReport, Remember
    PROVE  ReadsInv'
<1>1. /\ UNCHANGED <<vars, status, labels>> /\ status \in [Cables -> Statuses]
      /\ Committed \subseteq Cables
  BY DEF BeginReport, OthersUnchanged, ReadsInv, ReadsOK, Committed
<1>2. NoReport \in Report
  BY DEF NoReport, Report, ReportPhases, Statuses
<1>3. /\ report'.kind = "compliance" /\ report'.at = "labels" /\ report'.rows = Committed
      /\ report'.first = status /\ report'.findings = {} /\ report' \in Report
  BY <1>1, <1>2 DEF BeginReport, NoReport, Report, ReportPhases
<1>4. \A c \in Committed : status[c] = "installed" => Unverified(c)'
  BY <1>1, <1>3, RememberFindings, NothingElseChanges
<1>5. ReadsOK'
  BY <1>1, <1>3, NothingElseChanges DEF ReadsInv, ReadsOK
<1>6. ComplianceOK'
  BY <1>3, <1>4 DEF ComplianceOK
<1> QED
  BY <1>1, <1>3, <1>5, <1>6, NothingElseChanges DEF ReadsInv, ScheduleOK

LEMMA SelectLabelsStep ==
    ASSUME ReadsInv, UNCHANGED vars, SelectLabels, Remember
    PROVE  ReadsInv'
<1>1. /\ UNCHANGED <<vars, status, labels>> /\ labels \subseteq Committed
      /\ Committed \subseteq Cables /\ report \in Report /\ report.rows \subseteq Committed
      /\ report.kind = "compliance" /\ report.at = "labels" /\ ComplianceOK
  BY DEF SelectLabels, Reading, OthersUnchanged, ReadsInv, ReadsOK, Committed
<1>2. /\ report'.kind = "compliance" /\ report'.at = "again" /\ report'.rows = report.rows
      /\ report'.first = report.first /\ report'.findings = report.findings
      /\ report'.labelled = labels
      /\ report' \in Report
  BY <1>1 DEF SelectLabels, Report, ReportPhases
<1>3. /\ held \subseteq held'
      /\ \A c \in Committed : c \notin labels => Unlabelled(c)'
  BY <1>1, <1>2, RememberFindings, NothingElseChanges
<1>4. ReadsOK'
  BY <1>1, <1>2, NothingElseChanges DEF ReadsInv, ReadsOK
<1>5. ComplianceOK'
  <2>1. \A c \in report.rows : report.first[c] = "installed" => Unverified(c)'
    BY <1>1, <1>3 DEF ComplianceOK, Unverified
  <2> QED
    BY <1>1, <1>2, <1>3, <2>1, NothingElseChanges DEF ComplianceOK
<1> QED
  BY <1>1, <1>2, <1>4, <1>5, NothingElseChanges DEF ReadsInv, ScheduleOK

LEMMA SelectCablesStep ==
    ASSUME ReadsInv, UNCHANGED vars, SelectCables, Remember
    PROVE  ReadsInv'
<1> DEFINE first == [c \in Cables |-> IF c \in report.rows THEN report.first[c] ELSE status[c]]
<1>1. /\ UNCHANGED <<vars, status, labels>> /\ status \in [Cables -> Statuses]
      /\ Committed \subseteq Cables /\ report \in Report /\ report.rows \subseteq Committed
      /\ report.kind = "compliance" /\ report.at = "again" /\ ComplianceOK
  BY DEF SelectCables, Reading, OthersUnchanged, ReadsInv, ReadsOK, Committed
<1>2. first \in [Cables -> Statuses]
  BY <1>1 DEF Report
<1>3. /\ report'.kind = "compliance" /\ report'.at = "check" /\ report'.rows = report.rows
      /\ report'.first = first /\ report'.findings = report.findings
      /\ report'.labelled = report.labelled /\ report'.pending = Committed
  BY <1>1 DEF SelectCables, Report
<1>4. report' \in Report
  <2>1. report' = [report EXCEPT !.pending = Committed, !.at = "check", !.first = first]
    BY DEF SelectCables
  <2> HIDE DEF first
  <2> QED
    BY <1>1, <1>2, <2>1 DEF Report, ReportPhases
<1>5. /\ held \subseteq held'
      /\ \A c \in Committed : status[c] = "installed" => Unverified(c)'
  BY <1>1, <1>3, RememberFindings, NothingElseChanges
<1>6. ReadsOK'
  BY <1>1, <1>3, <1>4, NothingElseChanges DEF ReadsInv, ReadsOK
<1>7. ComplianceOK'
  <2>1. \A c \in Committed : /\ c \notin report.labelled => Unlabelled(c)'
                             /\ first[c] = "installed" => Unverified(c)'
    BY <1>1, <1>5 DEF ComplianceOK, Unlabelled, Unverified
  <2> HIDE DEF first
  <2> QED
    BY <1>1, <1>3, <1>5, <2>1, NothingElseChanges DEF ComplianceOK
<1> QED
  BY <1>1, <1>3, <1>6, <1>7, NothingElseChanges DEF ReadsInv, ScheduleOK

LEMMA CheckCableStep ==
    ASSUME ReadsInv, UNCHANGED vars, NEW c \in Cables, CheckCable(c), Remember
    PROVE  ReadsInv'
<1> DEFINE new == Faults(c, EndsOf(c), report.labelled, report.first[c])
<1>1. /\ UNCHANGED <<vars, status, labels>>
      /\ report \in Report /\ report.rows \subseteq Committed
      /\ report.kind = "compliance" /\ report.at = "check" /\ ComplianceOK
      /\ c \in report.pending /\ c \in Committed /\ Stored(c)
  BY DEF CheckCable, Reading, OthersUnchanged, ReadsInv, ReadsOK, Committed, ComplianceOK
<1>2. Cardinality(EndsOf(c)) = 2
  BY <1>1, TwoEnds DEF ReadsInv
<1>3. new \subseteq held /\ \A d \in Cables : <<"inconsistent_endpoints", d>> \notin new
  BY <1>1, <1>2 DEF Faults, ComplianceOK, Unlabelled, Unverified
<1>4. new \subseteq Kinds \X Cables
  BY DEF Faults, Kinds
<1> HIDE DEF new
<1>5. report' = [report EXCEPT !.pending = @ \ {c}, !.findings = @ \cup new]
  BY DEF CheckCable, new
<1>6. /\ report'.kind = "compliance" /\ report'.at = "check" /\ report'.rows = report.rows
      /\ report'.first = report.first /\ report'.findings = report.findings \cup new
      /\ report'.labelled = report.labelled /\ report'.pending = report.pending \ {c}
      /\ report' \in Report
  BY <1>1, <1>4, <1>5 DEF Report, ReportPhases
<1>7. held \subseteq held'
  BY <1>1, <1>6, RememberFindings
<1>8. ReadsOK'
  BY <1>1, <1>6, NothingElseChanges DEF ReadsInv, ReadsOK
<1>9. ComplianceOK'
  BY <1>1, <1>3, <1>6, <1>7, NothingElseChanges DEF ComplianceOK, Unlabelled, Unverified
<1> QED
  BY <1>1, <1>6, <1>8, <1>9, NothingElseChanges DEF ReadsInv, ScheduleOK

LEMMA AnswerReportStep ==
    ASSUME ReadsInv, UNCHANGED vars, AnswerReport, Remember
    PROVE  ReadsInv'
<1>1. /\ UNCHANGED <<vars, status, labels>>
      /\ report \in Report /\ report.rows \subseteq Committed
      /\ report.kind = "compliance" /\ ComplianceOK
  BY DEF AnswerReport, Reading, OthersUnchanged, ReadsInv, ReadsOK
<1>2. /\ report'.kind = "compliance" /\ report'.at = "done" /\ report'.rows = report.rows
      /\ report'.findings = report.findings
      /\ report' \in Report
  BY <1>1 DEF AnswerReport, Report, ReportPhases
<1>3. held' = held
  BY <1>2 DEF Remember
<1>4. ReadsOK'
  BY <1>1, <1>2, NothingElseChanges DEF ReadsInv, ReadsOK
<1>5. ComplianceOK'
  BY <1>1, <1>2, <1>3 DEF ComplianceOK
<1> QED
  BY <1>1, <1>2, <1>4, <1>5, NothingElseChanges DEF ReadsInv, ScheduleOK

LEMMA ForgetStep ==
    ASSUME ReadsInv, UNCHANGED vars, Forget
    PROVE  ReadsInv'
<1>1. UNCHANGED <<vars, status, labels>> /\ report' = NoReport
  BY DEF Forget, OthersUnchanged
<1>2. NoReport \in Report /\ NoReport.kind = "none" /\ NoReport.at = "idle" /\ NoReport.rows = {}
  BY DEF NoReport, Report, ReportPhases, Statuses
<1> QED
  BY <1>1, <1>2, NothingElseChanges DEF ReadsInv, ReadsOK, ComplianceOK, ScheduleOK

----------------------------------------------------------------------------
LEMMA ReadsInvInit == Init /\ ReportsInit => ReadsInv
<1> SUFFICES ASSUME Init, ReportsInit PROVE ReadsInv
  OBVIOUS
<1>1. NoReport \in Report /\ NoReport.kind = "none" /\ NoReport.at = "idle" /\ NoReport.rows = {}
  BY DEF NoReport, Report, ReportPhases, Statuses
<1> QED
  BY <1>1, ShapeInit DEF ReportsInit, ReadsInv, ReadsOK, ComplianceOK, ScheduleOK, Statuses

LEMMA ReadsInvStep == ReadsInv /\ [ReportsNext]_<<vars, reportVars>> => ReadsInv'
<1> SUFFICES ASSUME ReadsInv, [ReportsNext]_<<vars, reportVars>> PROVE ReadsInv'
  OBVIOUS
<1>1. CASE UNCHANGED <<vars, reportVars>>
  <2>1. UNCHANGED <<vars, status, labels, report, held>>
    BY <1>1 DEF reportVars
  <2>2. Origins' = Origins
    BY <2>1 DEF Origins
  <2> QED
    BY <2>1, <2>2, NothingElseChanges
       DEF ReadsInv, ReadsOK, ComplianceOK, ScheduleOK, Unlabelled, Unverified, Counted,
           RowsAreHonest, EndsAreThere, PlacesGoUp, RoutesAreThere, vars
<1>2. ASSUME Next, UNCHANGED <<status, labels, report>>, Remember
      PROVE  ReadsInv'
  BY <1>2, OthersStep DEF ReadsInv, ReadsOK
<1>3. ASSUME UNCHANGED vars, NEW c \in Cables, Work(c) \/ CreateLabel(c), Remember
      PROVE  ReadsInv'
  <2>1. /\ report' = report /\ labels' \subseteq Committed
        /\ status' \in [Cables -> Statuses]
    BY <1>3 DEF Work, CreateLabel, ReadsInv, ReadsOK, Committed
  <2> QED
    BY <1>3, <2>1, OthersStep
<1>4. ASSUME UNCHANGED vars, NEW s \in Statuses, BeginExport({s}) \/ BeginExport(Statuses), Remember
      PROVE  ReadsInv'
  BY <1>4, BeginExportStep
<1>5. ASSUME UNCHANGED vars, ReportStep, Remember
      PROVE  ReadsInv'
  BY <1>5, SelectRowsStep, SelectEndsStep, SelectPlacesStep, SelectRoutesStep, CommitExportStep,
     SelectLabelsStep, SelectCablesStep, CheckCableStep, AnswerReportStep DEF ReportStep
<1> QED
  BY <1>1, <1>2, <1>3, <1>4, <1>5, BeginReportStep, ForgetStep DEF ReportsNext

LEMMA ReadsInvariant == ReportsSpec => []ReadsInv
<1>1. Init /\ ReportsInit => ReadsInv
  BY ReadsInvInit
<1>2. ReadsInv /\ [ReportsNext]_<<vars, reportVars>> => ReadsInv'
  BY ReadsInvStep
<1> QED
  BY <1>1, <1>2, PTL DEF ReportsSpec

(* What ComplianceService.report finds was so at a moment while it ran,    *)
(* although it selects labels, cables and ends one after the other.        *)
THEOREM FindingsAreTrue == ReportsSpec => []FindingsWereTrue
<1>1. ReadsInv => FindingsWereTrue
  BY DEF ReadsInv, ComplianceOK, FindingsWereTrue, Answered, Reading
<1> QED
  BY <1>1, ReadsInvariant, PTL

(* export_cable_schedule answers with whole rows, and with all cables that *)
(* stayed in its filter, or is marked as truncated, or is full.            *)
THEOREM SchedulesStayHonest == ReportsSpec => []SchedulesAreHonest
<1>1. ReadsInv => SchedulesAreHonest
  <2> SUFFICES ASSUME ReadsInv, report.kind = "schedule", report.at = "done"
               PROVE  SchedulesAreHonest
    BY DEF SchedulesAreHonest, Answered, Reading
  <2>1. ScheduleOK /\ EndsAreThere /\ PlacesGoUp /\ RoutesAreThere /\ report.pending = {}
        /\ report.rows \subseteq Committed
    BY DEF ReadsInv, ScheduleOK, ReadsOK
  <2>2. ASSUME NEW c \in report.rows
        PROVE  /\ report.ends[c] = EndsOf(c) /\ Cardinality(report.ends[c]) = 2
               /\ Above({ PortLocation[p] : p \in report.ends[c] }) \subseteq report.places
               /\ report.routes[c] = cables[c].route
    <3>1. report.ends[c] = EndsOf(c) /\ report.routes[c] = cables[c].route
      BY <2>1 DEF EndsAreThere, RoutesAreThere
    <3>2. Cardinality(EndsOf(c)) = 2
      BY <2>1, TwoEnds DEF ReadsInv, Committed
    <3>3. /\ { PortLocation[p] : p \in report.ends[c] } \cup Parents(report.places)
               \subseteq report.places
          /\ report.places \subseteq Locations
      BY <2>1 DEF PlacesGoUp, Origins
    <3> QED
      BY <3>1, <3>2, <3>3 DEF Above
  <2> QED
    BY <2>1, <2>2 DEF SchedulesAreHonest, ScheduleOK
<1> QED
  BY <1>1, ReadsInvariant, PTL

----------------------------------------------------------------------------
(* Walks over a graph                                                      *)

(* Edges between two ports each, three of which never meet.                *)
Degree2(E) ==
    \A p \in Ports : \A d, e, f \in E :
        p \in d.ends /\ p \in e.ends /\ p \in f.ends => d = e \/ d = f \/ e = f
PlainGraph(E) ==
    /\ IsFiniteSet(E)
    /\ \A e \in E : \E p, q \in Ports : p # q /\ e.ends = {p, q}
    /\ Degree2(E)

Closed(S, E) == \A e \in E : e.ends \cap S # {} => e.ends \subseteq S

LEMMA GreatestNumber ==
    ASSUME NEW T \in SUBSET Nat, T # {}, NEW b \in Nat, \A n \in T : n <= b
    PROVE  \E n \in T : \A m \in T : m <= n
<1> DEFINE U == { b - n : n \in T }
<1>1. U \in SUBSET Nat /\ U # {}
  <2>1. \A n \in T : n \in Nat /\ b - n \in Nat
    OBVIOUS
  <2>2. PICK n \in T : TRUE
    OBVIOUS
  <2>3. b - n \in U
    OBVIOUS
  <2> QED
    BY <2>1, <2>3
<1>2. PICK k \in U : \A m \in U : ~(m < k)
  BY <1>1, LeastNumber
<1>3. PICK n \in T : k = b - n
  BY <1>2
<1>4. ASSUME NEW m \in T
      PROVE  m <= n
  <2>1. b - m \in U
    OBVIOUS
  <2>2. ~(b - m < b - n)
    BY <1>2, <1>3, <2>1
  <2> QED
    BY <2>2
<1> QED
  BY <1>4

(* The walks from a port.                                                  *)
Walks(p, E) == { w \in Paths(E) : w.nodes[1] = p }

LEMMA PathHas ==
    ASSUME NEW E, NEW w \in Paths(E)
    PROVE  /\ w = [nodes |-> w.nodes, hops |-> w.hops] /\ IsWalk(w)
           /\ w.hops \in Seq(E) /\ w.nodes \in Seq(Ports)
           /\ Len(w.hops) \in Nat /\ Len(w.nodes) = Len(w.hops) + 1
           /\ DOMAIN w.hops = 1 .. Len(w.hops) /\ DOMAIN w.nodes = 1 .. Len(w.hops) + 1
<1>1. /\ w \in [nodes : Seq(Ports), hops : Seq(E)] /\ IsWalk(w)
      /\ Len(w.nodes) = Len(w.hops) + 1
  BY DEF Paths
<1> QED
  BY <1>1

LEMMA MakePath ==
    ASSUME NEW E, NEW s \in Seq(Ports), NEW h \in Seq(E),
           Len(s) = Len(h) + 1, IsWalk([nodes |-> s, hops |-> h])
    PROVE  [nodes |-> s, hops |-> h] \in Paths(E)
BY DEF Paths

LEMMA WalkHas ==
    ASSUME NEW E, NEW p \in Ports, NEW w \in Walks(p, E)
    PROVE  /\ w = [nodes |-> w.nodes, hops |-> w.hops] /\ IsWalk(w)
           /\ w.hops \in Seq(E) /\ w.nodes \in Seq(Ports)
           /\ Len(w.hops) \in Nat /\ Len(w.nodes) = Len(w.hops) + 1
           /\ DOMAIN w.hops = 1 .. Len(w.hops) /\ DOMAIN w.nodes = 1 .. Len(w.hops) + 1
           /\ w.nodes[1] = p
<1>1. w \in Paths(E) /\ w.nodes[1] = p
  BY DEF Walks
<1> QED
  BY <1>1, PathHas

LEMMA MakeWalk ==
    ASSUME NEW E, NEW s \in Seq(Ports), NEW h \in Seq(E),
           Len(s) = Len(h) + 1, IsWalk([nodes |-> s, hops |-> h])
    PROVE  [nodes |-> s, hops |-> h] \in Walks(s[1], E)
BY MakePath DEF Walks

LEMMA NodesCounted ==
    ASSUME NEW w, w.nodes \in Seq(Ports), IsWalk(w)
    PROVE  /\ Nodes(w) \subseteq Ports /\ IsFiniteSet(Nodes(w))
           /\ Cardinality(Nodes(w)) = Len(w.nodes)
<1> DEFINE n == Len(w.nodes)
<1>1. n \in Nat /\ DOMAIN w.nodes = 1 .. n /\ w.nodes \in [1 .. n -> Ports]
  OBVIOUS
<1>2. Nodes(w) \subseteq Ports
  BY <1>1 DEF Nodes
<1>3. w.nodes \in [1 .. n -> Nodes(w)]
  BY <1>1 DEF Nodes
<1>4. w.nodes \in Surjection(1 .. n, Nodes(w))
  BY <1>1, <1>3 DEF Surjection, Nodes
<1>5. w.nodes \in Injection(1 .. n, Nodes(w))
  BY <1>1, <1>3 DEF Injection, IsInjective, IsWalk
<1>6. IsFiniteSet(1 .. n) /\ Cardinality(1 .. n) = n
  BY <1>1, CountingUp
<1> QED
  BY <1>2, <1>4, <1>5, <1>6, FS_Surjection

LEMMA NodesAtMost ==
    ASSUME NEW V \in SUBSET Ports, NEW w, w.nodes \in Seq(Ports), IsWalk(w), Nodes(w) \subseteq V
    PROVE  /\ Len(w.nodes) <= Cardinality(V) /\ Cardinality(V) \in Nat
           /\ Len(w.nodes) >= Cardinality(V) => Nodes(w) = V
<1>1. IsFiniteSet(V) /\ Cardinality(V) \in Nat
  BY GraphIsFinite, FS_Subset, FS_CardinalityType
<1>2. Cardinality(Nodes(w)) = Len(w.nodes) /\ Len(w.nodes) \in Nat
  BY NodesCounted
<1>3. /\ Cardinality(Nodes(w)) <= Cardinality(V)
      /\ Cardinality(V) = Cardinality(Nodes(w)) => V = Nodes(w)
  BY <1>1, FS_Subset
<1> QED
  BY <1>1, <1>2, <1>3

LEMMA LongestFrom ==
    ASSUME NEW E, PlainGraph(E), NEW p \in Ports
    PROVE  \E u \in Walks(p, E) : \A v \in Walks(p, E) : Len(v.nodes) <= Len(u.nodes)
<1> DEFINE T == { Len(w.nodes) : w \in Walks(p, E) }
<1>1. [nodes |-> <<p>>, hops |-> <<>>] \in Walks(p, E)
  <2>1. /\ <<p>> \in Seq(Ports) /\ <<>> \in Seq(E) /\ Len(<<p>>) = Len(<<>>) + 1
        /\ DOMAIN <<p>> = {1} /\ DOMAIN <<>> = {} /\ <<p>>[1] = p
    OBVIOUS
  <2>2. IsWalk([nodes |-> <<p>>, hops |-> <<>>])
    BY <2>1 DEF IsWalk
  <2> QED
    BY <2>1, <2>2, MakeWalk
<1>2. \A w \in Walks(p, E) : Len(w.nodes) \in Nat /\ Len(w.nodes) <= Cardinality(Ports)
  <2> TAKE w \in Walks(p, E)
  <2>1. w.nodes \in Seq(Ports) /\ IsWalk(w)
    BY WalkHas
  <2> QED
    BY <2>1, NodesAtMost, NodesCounted
<1>3. T \in SUBSET Nat /\ T # {} /\ Cardinality(Ports) \in Nat
  BY <1>1, <1>2, GraphIsFinite, FS_CardinalityType
<1>4. \A n \in T : n <= Cardinality(Ports)
  BY <1>2
<1> HIDE DEF T
<1>5. PICK n \in T : \A m \in T : m <= n
  BY <1>3, <1>4, GreatestNumber
<1> QED
  BY <1>5 DEF T

LEMMA OneMoreIsAPath ==
    ASSUME NEW E, PlainGraph(E), NEW w \in Paths(E), NEW e \in NextHops(w, E)
    PROVE  LET n == Len(w.hops)
               v == OneHopMore(w, e)
           IN /\ v \in Paths(E) /\ Len(v.hops) = n + 1
              /\ \A k \in 1 .. n + 1 : v.nodes[k] = w.nodes[k]
              /\ \A k \in 1 .. n : v.hops[k] = w.hops[k]
              /\ v.hops[n + 1] = e
<1> DEFINE n == Len(w.hops)
           y == CHOOSE q \in e.ends : q # w.nodes[Len(w.nodes)]
           s == Append(w.nodes, y)
           h == Append(w.hops, e)
<1>1. /\ IsWalk(w) /\ w.hops \in Seq(E) /\ w.nodes \in Seq(Ports) /\ n \in Nat
      /\ Len(w.nodes) = n + 1 /\ DOMAIN w.hops = 1 .. n /\ DOMAIN w.nodes = 1 .. n + 1
  BY PathHas
<1>2. e \in E /\ y \in Ports /\ e.ends = {w.nodes[n + 1], y} /\ y \notin Nodes(w)
  <2>1. e \in E /\ w.nodes[n + 1] \in e.ends /\ ~(e.ends \subseteq Nodes(w))
    BY <1>1 DEF NextHops
  <2>2. PICK z \in Ports : e.ends = {w.nodes[n + 1], z} /\ z # w.nodes[n + 1]
    BY <2>1 DEF PlainGraph
  <2>3. w.nodes[n + 1] \in Nodes(w)
    BY <1>1 DEF Nodes
  <2>4. y = z
    BY <1>1, <2>2
  <2> HIDE DEF y
  <2> QED
    BY <2>1, <2>2, <2>3, <2>4
<1> HIDE DEF y
<1>3. /\ s \in Seq(Ports) /\ h \in Seq(E) /\ Len(s) = n + 2 /\ Len(h) = n + 1
      /\ DOMAIN s = 1 .. n + 2 /\ DOMAIN h = 1 .. n + 1
      /\ s[n + 2] = y /\ h[n + 1] = e
      /\ \A k \in 1 .. n + 1 : s[k] = w.nodes[k]
      /\ \A k \in 1 .. n : h[k] = w.hops[k]
  BY <1>1, <1>2
<1>4. OneHopMore(w, e) = [nodes |-> s, hops |-> h]
  BY DEF OneHopMore, y
<1> HIDE DEF s, h
<1>5. \A k \in 1 .. n + 1 : h[k].ends = {s[k], s[k + 1]}
  <2> TAKE k \in 1 .. n + 1
  <2>1. CASE k = n + 1
    BY <1>1, <1>2, <1>3, <2>1
  <2>2. CASE k \in 1 .. n
    <3>1. k + 1 \in 1 .. n + 1
      BY <1>1, <2>2
    <3> QED
      BY <1>1, <1>3, <2>2, <3>1 DEF IsWalk
  <2> QED
    BY <1>1, <2>1, <2>2
<1>6. \A k \in 1 .. n + 1 : s[k] # y
  BY <1>1, <1>2, <1>3 DEF Nodes
<1>7. \A k, m \in 1 .. n + 2 : s[k] = s[m] => k = m
  <2>1. \A k \in 1 .. n + 2 : k = n + 2 \/ k \in 1 .. n + 1
    BY <1>1
  <2>2. \A k, m \in 1 .. n + 1 : s[k] = s[m] => k = m
    BY <1>1, <1>3 DEF IsWalk
  <2> QED
    BY <1>3, <1>6, <2>1, <2>2
<1>8. IsWalk([nodes |-> s, hops |-> h])
  BY <1>3, <1>5, <1>7 DEF IsWalk
<1>9. [nodes |-> s, hops |-> h] \in Paths(E)
  BY <1>1, <1>3, <1>8, MakePath
<1> QED
  BY <1>3, <1>4, <1>9

LEMMA WalkGrows ==
    ASSUME NEW E, PlainGraph(E), NEW p \in Ports, NEW w \in Walks(p, E),
           NEW e \in E, NEW y \in Ports \ Nodes(w), e.ends = {w.nodes[Len(w.nodes)], y}
    PROVE  \E v \in Walks(p, E) : Len(v.nodes) > Len(w.nodes)
<1>1. w \in Paths(E) /\ e \in NextHops(w, E)
  BY DEF Walks, NextHops
<1> DEFINE n == Len(w.hops)
           v == OneHopMore(w, e)
<1>2. /\ v \in Paths(E) /\ Len(v.hops) = n + 1
      /\ \A k \in 1 .. n + 1 : v.nodes[k] = w.nodes[k]
  BY <1>1, OneMoreIsAPath
<1> HIDE DEF v
<1>3. n \in Nat /\ Len(w.nodes) = n + 1 /\ w.nodes[1] = p
  BY WalkHas
<1>4. Len(v.nodes) = n + 2
  BY <1>2, <1>3, PathHas
<1>5. v.nodes[1] = p
  BY <1>2, <1>3
<1> QED
  BY <1>2, <1>3, <1>4, <1>5 DEF Walks

(* The paths that begin with a path.                                       *)
Begins(w, v) ==
    /\ Len(w.hops) <= Len(v.hops)
    /\ \A k \in 1 .. Len(w.hops) + 1 : v.nodes[k] = w.nodes[k]
    /\ \A k \in 1 .. Len(w.hops) : v.hops[k] = w.hops[k]
Beyond(w, E) == { v \in Paths(E) : Begins(w, v) }

LEMMA BeyondUnfolds ==
    ASSUME NEW E, PlainGraph(E), NEW w \in Paths(E)
    PROVE  Beyond(w, E) = {w} \cup UNION { Beyond(OneHopMore(w, e), E) : e \in NextHops(w, E) }
<1> DEFINE n == Len(w.hops)
<1>1. /\ IsWalk(w) /\ n \in Nat /\ Len(w.nodes) = n + 1 /\ DOMAIN w.nodes = 1 .. n + 1
      /\ w = [nodes |-> w.nodes, hops |-> w.hops] /\ w.hops \in Seq(E) /\ w.nodes \in Seq(Ports)
  BY PathHas
<1>2. w \in Beyond(w, E)
  BY <1>1 DEF Beyond, Begins
<1>3. ASSUME NEW e \in NextHops(w, E), NEW v \in Beyond(OneHopMore(w, e), E)
      PROVE  v \in Beyond(w, E)
  <2> DEFINE u == OneHopMore(w, e)
  <2>1. /\ u \in Paths(E) /\ Len(u.hops) = n + 1
        /\ \A k \in 1 .. n + 1 : u.nodes[k] = w.nodes[k]
        /\ \A k \in 1 .. n : u.hops[k] = w.hops[k]
    BY OneMoreIsAPath
  <2> HIDE DEF u
  <2>2. v \in Paths(E) /\ Begins(u, v)
    BY DEF Beyond, u
  <2>3. Len(v.hops) \in Nat
    BY <2>2, PathHas
  <2>4. \A k \in 1 .. n + 1 : k \in 1 .. (n + 1) + 1
    BY <1>1
  <2>5. \A k \in 1 .. n : k \in 1 .. n + 1
    BY <1>1
  <2> QED
    BY <1>1, <2>1, <2>2, <2>3, <2>4, <2>5 DEF Beyond, Begins
<1>4. ASSUME NEW v \in Beyond(w, E), v # w
      PROVE  \E e \in NextHops(w, E) : v \in Beyond(OneHopMore(w, e), E)
  <2>1. v \in Paths(E) /\ Begins(w, v)
    BY DEF Beyond
  <2> DEFINE m == Len(v.hops)
  <2>2. /\ IsWalk(v) /\ m \in Nat /\ Len(v.nodes) = m + 1 /\ DOMAIN v.nodes = 1 .. m + 1
        /\ v = [nodes |-> v.nodes, hops |-> v.hops] /\ v.hops \in Seq(E) /\ v.nodes \in Seq(Ports)
        /\ DOMAIN v.hops = 1 .. m
    BY <2>1, PathHas
  <2>3. n + 1 \in 1 .. m
    <3> SUFFICES ASSUME m = n
                 PROVE  FALSE
      BY <1>1, <2>1, <2>2 DEF Begins
    <3>1. v.nodes = w.nodes
      BY <1>1, <2>1, <2>2 DEF Begins
    <3>2. v.hops = w.hops
      BY <1>1, <2>1, <2>2 DEF Begins
    <3> QED
      BY <1>1, <1>4, <2>2, <3>1, <3>2
  <2> DEFINE e == v.hops[n + 1]
             u == OneHopMore(w, e)
  <2>4. /\ e \in E /\ e.ends = {v.nodes[n + 1], v.nodes[(n + 1) + 1]}
        /\ v.nodes[n + 1] = w.nodes[n + 1]
    BY <1>1, <2>1, <2>2, <2>3 DEF IsWalk, Begins
  <2>5. v.nodes[(n + 1) + 1] \notin Nodes(w)
    <3> SUFFICES ASSUME NEW k \in 1 .. n + 1, w.nodes[k] = v.nodes[(n + 1) + 1]
                 PROVE  FALSE
      BY <1>1 DEF Nodes
    <3>1. v.nodes[k] = v.nodes[(n + 1) + 1]
      BY <2>1 DEF Begins
    <3>2. k \in 1 .. m + 1 /\ (n + 1) + 1 \in 1 .. m + 1 /\ k # (n + 1) + 1
      BY <1>1, <2>2, <2>3
    <3> QED
      BY <2>2, <3>1, <3>2 DEF IsWalk
  <2>6. e \in NextHops(w, E)
    BY <1>1, <2>4, <2>5 DEF NextHops
  <2>7. /\ u \in Paths(E) /\ Len(u.hops) = n + 1
        /\ \A k \in 1 .. n + 1 : u.nodes[k] = w.nodes[k]
        /\ \A k \in 1 .. n : u.hops[k] = w.hops[k]
        /\ u.hops[n + 1] = e
    BY <2>6, OneMoreIsAPath
  <2> HIDE DEF u, e
  <2>8. u.nodes[(n + 1) + 1] = v.nodes[(n + 1) + 1]
    <3>1. /\ IsWalk(u) /\ DOMAIN u.hops = 1 .. n + 1 /\ DOMAIN u.nodes = 1 .. (n + 1) + 1
      BY <2>7, PathHas
    <3>2. n + 1 \in 1 .. n + 1 /\ (n + 1) + 1 \in 1 .. (n + 1) + 1 /\ n + 1 \in 1 .. (n + 1) + 1
          /\ n + 1 # (n + 1) + 1
      BY <1>1
    <3>3. e.ends = {u.nodes[n + 1], u.nodes[(n + 1) + 1]}
      BY <2>7, <3>1, <3>2 DEF IsWalk
    <3>4. u.nodes[n + 1] = v.nodes[n + 1] /\ u.nodes[n + 1] # u.nodes[(n + 1) + 1]
      BY <2>4, <2>7, <3>1, <3>2 DEF IsWalk
    <3> QED
      BY <2>4, <3>3, <3>4
  <2>9. Begins(u, v)
    <3>1. \A k \in 1 .. (n + 1) + 1 : k = (n + 1) + 1 \/ k \in 1 .. n + 1
      BY <1>1
    <3>2. \A k \in 1 .. n + 1 : k = n + 1 \/ k \in 1 .. n
      BY <1>1
    <3>3. \A k \in 1 .. (n + 1) + 1 : v.nodes[k] = u.nodes[k]
      BY <2>1, <2>7, <2>8, <3>1 DEF Begins
    <3>4. \A k \in 1 .. n + 1 : v.hops[k] = u.hops[k]
      BY <2>1, <2>7, <3>2 DEF Begins, e
    <3>5. n + 1 <= m
      BY <2>2, <2>3
    <3> QED
      BY <2>7, <3>3, <3>4, <3>5 DEF Begins
  <2> QED
    BY <2>1, <2>6, <2>9 DEF Beyond, u
<1> QED
  BY <1>2, <1>3, <1>4

(* dfs comes by what begins with the path it is called with: it is the     *)
(* only solution of its recursion, or there were a longest path that       *)
(* another solution gets wrong.                                            *)
Recurses(f, E) ==
    [w \in Paths(E) |-> {w} \cup UNION { f[OneHopMore(w, e)] : e \in NextHops(w, E) }]

LEMMA DfsGoesBeyond ==
    ASSUME NEW E, PlainGraph(E), NEW w \in Paths(E)
    PROVE  Dfs(E)[w] = Beyond(w, E)
<1> DEFINE f == Dfs(E)
           b == [v \in Paths(E) |-> Beyond(v, E)]
<1>1. Dfs(E) = CHOOSE g : g = Recurses(g, E)
  BY DEF Dfs, Recurses
<1>2. b = Recurses(b, E)
  <2>1. \A v \in Paths(E) :
           b[v] = {v} \cup UNION { b[OneHopMore(v, e)] : e \in NextHops(v, E) }
    <3> TAKE v \in Paths(E)
    <3>1. \A e \in NextHops(v, E) : b[OneHopMore(v, e)] = Beyond(OneHopMore(v, e), E)
      BY OneMoreIsAPath
    <3>2. b[v] = Beyond(v, E)
      OBVIOUS
    <3> HIDE DEF b
    <3> QED
      BY <3>1, <3>2, BeyondUnfolds
  <2> QED
    BY <2>1 DEF Recurses
<1>3. f = Recurses(f, E)
  <2> HIDE DEF b, f
  <2>1. \E g : g = Recurses(g, E)
    BY <1>2
  <2>2. (CHOOSE g : g = Recurses(g, E)) = Recurses((CHOOSE g : g = Recurses(g, E)), E)
    BY <2>1
  <2> QED
    BY <1>1, <2>2 DEF f
<1> HIDE DEF f, b
<1>4. \A v \in Paths(E) : f[v] = {v} \cup UNION { f[OneHopMore(v, e)] : e \in NextHops(v, E) }
  BY <1>3 DEF Recurses
<1> DEFINE Wrong == { v \in Paths(E) : f[v] # Beyond(v, E) }
           T == { Len(v.nodes) : v \in Wrong }
<1>5. \A v \in Paths(E) : Len(v.nodes) \in Nat /\ Len(v.nodes) <= Cardinality(Ports)
  <2> TAKE v \in Paths(E)
  <2>1. v.nodes \in Seq(Ports) /\ IsWalk(v)
    BY PathHas
  <2> QED
    BY <2>1, NodesAtMost, NodesCounted
<1>6. Wrong = {}
  <2> SUFFICES ASSUME Wrong # {}
               PROVE  FALSE
    OBVIOUS
  <2>1. T \in SUBSET Nat /\ T # {} /\ Cardinality(Ports) \in Nat
    BY <1>5, GraphIsFinite, FS_CardinalityType
  <2>2. \A n \in T : n <= Cardinality(Ports)
    BY <1>5
  <2>3. PICK n \in T : \A m \in T : m <= n
    <3> HIDE DEF T
    <3> QED
      BY <2>1, <2>2, GreatestNumber
  <2>4. PICK v \in Wrong : n = Len(v.nodes)
    OBVIOUS
  <2>5. ASSUME NEW e \in NextHops(v, E)
        PROVE  f[OneHopMore(v, e)] = Beyond(OneHopMore(v, e), E)
    <3>1. OneHopMore(v, e) \in Paths(E) /\ Len(OneHopMore(v, e).hops) = Len(v.hops) + 1
      BY OneMoreIsAPath
    <3>2. /\ Len(OneHopMore(v, e).nodes) = Len(OneHopMore(v, e).hops) + 1
          /\ Len(v.nodes) = Len(v.hops) + 1 /\ Len(v.hops) \in Nat
      BY <3>1, PathHas
    <3>3. ~(Len(OneHopMore(v, e).nodes) <= Len(v.nodes))
      BY <3>1, <3>2
    <3>4. OneHopMore(v, e) \notin Wrong
      BY <2>3, <2>4, <3>3
    <3> QED
      BY <3>1, <3>4
  <2>6. v \in Paths(E) /\ f[v] # Beyond(v, E)
    OBVIOUS
  <2> HIDE DEF Wrong, T
  <2>7. UNION { f[OneHopMore(v, e)] : e \in NextHops(v, E) }
          = UNION { Beyond(OneHopMore(v, e), E) : e \in NextHops(v, E) }
    BY <2>5
  <2>8. f[v] = {v} \cup UNION { f[OneHopMore(v, e)] : e \in NextHops(v, E) }
    BY <1>4, <2>6
  <2>9. Beyond(v, E) = {v} \cup UNION { Beyond(OneHopMore(v, e), E) : e \in NextHops(v, E) }
    BY <2>6, BeyondUnfolds
  <2> QED
    BY <2>6, <2>7, <2>8, <2>9
<1> QED
  BY <1>6 DEF f

(* Called as trace_cable calls it, dfs comes by every walk from the port.  *)
LEMMA DfsVisitsWalks ==
    ASSUME NEW E, PlainGraph(E), NEW p \in Ports
    PROVE  Dfs(E)[Start(p)] = Walks(p, E)
<1>1. /\ <<p>> \in Seq(Ports) /\ <<>> \in Seq(E) /\ Len(<<p>>) = 1 /\ Len(<<>>) = 0
      /\ DOMAIN <<p>> = {1} /\ DOMAIN <<>> = {} /\ <<p>>[1] = p
  OBVIOUS
<1>2. IsWalk(Start(p))
  BY <1>1 DEF IsWalk, Start
<1>3. Start(p) \in Paths(E)
  <2> DEFINE s == <<p>>
             h == <<>>
  <2>1. s \in Seq(Ports) /\ h \in Seq(E) /\ Len(s) = Len(h) + 1
    BY <1>1
  <2>2. Start(p) = [nodes |-> s, hops |-> h]
    BY DEF Start
  <2> HIDE DEF s, h
  <2>3. IsWalk([nodes |-> s, hops |-> h])
    BY <1>2, <2>2
  <2> QED
    BY <2>1, <2>2, <2>3, MakePath
<1>4. \A v \in Paths(E) : Begins(Start(p), v) <=> v.nodes[1] = p
  <2> TAKE v \in Paths(E)
  <2>1. Len(v.hops) \in Nat
    BY PathHas
  <2>2. Start(p).nodes = <<p>> /\ Start(p).hops = <<>>
    BY DEF Start
  <2>3. 1 .. 0 + 1 = {1} /\ 1 .. 0 = {}
    OBVIOUS
  <2> QED
    BY <1>1, <2>1, <2>2, <2>3 DEF Begins
<1> QED
  BY <1>3, <1>4, DfsGoesBeyond DEF Beyond, Walks

LEMMA InsideIsFull ==
    ASSUME NEW E, PlainGraph(E), NEW p \in Ports, NEW w \in Walks(p, E),
           NEW k \in 2 .. Len(w.hops), NEW e \in E, w.nodes[k] \in e.ends
    PROVE  e = w.hops[k - 1] \/ e = w.hops[k]
<1> DEFINE n == Len(w.hops)
           j == k - 1
<1>1. /\ IsWalk(w) /\ w.hops \in Seq(E) /\ w.nodes \in Seq(Ports) /\ n \in Nat
      /\ DOMAIN w.hops = 1 .. n /\ DOMAIN w.nodes = 1 .. n + 1
  BY WalkHas
<1>2. j \in 1 .. n /\ k \in 1 .. n /\ j + 1 = k /\ {j, k, k + 1} \subseteq 1 .. n + 1 /\ j # k + 1
  BY <1>1
<1> HIDE DEF j
<1>3. w.hops[j].ends = {w.nodes[j], w.nodes[k]} /\ w.hops[k].ends = {w.nodes[k], w.nodes[k + 1]}
  BY <1>1, <1>2 DEF IsWalk
<1>4. w.nodes[k + 1] # w.nodes[j] /\ w.nodes[k + 1] # w.nodes[k]
  BY <1>1, <1>2 DEF IsWalk
<1>5. w.hops[j] # w.hops[k] /\ w.hops[j] \in E /\ w.hops[k] \in E /\ w.nodes[k] \in Ports
  <2>1. w.hops[j].ends # w.hops[k].ends
    BY <1>3, <1>4
  <2>2. w.hops[j] \in E /\ w.hops[k] \in E
    BY <1>1, <1>2
  <2>3. w.nodes[k] \in Ports
    BY <1>1, <1>2
  <2> QED
    BY <2>1, <2>2, <2>3
<1>6. e = w.hops[j] \/ e = w.hops[k]
  BY <1>3, <1>5 DEF PlainGraph, Degree2
<1> QED
  BY <1>6 DEF j

(* Where a longest walk from p may start: nowhere but at its first hop, or *)
(* in a graph without ends.                                                *)
StartsWell(p, E) ==
    /\ \E e \in E : p \in e.ends
    /\ \/ \A d, e \in E : p \in d.ends /\ p \in e.ends => d = e
       \/ \A q \in Ports : (\E e \in E : q \in e.ends) =>
             \E d, e \in E : d # e /\ q \in d.ends /\ q \in e.ends

IsHop(e, w) == \E n \in DOMAIN w.hops : w.hops[n] = e

(* Whatever touches a longest walk is on it, or closes it to a ring.       *)
LEMMA LongestIsFull ==
    ASSUME NEW E, PlainGraph(E), NEW p \in Ports, StartsWell(p, E),
           NEW u \in Walks(p, E), \A v \in Walks(p, E) : Len(v.nodes) <= Len(u.nodes),
           NEW e \in E, e.ends \cap Nodes(u) # {}
    PROVE  /\ Len(u.nodes) > 1
           /\ \/ IsHop(e, u)
              \/ /\ e.ends = {p, u.nodes[Len(u.nodes)]}
                 /\ ~ \A d, f \in E : p \in d.ends /\ p \in f.ends => d = f
<1> DEFINE n == Len(u.hops)
           last == u.nodes[n + 1]
           Alone == \A d, f \in E : p \in d.ends /\ p \in f.ends => d = f
<1>1. /\ IsWalk(u) /\ u.hops \in Seq(E) /\ u.nodes \in Seq(Ports) /\ n \in Nat
      /\ Len(u.nodes) = n + 1 /\ DOMAIN u.hops = 1 .. n /\ DOMAIN u.nodes = 1 .. n + 1
      /\ u.nodes[1] = p
  BY WalkHas
<1>2. ASSUME NEW d \in E, last \in d.ends
      PROVE  d.ends \subseteq Nodes(u)
  <2>1. PICK y \in Ports : d.ends = {last, y}
    <3>1. PICK a, b \in Ports : d.ends = {a, b}
      BY DEF PlainGraph
    <3> QED
      BY <1>2, <3>1
  <2>2. y \in Nodes(u)
    <3> SUFFICES ASSUME y \notin Nodes(u)
                 PROVE  FALSE
      OBVIOUS
    <3>1. PICK v \in Walks(p, E) : Len(v.nodes) > Len(u.nodes)
      BY <1>1, <2>1, WalkGrows
    <3>2. Len(v.nodes) <= Len(u.nodes) /\ Len(v.nodes) \in Nat /\ Len(u.nodes) \in Nat
      BY <3>1, WalkHas
    <3> QED
      BY <3>1, <3>2
  <2>3. last \in Nodes(u)
    BY <1>1 DEF Nodes
  <2> QED
    BY <2>1, <2>2, <2>3
<1>3. n >= 1
  <2> SUFFICES ASSUME n = 0
               PROVE  FALSE
    BY <1>1
  <2>1. PICK d \in E : p \in d.ends
    BY DEF StartsWell
  <2>2. Nodes(u) = {p} /\ last = p
    BY <1>1 DEF Nodes
  <2>3. d.ends \subseteq {p}
    BY <1>2, <2>1, <2>2
  <2> QED
    BY <2>3 DEF PlainGraph
<1>4. ASSUME NEW k \in 1 .. n
      PROVE  /\ u.hops[k] \in E /\ IsHop(u.hops[k], u) /\ k + 1 \in 1 .. n + 1
             /\ u.hops[k].ends = {u.nodes[k], u.nodes[k + 1]} /\ u.nodes[k] # u.nodes[k + 1]
  <2>1. k \in 1 .. n + 1 /\ k + 1 \in 1 .. n + 1 /\ k # k + 1
    BY <1>1
  <2> QED
    BY <1>1, <2>1 DEF IsWalk, IsHop
<1>5. ASSUME NEW k \in 2 .. n, NEW d \in E, u.nodes[k] \in d.ends
      PROVE  IsHop(d, u)
  <2>1. d = u.hops[k - 1] \/ d = u.hops[k]
    BY <1>5, InsideIsFull
  <2>2. k - 1 \in 1 .. n /\ k \in 1 .. n
    BY <1>1
  <2> QED
    BY <2>1, <2>2, <1>1 DEF IsHop
<1>6. ASSUME NEW d \in E, last \in d.ends
      PROVE  IsHop(d, u) \/ d.ends = {p, last}
  <2>1. PICK y \in Ports : y # last /\ d.ends = {last, y}
    <3>1. PICK a, b \in Ports : a # b /\ d.ends = {a, b}
      BY DEF PlainGraph
    <3> QED
      BY <1>6, <3>1
  <2>2. PICK m \in 1 .. n + 1 : y = u.nodes[m]
    <3>1. y \in Nodes(u)
      BY <1>2, <1>6, <2>1
    <3> QED
      BY <1>1, <3>1 DEF Nodes
  <2>3. m = 1 \/ m \in 2 .. n
    BY <1>1, <2>1, <2>2
  <2> QED
    BY <1>1, <1>5, <2>1, <2>2, <2>3
<1>7. ASSUME NEW d \in E, p \in d.ends, ~IsHop(d, u)
      PROVE  d.ends = {p, last} /\ ~Alone
  <2>1. u.hops[1] \in E /\ p \in u.hops[1].ends /\ u.hops[1] # d
    BY <1>1, <1>3, <1>4, <1>7
  <2>2. ~Alone
    BY <1>7, <2>1
  <2>3. PICK f \in E : last \in f.ends /\ f # u.hops[n]
    <3>1. last \in u.hops[n].ends /\ u.hops[n] \in E /\ last \in Ports
      BY <1>1, <1>3, <1>4
    <3>2. PICK a, b \in E : a # b /\ last \in a.ends /\ last \in b.ends
      BY <2>2, <3>1 DEF StartsWell
    <3> QED
      BY <3>2
  <2>4. ~IsHop(f, u)
    <3> SUFFICES ASSUME NEW k \in 1 .. n, f = u.hops[k]
                 PROVE  FALSE
      BY <1>1 DEF IsHop
    <3>1. last = u.nodes[k] \/ last = u.nodes[k + 1]
      BY <1>4, <2>3
    <3>2. k \in 1 .. n + 1 /\ k + 1 \in 1 .. n + 1 /\ n + 1 \in 1 .. n + 1
      BY <1>1
    <3>3. k = n + 1 \/ k + 1 = n + 1
      BY <1>1, <3>1, <3>2 DEF IsWalk
    <3>4. k = n
      BY <1>1, <3>3
    <3> QED
      BY <2>3, <3>4
  <2>5. f.ends = {p, last}
    BY <1>6, <2>3, <2>4
  <2>6. f # u.hops[1]
    BY <1>1, <1>3, <1>4, <2>4
  <2>7. d = f
    BY <1>7, <2>1, <2>5, <2>6 DEF PlainGraph, Degree2
  <2> QED
    BY <2>2, <2>5, <2>7
<1>8. PICK k \in 1 .. n + 1 : u.nodes[k] \in e.ends
  BY <1>1 DEF Nodes
<1>9. IsHop(e, u) \/ (e.ends = {p, last} /\ ~Alone)
  <2>1. CASE k = 1
    BY <1>1, <1>7, <1>8, <2>1
  <2>2. CASE k = n + 1
    <3>1. IsHop(e, u) \/ e.ends = {p, last}
      BY <1>6, <1>8, <2>2
    <3>2. e.ends = {p, last} => p \in e.ends
      OBVIOUS
    <3> QED
      BY <1>7, <3>1, <3>2
  <2>3. CASE k \in 2 .. n
    BY <1>5, <1>8, <2>3
  <2> QED
    BY <1>1, <2>1, <2>2, <2>3
<1> QED
  BY <1>1, <1>3, <1>9

PortsOf(E) == UNION { e.ends : e \in E }
Joined(E) == \A S \in SUBSET Ports : Closed(S, E) /\ S \cap PortsOf(E) # {} => PortsOf(E) \subseteq S

LEMMA WalkStaysInside ==
    ASSUME NEW E, PlainGraph(E), NEW p \in Ports, NEW w \in Walks(p, E), p \in PortsOf(E)
    PROVE  Nodes(w) \subseteq PortsOf(E) /\ PortsOf(E) \subseteq Ports
<1> DEFINE n == Len(w.hops)
<1>1. /\ IsWalk(w) /\ w.hops \in Seq(E) /\ n \in Nat /\ DOMAIN w.hops = 1 .. n
      /\ DOMAIN w.nodes = 1 .. n + 1 /\ w.nodes[1] = p
  BY WalkHas
<1>2. \A k \in 1 .. n + 1 : w.nodes[k] \in PortsOf(E)
  <2> TAKE k \in 1 .. n + 1
  <2> DEFINE j == k - 1
  <2>1. k = 1 \/ (j \in 1 .. n /\ j + 1 = k)
    BY <1>1
  <2> HIDE DEF j
  <2>2. CASE j \in 1 .. n /\ j + 1 = k
    <3>1. w.hops[j].ends = {w.nodes[j], w.nodes[k]} /\ w.hops[j] \in E
      BY <1>1, <2>2 DEF IsWalk
    <3> QED
      BY <3>1 DEF PortsOf
  <2> QED
    BY <1>1, <2>1, <2>2
<1>3. PortsOf(E) \subseteq Ports
  BY DEF PortsOf, PlainGraph
<1> QED
  BY <1>1, <1>2, <1>3 DEF Nodes

LEMMA LongestCovers ==
    ASSUME NEW E, PlainGraph(E), Joined(E), NEW p \in Ports, StartsWell(p, E),
           NEW u \in Walks(p, E), \A v \in Walks(p, E) : Len(v.nodes) <= Len(u.nodes)
    PROVE  Nodes(u) = PortsOf(E)
<1>1. /\ IsWalk(u) /\ u.nodes \in Seq(Ports) /\ u.hops \in Seq(E)
      /\ DOMAIN u.hops = 1 .. Len(u.hops) /\ DOMAIN u.nodes = 1 .. Len(u.hops) + 1
      /\ Len(u.nodes) = Len(u.hops) + 1 /\ Len(u.hops) \in Nat /\ u.nodes[1] = p
  BY WalkHas
<1>2. p \in PortsOf(E) /\ p \in Nodes(u) /\ u.nodes[Len(u.nodes)] \in Nodes(u)
  BY <1>1 DEF StartsWell, PortsOf, Nodes
<1>3. Closed(Nodes(u), E)
  <2> SUFFICES ASSUME NEW e \in E, e.ends \cap Nodes(u) # {}
               PROVE  e.ends \subseteq Nodes(u)
    BY DEF Closed
  <2>1. CASE IsHop(e, u)
    <3>1. PICK k \in 1 .. Len(u.hops) : u.hops[k] = e
      BY <1>1, <2>1 DEF IsHop
    <3>2. k \in 1 .. Len(u.hops) + 1 /\ k + 1 \in 1 .. Len(u.hops) + 1
      BY <1>1
    <3>3. e.ends = {u.nodes[k], u.nodes[k + 1]}
      BY <1>1, <3>1 DEF IsWalk
    <3>4. u.nodes[k] \in Nodes(u) /\ u.nodes[k + 1] \in Nodes(u)
      BY <1>1, <3>2 DEF Nodes
    <3> QED
      BY <3>3, <3>4
  <2>2. CASE e.ends = {p, u.nodes[Len(u.nodes)]}
    BY <1>2, <2>2
  <2> QED
    BY <2>1, <2>2, LongestIsFull
<1>4. Nodes(u) \subseteq PortsOf(E) /\ Nodes(u) \in SUBSET Ports
  BY <1>2, WalkStaysInside
<1> QED
  BY <1>2, <1>3, <1>4 DEF Joined

(* The other way round a ring: its last hop first.                         *)
LEMMA OtherWayRound ==
    ASSUME NEW E, PlainGraph(E), NEW p \in Ports, NEW u \in Walks(p, E), NEW e \in E,
           Len(u.nodes) > 1, e.ends = {p, u.nodes[Len(u.nodes)]}
    PROVE  \E v \in Walks(p, E) : Len(v.nodes) = Len(u.nodes) /\ IsHop(e, v)
<1> DEFINE n == Len(u.hops)
           s == [k \in 1 .. n + 1 |-> IF k = 1 THEN p ELSE u.nodes[(n + 3) - k]]
           h == [k \in 1 .. n |-> IF k = 1 THEN e ELSE u.hops[(n + 2) - k]]
<1>1. /\ IsWalk(u) /\ u.hops \in Seq(E) /\ u.nodes \in Seq(Ports) /\ n \in Nat /\ n >= 1
      /\ Len(u.nodes) = n + 1 /\ DOMAIN u.hops = 1 .. n /\ DOMAIN u.nodes = 1 .. n + 1
      /\ u.nodes[1] = p
  <2>1. Len(u.nodes) = n + 1 /\ n \in Nat
    BY WalkHas
  <2> QED
    BY <2>1, WalkHas
<1>2. \A k \in 2 .. n + 1 : (n + 3) - k \in 2 .. n + 1
  BY <1>1
<1>3. \A k \in 2 .. n : (n + 2) - k \in 2 .. n /\ (n + 2) - k \in 1 .. n
  BY <1>1
<1>4. s \in [1 .. n + 1 -> Ports] /\ h \in [1 .. n -> E]
  <2>1. \A k \in 1 .. n + 1 : k = 1 \/ k \in 2 .. n + 1
    BY <1>1
  <2>2. \A k \in 1 .. n : k = 1 \/ k \in 2 .. n
    BY <1>1
  <2>3. \A k \in 2 .. n + 1 : k \in 1 .. n + 1
    BY <1>1
  <2>4. \A k \in 2 .. n + 1 : u.nodes[(n + 3) - k] \in Ports
    BY <1>1, <1>2, <2>3
  <2>5. \A k \in 2 .. n : u.hops[(n + 2) - k] \in E
    BY <1>1, <1>3
  <2> QED
    BY <2>1, <2>2, <2>4, <2>5
<1>5. s \in Seq(Ports) /\ h \in Seq(E) /\ Len(s) = Len(h) + 1 /\ Len(s) = n + 1
  BY <1>1, <1>4
<1>6. /\ s[1] = p /\ h[1] = e
      /\ \A k \in 2 .. n + 1 : s[k] = u.nodes[(n + 3) - k]
      /\ \A k \in 2 .. n : h[k] = u.hops[(n + 2) - k]
  BY <1>1
<1>7. DOMAIN s = 1 .. n + 1 /\ DOMAIN h = 1 .. n
  OBVIOUS
<1> HIDE DEF s, h
<1>8. \A k \in 1 .. n : h[k].ends = {s[k], s[k + 1]}
  <2> TAKE k \in 1 .. n
  <2>1. CASE k = 1
    <3>1. 2 \in 2 .. n + 1 /\ (n + 3) - 2 = n + 1 /\ k + 1 = 2
      BY <1>1, <2>1
    <3>2. s[k + 1] = u.nodes[n + 1]
      BY <1>6, <3>1
    <3> QED
      BY <1>1, <1>6, <2>1, <3>2
  <2>2. CASE k \in 2 .. n
    <3> DEFINE j == (n + 2) - k
    <3>1. /\ j \in 1 .. n /\ (n + 3) - k = j + 1 /\ (n + 3) - (k + 1) = j
          /\ k \in 2 .. n + 1 /\ k + 1 \in 2 .. n + 1
      BY <1>1, <2>2
    <3> HIDE DEF j
    <3>2. s[k] = u.nodes[j + 1] /\ s[k + 1] = u.nodes[j]
      BY <1>6, <3>1
    <3>3. h[k] = u.hops[j]
      BY <1>6, <2>2 DEF j
    <3>4. u.hops[j].ends = {u.nodes[j], u.nodes[j + 1]}
      BY <1>1, <3>1 DEF IsWalk
    <3> QED
      BY <3>2, <3>3, <3>4
  <2> QED
    BY <1>1, <2>1, <2>2
<1>9. \A k, m \in 1 .. n + 1 : s[k] = s[m] => k = m
  <2>1. \A k \in 1 .. n + 1 : k = 1 \/ k \in 2 .. n + 1
    BY <1>1
  <2>2. \A k \in 2 .. n + 1 : s[k] # p
    <3> SUFFICES ASSUME NEW k \in 2 .. n + 1, s[k] = p
                 PROVE  FALSE
      OBVIOUS
    <3> DEFINE j == (n + 3) - k
    <3>1. j \in 2 .. n + 1 /\ j \in 1 .. n + 1 /\ 1 \in 1 .. n + 1 /\ j # 1
      BY <1>1
    <3>2. s[k] = u.nodes[j]
      BY <1>6
    <3> QED
      BY <1>1, <3>1, <3>2 DEF IsWalk
  <2>3. ASSUME NEW k \in 2 .. n + 1, NEW m \in 2 .. n + 1, s[k] = s[m]
        PROVE  k = m
    <3>1. (n + 3) - k \in 1 .. n + 1 /\ (n + 3) - m \in 1 .. n + 1
      BY <1>1
    <3>2. u.nodes[(n + 3) - k] = u.nodes[(n + 3) - m]
      BY <1>6, <2>3
    <3>3. (n + 3) - k = (n + 3) - m
      BY <1>1, <3>1, <3>2 DEF IsWalk
    <3> QED
      BY <1>1, <3>3
  <2> QED
    BY <1>6, <2>1, <2>2, <2>3
<1>10. IsWalk([nodes |-> s, hops |-> h])
  BY <1>7, <1>8, <1>9 DEF IsWalk
<1>11. [nodes |-> s, hops |-> h] \in Walks(p, E)
  BY <1>5, <1>6, <1>10, MakeWalk
<1>12. IsHop(e, [nodes |-> s, hops |-> h])
  BY <1>1, <1>6, <1>7 DEF IsHop
<1> QED
  BY <1>1, <1>5, <1>11, <1>12

LEMMA AllMeetOneCable ==
    ASSUME NEW E, PlainGraph(E), Joined(E), NEW p \in Ports, StartsWell(p, E), NEW e \in E
    PROVE  \E v \in Walks(p, E) : Len(v.nodes) = Cardinality(PortsOf(E)) /\ IsHop(e, v)
<1>1. PICK u \in Walks(p, E) : \A v \in Walks(p, E) : Len(v.nodes) <= Len(u.nodes)
  BY LongestFrom
<1>2. Nodes(u) = PortsOf(E)
  BY <1>1, LongestCovers
<1>3. Len(u.nodes) = Cardinality(PortsOf(E))
  BY <1>2, WalkHas, NodesCounted
<1>4. e.ends \cap Nodes(u) # {}
  <2>1. PICK q \in Ports : q \in e.ends
    BY DEF PlainGraph
  <2> QED
    BY <1>2, <2>1 DEF PortsOf
<1>5. /\ Len(u.nodes) > 1
      /\ IsHop(e, u) \/ e.ends = {p, u.nodes[Len(u.nodes)]}
  BY <1>1, <1>4, LongestIsFull
<1>6. CASE IsHop(e, u)
  BY <1>3, <1>6
<1>7. CASE e.ends = {p, u.nodes[Len(u.nodes)]}
  BY <1>3, <1>5, <1>7, OtherWayRound
<1> QED
  BY <1>5, <1>6, <1>7

LEMMA FewAreOne ==
    ASSUME NEW S, IsFiniteSet(S)
    PROVE  Cardinality(S) <= 1 <=> \A d, e \in S : d = e
<1>1. Cardinality(S) \in Nat
  BY FS_CardinalityType
<1>2. ASSUME Cardinality(S) <= 1, NEW d \in S, NEW e \in S
      PROVE  d = e
  <2>1. IsFiniteSet({d}) /\ Cardinality({d}) = 1 /\ {d} \in SUBSET S
    BY FS_Singleton
  <2>2. Cardinality({d}) <= Cardinality(S) /\ (Cardinality(S) = Cardinality({d}) => S = {d})
    BY <2>1, FS_Subset
  <2> QED
    BY <1>1, <1>2, <2>1, <2>2
<1>3. ASSUME \A d, e \in S : d = e
      PROVE  Cardinality(S) <= 1
  <2>1. CASE S = {}
    BY <2>1, FS_EmptySet
  <2>2. CASE S # {}
    <3>1. PICK d \in S : S = {d}
      BY <1>3, <2>2
    <3> QED
      BY <3>1, FS_Singleton
  <2> QED
    BY <2>1, <2>2
<1> QED
  BY <1>2, <1>3

LEMMA StartsAreGood ==
    ASSUME NEW E, PlainGraph(E), E # {}, NEW starts \in Starts(E)
    PROVE  starts # {} /\ \A p \in starts : p \in Ports /\ StartsWell(p, E)
<1> DEFINE At(p) == { e \in E : p \in e.ends }
           leaves == { p \in PortsOf(E) : Cardinality(At(p)) <= 1 }
<1>1. \A p : IsFiniteSet(At(p))
  BY FS_Subset DEF PlainGraph
<1>2. \A p : Cardinality(At(p)) <= 1 <=> \A d, e \in E : p \in d.ends /\ p \in e.ends => d = e
  <2> TAKE p
  <2>1. Cardinality(At(p)) <= 1 <=> \A d, e \in At(p) : d = e
    BY <1>1, FewAreOne
  <2> QED
    BY <2>1
<1>3. starts \in IF leaves = {} THEN { {p} : p \in PortsOf(E) } ELSE {leaves}
  BY DEF Starts, PortsOf
<1>4. /\ \A p \in PortsOf(E) : p \in Ports /\ \E e \in E : p \in e.ends
      /\ \A p : (\E e \in E : p \in e.ends) => p \in PortsOf(E)
  BY DEF PortsOf, PlainGraph
<1> HIDE DEF At
<1>5. CASE leaves = {}
  <2>1. PICK p \in PortsOf(E) : starts = {p}
    BY <1>3, <1>5
  <2>2. \A q \in PortsOf(E) : ~(Cardinality(At(q)) <= 1)
    BY <1>5
  <2>3. \A q \in PortsOf(E) : \E d, e \in E : d # e /\ q \in d.ends /\ q \in e.ends
    BY <1>2, <2>2
  <2> QED
    BY <1>4, <2>1, <2>3 DEF StartsWell
<1>6. CASE leaves # {}
  <2>1. starts = leaves
    BY <1>3, <1>6
  <2>2. \A p \in leaves : p \in PortsOf(E) /\ \A d, e \in E : p \in d.ends /\ p \in e.ends => d = e
    BY <1>2
  <2> HIDE DEF leaves
  <2> QED
    BY <1>4, <1>6, <2>1, <2>2 DEF StartsWell
<1> QED
  BY <1>5, <1>6

(* _longest_path_containing_cable finds a walk over all ports it is given. *)
LEMMA AnswersCover ==
    ASSUME NEW E, PlainGraph(E), Joined(E), NEW c, NEW e \in E, e.kind = "cable", e.id = c,
           NEW starts \in Starts(E)
    PROVE  /\ LongestWalks(starts, E, c) # {}
           /\ \A w \in LongestWalks(starts, E, c) :
                 /\ Nodes(w) = PortsOf(E) /\ IsWalk(w) /\ Contains(w, c)
                 /\ \A n \in DOMAIN w.hops : w.hops[n] \in E
<1> DEFINE walks == { w \in UNION { Walks(p, E) : p \in starts } : Contains(w, c) }
<1>1. starts # {} /\ \A p \in starts : p \in Ports /\ StartsWell(p, E)
  BY StartsAreGood
<1>2. PICK p \in starts : TRUE
  BY <1>1
<1>3. PICK v \in Walks(p, E) : Len(v.nodes) = Cardinality(PortsOf(E)) /\ IsHop(e, v)
  BY <1>1, <1>2, AllMeetOneCable
<1>4. v \in walks
  BY <1>2, <1>3 DEF Contains, IsHop
<1>5. ASSUME NEW w \in walks
      PROVE  /\ Len(w.nodes) <= Cardinality(PortsOf(E))
             /\ Len(w.nodes) >= Cardinality(PortsOf(E)) => Nodes(w) = PortsOf(E)
             /\ IsWalk(w) /\ Contains(w, c) /\ \A n \in DOMAIN w.hops : w.hops[n] \in E
  <2>1. PICK q \in starts : w \in Walks(q, E)
    OBVIOUS
  <2>2. q \in Ports /\ q \in PortsOf(E)
    BY <1>1 DEF StartsWell, PortsOf
  <2>3. /\ w.nodes \in Seq(Ports) /\ IsWalk(w) /\ w.hops \in Seq(E)
    BY <2>1, <2>2, WalkHas
  <2>4. Nodes(w) \subseteq PortsOf(E) /\ PortsOf(E) \in SUBSET Ports
    BY <2>1, <2>2, WalkStaysInside
  <2> QED
    BY <2>3, <2>4, NodesAtMost
<1>6. LongestWalks(starts, E, c) = { w \in walks : \A x \in walks : Len(x.nodes) <= Len(w.nodes) }
  <2>1. \A q \in starts : Dfs(E)[Start(q)] = Walks(q, E)
    BY <1>1, DfsVisitsWalks
  <2> QED
    BY <2>1 DEF LongestWalks
<1> HIDE DEF walks
<1>7. v \in LongestWalks(starts, E, c)
  BY <1>3, <1>4, <1>5, <1>6
<1>8. ASSUME NEW w \in LongestWalks(starts, E, c)
      PROVE  w \in walks /\ Len(w.nodes) >= Cardinality(PortsOf(E))
  BY <1>3, <1>4, <1>6
<1> QED
  BY <1>5, <1>7, <1>8
----------------------------------------------------------------------------
(* The graph of cables and mappings                                        *)

Graph == CableEdges \cup MappingEdges

LEMMA PartIsPlain ==
    ASSUME NEW G, PlainGraph(G), NEW E \in SUBSET G
    PROVE  PlainGraph(E)
<1>1. IsFiniteSet(E)
  BY FS_Subset DEF PlainGraph
<1> QED
  BY <1>1 DEF PlainGraph, Degree2

LEMMA GraphIsPlain ==
    ASSUME Shape
    PROVE  PlainGraph(Graph)
<1>1. ASSUME NEW e \in CableEdges
      PROVE  \E c \in Cables : /\ Stored(c) /\ e = CableEdge(c) /\ e.ends = Ends(c)
                              /\ e.kind = "cable"
  BY DEF CableEdges, CableEdge, Ends
<1>2. ASSUME NEW e \in MappingEdges
      PROVE  \E m \in Mappings : e = MappingEdge(m) /\ e.ends = {m[1], m[2]} /\ e.kind = "mapping"
  BY DEF MappingEdges, MappingEdge
<1>3. \A e \in Graph : \E p, q \in Ports : p # q /\ e.ends = {p, q}
  <2> TAKE e \in Graph
  <2>1. CASE e \in CableEdges
    BY <1>1, <2>1 DEF Shape, StoredIsChecked, RowIsChecked, Fits, Ends
  <2>2. CASE e \in MappingEdges
    BY <1>2, <2>2, MappingsAreLanes
  <2> QED
    BY <2>1, <2>2 DEF Graph
<1>4. ASSUME NEW p, NEW d \in CableEdges, NEW e \in CableEdges, p \in d.ends, p \in e.ends
      PROVE  d = e
  BY <1>1, <1>4 DEF Shape, PortsHoldOneCable
<1>5. ASSUME NEW p, NEW d \in MappingEdges, NEW e \in MappingEdges, p \in d.ends, p \in e.ends
      PROVE  d = e
  BY <1>2, <1>5, MappingsAreLanes
<1>6. Degree2(Graph)
  <2> SUFFICES ASSUME NEW p \in Ports, NEW d \in Graph, NEW e \in Graph, NEW f \in Graph,
                      p \in d.ends, p \in e.ends, p \in f.ends
               PROVE  d = e \/ d = f \/ e = f
    BY DEF Degree2
  <2>1. /\ d \in CableEdges \/ d \in MappingEdges
        /\ e \in CableEdges \/ e \in MappingEdges
        /\ f \in CableEdges \/ f \in MappingEdges
    BY DEF Graph
  <2> QED
    BY <1>4, <1>5, <2>1
<1>7. IsFiniteSet(CableEdges)
  <2> DEFINE S == { c \in Cables : Stored(c) }
             f == [c \in S |-> CableEdge(c)]
  <2>1. IsFiniteSet(S)
    BY GraphIsFinite, FS_Subset
  <2>2. f \in Surjection(S, CableEdges)
    BY DEF Surjection, CableEdges
  <2> HIDE DEF f
  <2> QED
    BY <2>1, <2>2, FS_Surjection
<1>8. IsFiniteSet(MappingEdges)
  <2> DEFINE f == [m \in Mappings |-> MappingEdge(m)]
  <2>1. IsFiniteSet(Ports \X Ports)
    BY GraphIsFinite, FS_Product
  <2>2. IsFiniteSet(Mappings)
    BY <2>1, MappingsAreLanes, FS_Subset
  <2>3. f \in Surjection(Mappings, MappingEdges)
    BY DEF Surjection, MappingEdges
  <2> HIDE DEF f
  <2> QED
    BY <2>2, <2>3, FS_Surjection
<1>9. IsFiniteSet(Graph)
  BY <1>7, <1>8, FS_Union DEF Graph
<1> QED
  BY <1>3, <1>6, <1>9 DEF PlainGraph

LEMMA GraphGrows ==
    ASSUME Shape, [Next]_vars
    PROVE  /\ Graph \subseteq Graph'
           /\ \A c \in Cables : Stored(c) => Stored(c)' /\ cables'[c] = cables[c]
<1>1. \A c \in Cables : Stored(c) => Stored(c)' /\ cables'[c] = cables[c]
  BY StoredStay
<1>2. ASSUME NEW e \in CableEdges
      PROVE  e \in CableEdges'
  <2>1. PICK c \in Cables : Stored(c) /\ e = CableEdge(c)
    BY DEF CableEdges
  <2>2. CableEdge(c)' = CableEdge(c)
    BY <1>1, <2>1 DEF CableEdge
  <2> QED
    BY <1>1, <2>1, <2>2 DEF CableEdges
<1>3. MappingEdges' = MappingEdges
  BY DEF MappingEdges, MappingEdge
<1> QED
  BY <1>1, <1>2, <1>3 DEF Graph

ComponentIn(from, G) ==
    { p \in Ports : \A S \in SUBSET Ports : from \subseteq S /\ Closed(S, G) => p \in S }

LEMMA ComponentIs == \A from : Component(from) = ComponentIn(from, Graph)
BY DEF Component, ComponentIn, Closed, Graph

----------------------------------------------------------------------------
(* What a trace has collected                                              *)

Reached == trace.visited \cup trace.frontier
Unread == { e \in Graph : e.ends \cap trace.visited = {} }
TracedEnds == CableEdge(trace.cable).ends

TraceReads ==
    /\ trace.at \in {"idle", "expand", "done", "refused"}
    /\ trace.visited \in SUBSET Ports /\ trace.frontier \in SUBSET Ports
    /\ trace.owed \in SUBSET Ports /\ trace.edges \in SUBSET Graph
    /\ trace.at # "idle" => trace.cable \in Cables /\ Stored(trace.cable)

(* While it expands: it has read all edges of the ports it visited, and    *)
(* reached no port but by these; what it owes is reached by them and those *)
(* that touch no visited port.                                             *)
TraceCollects ==
    trace.at = "expand" =>
        /\ TracedEnds \subseteq Reached
        /\ TracedEnds \cap trace.visited # {} => CableEdge(trace.cable) \in trace.edges
        /\ \A e \in trace.edges : e.ends \subseteq Reached
        /\ \A S \in SUBSET Ports :
              TracedEnds \subseteq S /\ Closed(S, trace.edges) => Reached \subseteq S
        /\ \A S \in SUBSET Ports :
              TracedEnds \subseteq S /\ Closed(S, trace.edges) /\ Closed(S, Unread)
                => trace.owed \subseteq S
        /\ Cardinality(trace.visited) <= MaxTraceNodes

TraceInv == Shape /\ TraceReads /\ TraceCollects /\ TraceIsAWalk /\ TraceIsWhole

LEMMA CableIsAnEdge ==
    ASSUME Shape, NEW c \in Cables, Stored(c)
    PROVE  /\ CableEdge(c) \in Graph /\ CableEdge(c).ends = {cables[c].a, cables[c].b}
           /\ CableEdge(c).ends \subseteq Ports
           /\ CableEdge(c).kind = "cable" /\ CableEdge(c).id = c
<1>1. cables[c].a \in Ports /\ cables[c].b \in Ports
  BY DEF Shape, StoredIsChecked, RowIsChecked
<1> QED
  BY <1>1 DEF CableEdge, Graph, CableEdges

LEMMA TraceInvInit == TraceInit => TraceInv
<1> SUFFICES ASSUME TraceInit
             PROVE  TraceInv
  OBVIOUS
<1>1. Shape
  BY ShapeInit DEF TraceInit
<1> QED
  BY <1>1 DEF TraceInit, NoTrace, TraceInv, TraceReads, TraceCollects, TraceIsAWalk, TraceIsWhole

LEMMA CablesStep ==
    ASSUME TraceInv, [Next]_vars, UNCHANGED trace
    PROVE  TraceInv'
<1>1. Shape'
  BY ShapeStep DEF TraceInv
<1>2. /\ Graph \subseteq Graph'
      /\ \A c \in Cables : Stored(c) => Stored(c)' /\ cables'[c] = cables[c]
  BY GraphGrows DEF TraceInv
<1>3. TraceReads'
  BY <1>2 DEF TraceInv, TraceReads
<1>4. TraceCollects'
  <2> SUFFICES ASSUME trace.at = "expand"
               PROVE  TraceCollects'
    BY DEF TraceCollects
  <2>1. CableEdge(trace.cable)' = CableEdge(trace.cable)
    BY <1>2 DEF TraceInv, TraceReads, CableEdge
  <2>2. TracedEnds' = TracedEnds /\ Reached' = Reached
    BY <2>1 DEF TracedEnds, Reached
  <2>3. Unread \subseteq Unread'
    BY <1>2 DEF Unread
  <2>4. \A S : Closed(S, Unread') => Closed(S, Unread)
    BY <2>3 DEF Closed
  <2> QED
    BY <2>1, <2>2, <2>4 DEF TraceInv, TraceCollects
<1>5. TraceIsAWalk'
  BY <1>2 DEF TraceInv, TraceIsAWalk, Contains, Graph
<1>6. TraceIsWhole'
  <2>1. CASE trace.at = "refused"
    <3> DEFINE from == {cables[trace.cable].a}
    <3>1. from' = from
      BY <1>2, <2>1 DEF TraceInv, TraceReads
    <3>2. Component(from) \subseteq Component(from)'
      <4>1. ComponentIn(from, Graph) \subseteq ComponentIn(from, Graph')
        BY <1>2 DEF ComponentIn, Closed
      <4>2. Component(from)' = ComponentIn(from, Graph')
        BY <3>1, ComponentIs DEF Component, ComponentIn, Closed, Graph
      <4> QED
        BY <4>1, <4>2, ComponentIs
    <3>3. IsFiniteSet(Component(from)') /\ Component(from)' \in SUBSET Ports
      BY GraphIsFinite, FS_Subset DEF Component
    <3>4. Cardinality(Component(from)) <= Cardinality(Component(from)')
          /\ Cardinality(Component(from)) \in Nat /\ Cardinality(Component(from)') \in Nat
      BY <3>2, <3>3, FS_Subset, FS_CardinalityType
    <3>5. Cardinality(Component(from)) > MaxTraceNodes
      BY <2>1 DEF TraceInv, TraceIsWhole
    <3>6. Cardinality(Component(from)') > MaxTraceNodes
      BY <3>4, <3>5, TraceBounds
    <3> QED
      BY <2>1, <3>6 DEF TraceIsWhole
  <2>2. CASE trace.at # "refused"
    BY <2>2 DEF TraceInv, TraceIsWhole, Nodes
  <2> QED
    BY <2>1, <2>2
<1> QED
  BY <1>1, <1>3, <1>4, <1>5, <1>6 DEF TraceInv

LEMMA BeginTraceStep ==
    ASSUME TraceInv, NEW c \in Cables, BeginTrace(c)
    PROVE  TraceInv'
<1>1. Shape /\ Stored(c) /\ UNCHANGED vars
      /\ trace' = [NoTrace EXCEPT !.at = "expand", !.cable = c, !.frontier = CableEdge(c).ends,
                                  !.owed = Component(CableEdge(c).ends)]
  BY DEF TraceInv, BeginTrace
<1>2. /\ trace'.at = "expand" /\ trace'.cable = c /\ trace'.frontier = CableEdge(c).ends
      /\ trace'.owed = Component(CableEdge(c).ends) /\ trace'.visited = {} /\ trace'.edges = {}
  BY <1>1 DEF NoTrace
<1>3. /\ Shape' /\ Graph' = Graph /\ CableEdge(c)' = CableEdge(c) /\ Stored(c)'
  <2>1. Shape'
    BY <1>1, ShapeStep
  <2> QED
    BY <1>1, <2>1 DEF vars, Graph, CableEdges, CableEdge, MappingEdges, MappingEdge, Stored
<1>4. CableEdge(c).ends \subseteq Ports
  BY <1>1, CableIsAnEdge
<1>5. TracedEnds' = CableEdge(c).ends
  BY <1>2, <1>3 DEF TracedEnds, CableEdge
<1>6. Reached' = CableEdge(c).ends /\ Unread' = Graph
  BY <1>2, <1>3 DEF Reached, Unread
<1>7. TraceReads'
  <2>1. Component(CableEdge(c).ends) \in SUBSET Ports
    BY DEF Component
  <2> QED
    BY <1>2, <1>3, <1>4, <2>1 DEF TraceReads
<1>8. \A S \in SUBSET Ports :
         CableEdge(c).ends \subseteq S /\ Closed(S, Graph) => Component(CableEdge(c).ends) \subseteq S
  BY ComponentIs DEF ComponentIn
<1>9. Cardinality({}) <= MaxTraceNodes
  BY FS_EmptySet, TraceBounds
<1>10. TraceCollects'
  BY <1>2, <1>5, <1>6, <1>8, <1>9 DEF TraceCollects
<1> QED
  BY <1>2, <1>3, <1>7, <1>10 DEF TraceInv, TraceIsAWalk, TraceIsWhole

LEMMA ExpandStep ==
    ASSUME TraceInv, Expand
    PROVE  TraceInv'
<1>1. /\ Shape /\ TraceReads /\ trace.at = "expand" /\ UNCHANGED vars /\ Stored(trace.cable)
      /\ trace.cable \in Cables
  BY DEF TraceInv, TraceReads, Expand
<1>2. Shape'
  BY <1>1, ShapeStep
<1>3. Graph' = Graph /\ \A c : CableEdge(c)' = CableEdge(c)
  BY <1>1 DEF vars, Graph, CableEdges, CableEdge, MappingEdges, MappingEdge, Stored
<1>4. PICK batch \in Batch(trace.frontier) :
         LET visited == trace.visited \cup batch
             found == Touching(batch)
         IN trace' = IF TooMany(batch, trace.visited)
                     THEN [trace EXCEPT !.at = "refused"]
                     ELSE [trace EXCEPT !.visited = visited,
                                        !.edges = @ \cup found,
                                        !.frontier = (@ \ batch) \cup Unseen(found, visited)]
  BY DEF Expand
<1> DEFINE found == Touching(batch)
           visited == trace.visited \cup batch
           cable == CableEdge(trace.cable)
<1>5. batch \subseteq trace.frontier /\ batch \in SUBSET Ports /\ visited \in SUBSET Ports
  BY <1>1 DEF Batch, TraceReads
<1>6. found = { e \in Graph : e.ends \cap batch # {} }
  BY DEF Touching, Graph
<1>7. /\ cable \in Graph /\ cable.ends = {cables[trace.cable].a, cables[trace.cable].b}
      /\ cable.ends \subseteq Ports /\ TracedEnds = cable.ends
  BY <1>1, CableIsAnEdge DEF TracedEnds
<1>8. IsFiniteSet(visited) /\ Cardinality(visited) \in Nat
  BY <1>5, GraphIsFinite, FS_Subset, FS_CardinalityType
<1>9. CASE TooMany(batch, trace.visited)
  <2>1. trace' = [trace EXCEPT !.at = "refused"]
    BY <1>4, <1>9
  <2>2. /\ trace'.at = "refused" /\ trace'.cable = trace.cable /\ trace'.visited = trace.visited
        /\ trace'.frontier = trace.frontier /\ trace'.edges = trace.edges
        /\ trace'.owed = trace.owed
    BY <2>1
  <2> DEFINE from == {cables[trace.cable].a}
  <2>3. visited \subseteq Component(from)
    <3> SUFFICES ASSUME NEW S \in SUBSET Ports, from \subseteq S, Closed(S, Graph)
                 PROVE  visited \subseteq S
      BY <1>5, ComponentIs DEF ComponentIn
    <3>1. cable.ends \subseteq S
      BY <1>7 DEF Closed
    <3>2. Closed(S, trace.edges)
      BY <1>1 DEF Closed, TraceReads
    <3>3. Reached \subseteq S
      BY <1>1, <1>7, <3>1, <3>2 DEF TraceInv, TraceCollects
    <3> QED
      BY <1>5, <3>3 DEF Reached
  <2>4. IsFiniteSet(Component(from)) /\ Cardinality(Component(from)) \in Nat
    BY GraphIsFinite, FS_Subset, FS_CardinalityType DEF Component
  <2>5. Cardinality(visited) <= Cardinality(Component(from))
    BY <2>3, <2>4, FS_Subset
  <2>6. Cardinality(visited) > MaxTraceNodes
    <3>1. batch \cup trace.visited = visited
      OBVIOUS
    <3> QED
      BY <1>9, <3>1 DEF TooMany
  <2>7. Cardinality(Component(from)) > MaxTraceNodes
    BY <1>8, <2>4, <2>5, <2>6, TraceBounds
  <2>8. Component({cables[trace.cable].a})' = Component(from)
    <3>1. {cables[trace.cable].a}' = from
      BY <1>1, <2>2 DEF vars
    <3>2. Component({cables[trace.cable].a})' = ComponentIn({cables[trace.cable].a}', Graph')
      BY DEF Component, ComponentIn, Closed, Graph
    <3> QED
      BY <1>3, <3>1, <3>2, ComponentIs
  <2>9. TraceIsWhole' /\ TraceIsAWalk' /\ TraceCollects'
    <3> HIDE DEF from
    <3> QED
      BY <2>2, <2>7, <2>8 DEF TraceIsWhole, TraceIsAWalk, TraceCollects
  <2>10. TraceReads'
    BY <1>1, <1>3, <2>2 DEF TraceReads, vars, Stored
  <2> QED
    BY <1>2, <2>9, <2>10 DEF TraceInv
<1>10. CASE ~TooMany(batch, trace.visited)
  <2>1. /\ trace'.at = "expand" /\ trace'.cable = trace.cable /\ trace'.visited = visited
        /\ trace'.edges = trace.edges \cup found /\ trace'.owed = trace.owed
        /\ trace'.frontier = (trace.frontier \ batch) \cup Unseen(found, visited)
    BY <1>1, <1>4, <1>10
  <2>2. /\ Reached \subseteq Reached' /\ Reached' = Reached \cup UNION { e.ends : e \in found }
    <3> DEFINE new == UNION { e.ends : e \in found }
    <3>1. trace'.frontier = (trace.frontier \ batch) \cup (new \ visited)
      BY <2>1 DEF Unseen
    <3> HIDE DEF new
    <3>2. Reached' = visited \cup (trace.frontier \ batch) \cup (new \ visited)
      BY <2>1, <3>1 DEF Reached
    <3>3. Reached' = Reached \cup new
      BY <1>5, <3>2 DEF Reached
    <3> QED
      BY <3>3 DEF new
  <2>3. UNION { e.ends : e \in found } \subseteq Ports /\ found \subseteq Graph
    BY <1>1, <1>6, GraphIsPlain DEF PlainGraph
  <2>4. TracedEnds' = cable.ends
    BY <1>1, <2>1 DEF TracedEnds, CableEdge, vars
  <2>5. TraceReads'
    <3>1. Unseen(found, visited) \subseteq Ports
      BY <2>3 DEF Unseen
    <3>2. trace'.frontier \in SUBSET Ports /\ trace'.edges \in SUBSET Graph
      BY <1>1, <2>1, <2>3, <3>1 DEF TraceReads
    <3> QED
      BY <1>1, <1>3, <1>5, <2>1, <3>2 DEF TraceReads, vars, Stored
  <2>6. cable.ends \cap visited # {} => cable \in trace'.edges
    BY <1>1, <1>6, <1>7, <2>1 DEF TraceInv, TraceCollects
  <2>7. \A e \in trace'.edges : e.ends \subseteq Reached'
    <3>1. \A e \in trace.edges : e.ends \subseteq Reached
      BY <1>1 DEF TraceInv, TraceCollects
    <3> QED
      BY <2>1, <2>2, <3>1
  <2>8. ASSUME NEW S \in SUBSET Ports, cable.ends \subseteq S, Closed(S, trace'.edges)
        PROVE  Reached' \subseteq S
    <3>1. Closed(S, trace.edges) /\ Closed(S, found)
      BY <2>1, <2>8 DEF Closed
    <3>2. Reached \subseteq S
      BY <1>1, <1>7, <2>8, <3>1 DEF TraceInv, TraceCollects
    <3>3. \A e \in found : e.ends \subseteq S
      BY <1>5, <1>6, <3>1, <3>2 DEF Closed, Reached
    <3> QED
      BY <2>2, <3>2, <3>3
  <2>9. ASSUME NEW S \in SUBSET Ports, cable.ends \subseteq S, Closed(S, trace'.edges),
               Closed(S, Unread')
        PROVE  trace'.owed \subseteq S
    <3>1. Closed(S, trace.edges) /\ Closed(S, found)
      BY <2>1, <2>9 DEF Closed
    <3>2. Unread' = { e \in Graph : e.ends \cap visited = {} }
      BY <1>3, <2>1 DEF Unread
    <3>3. Closed(S, Unread)
      <4>1. \A e \in Unread : e \in found \/ e \in Unread'
        BY <1>6, <3>2 DEF Unread
      <4> QED
        BY <2>9, <3>1, <4>1 DEF Closed
    <3> QED
      BY <1>1, <1>7, <2>1, <2>9, <3>1, <3>3 DEF TraceInv, TraceCollects
  <2>10. Cardinality(visited) <= MaxTraceNodes
    <3>1. batch \cup trace.visited = visited
      OBVIOUS
    <3>2. ~(Cardinality(visited) > MaxTraceNodes)
      BY <1>10, <3>1 DEF TooMany
    <3> QED
      BY <1>8, <3>2, TraceBounds
  <2>11. TraceCollects'
    <3>1. CableEdge(trace.cable)' = cable
      <4>1. trace'.cable = trace.cable /\ cables' = cables
        BY <1>1, <2>1 DEF vars
      <4> QED
        BY <4>1 DEF CableEdge
    <3>2. TracedEnds' \subseteq Reached'
      BY <1>1, <1>7, <2>2, <2>4 DEF TraceInv, TraceCollects
    <3> DEFINE ends == cable.ends
    <3>3. /\ TracedEnds' = ends /\ trace'.visited = visited
          /\ ends \cap visited # {} => cable \in trace'.edges
          /\ \A S \in SUBSET Ports : ends \subseteq S /\ Closed(S, trace'.edges) => Reached' \subseteq S
          /\ \A S \in SUBSET Ports : ends \subseteq S /\ Closed(S, trace'.edges) /\ Closed(S, Unread')
                => trace'.owed \subseteq S
      BY <2>1, <2>4, <2>6, <2>8, <2>9
    <3>4. Cardinality(trace'.visited) <= MaxTraceNodes
      BY <2>1, <2>10
    <3>5. \A e \in trace'.edges : e.ends \subseteq Reached'
      BY <2>7
    <3>6. (TracedEnds \cap trace.visited # {} => CableEdge(trace.cable) \in trace.edges)'
      BY <3>1, <3>3
    <3> QED
      BY <3>2, <3>3, <3>4, <3>5, <3>6 DEF TraceCollects, Closed
  <2> QED
    BY <1>2, <2>1, <2>5, <2>11 DEF TraceInv, TraceIsAWalk, TraceIsWhole
<1> QED
  BY <1>9, <1>10

(* When a trace has no more ports to visit, the edges it has read are one  *)
(* component with the traced cable in it, and the ports it visited are     *)
(* those of the edges.                                                     *)
LEMMA ReadToTheEnd ==
    ASSUME TraceInv, trace.at = "expand", trace.frontier = {}
    PROVE  LET E == trace.edges
               V == trace.visited
               cable == CableEdge(trace.cable)
           IN /\ cable \in E /\ cable.ends \subseteq Ports /\ TracedEnds = cable.ends
              /\ cable.kind = "cable" /\ cable.id = trace.cable
              /\ V \in SUBSET Ports /\ E \in SUBSET Graph /\ Reached = V
              /\ cable.ends \subseteq V /\ \A e \in E : e.ends \subseteq V
              /\ PlainGraph(E) /\ PortsOf(E) = V /\ Joined(E)
<1>1. /\ Shape /\ TraceReads /\ TraceCollects /\ Stored(trace.cable)
      /\ trace.at = "expand" /\ trace.frontier = {} /\ trace.cable \in Cables
  BY DEF TraceInv, TraceReads
<1> DEFINE c == trace.cable
           E == trace.edges
           V == trace.visited
           cable == CableEdge(c)
<1>2. /\ cable \in Graph /\ cable.ends = {cables[c].a, cables[c].b} /\ TracedEnds = cable.ends
      /\ cable.ends \subseteq Ports /\ cable.kind = "cable" /\ cable.id = c
  BY <1>1, CableIsAnEdge DEF TracedEnds
<1>3. /\ V \in SUBSET Ports /\ E \in SUBSET Graph /\ Reached = V
      /\ cable.ends \subseteq V /\ \A e \in E : e.ends \subseteq V
  BY <1>1, <1>2 DEF TraceReads, TraceCollects, Reached
<1>4. cable \in E
  BY <1>1, <1>2, <1>3 DEF TraceCollects
<1>5. PlainGraph(E)
  BY <1>1, <1>3, GraphIsPlain, PartIsPlain
<1>6. ASSUME NEW S \in SUBSET Ports, Closed(S, E), cable.ends \subseteq S
      PROVE  V \subseteq S
  BY <1>1, <1>2, <1>3, <1>6 DEF TraceCollects
<1>7. PortsOf(E) = V
  <2>1. PortsOf(E) \subseteq V
    BY <1>3 DEF PortsOf
  <2>2. PortsOf(E) \in SUBSET Ports /\ Closed(PortsOf(E), E) /\ cable.ends \subseteq PortsOf(E)
    BY <1>3, <1>4, <2>1 DEF PortsOf, Closed
  <2> QED
    BY <1>6, <2>1, <2>2
<1>8. Joined(E)
  <2> SUFFICES ASSUME NEW S \in SUBSET Ports, S \cap PortsOf(E) # {}, Closed(S, E)
               PROVE  PortsOf(E) \subseteq S
    BY DEF Joined
  <2>1. CASE cable.ends \cap S # {}
    BY <1>4, <1>6, <1>7, <2>1 DEF Closed
  <2>2. CASE cable.ends \cap S = {}
    <3>1. Closed(V \ S, E) /\ V \ S \in SUBSET Ports /\ cable.ends \subseteq V \ S
      BY <1>3, <2>2 DEF Closed
    <3> QED
      BY <1>6, <1>7, <3>1
  <2> QED
    BY <2>1, <2>2
<1> QED
  BY <1>2, <1>3, <1>4, <1>5, <1>7, <1>8

LEMMA AnswerStep ==
    ASSUME TraceInv, Answer
    PROVE  TraceInv'
<1>1. /\ Shape /\ TraceReads /\ TraceCollects /\ UNCHANGED vars /\ Stored(trace.cable)
      /\ trace.at = "expand" /\ trace.frontier = {} /\ trace.cable \in Cables
  BY DEF TraceInv, TraceReads, Answer
<1>2. Shape' /\ Graph' = Graph
  <2>1. Shape'
    BY <1>1, ShapeStep
  <2> QED
    BY <1>1, <2>1 DEF vars, Graph, CableEdges, CableEdge, MappingEdges, MappingEdge, Stored
<1> DEFINE c == trace.cable
           E == trace.edges
           V == trace.visited
           cable == CableEdge(c)
<1>3. PICK starts \in Starts(E) :
         \E w \in IF LongestWalks(starts, E, c) = {} THEN {Selected(c)}
                  ELSE LongestWalks(starts, E, c) :
              trace' = [trace EXCEPT !.at = "done", !.nodes = w.nodes, !.hops = w.hops]
  BY DEF Answer
<1>4. /\ cable \in E /\ cable.ends \subseteq Ports /\ TracedEnds = cable.ends
      /\ cable.kind = "cable" /\ cable.id = c
      /\ V \in SUBSET Ports /\ E \in SUBSET Graph /\ Reached = V
      /\ cable.ends \subseteq V /\ \A e \in E : e.ends \subseteq V
      /\ PlainGraph(E) /\ PortsOf(E) = V /\ Joined(E)
  BY <1>1, ReadToTheEnd
<1>5. /\ LongestWalks(starts, E, c) # {}
       /\ \A w \in LongestWalks(starts, E, c) :
             /\ Nodes(w) = PortsOf(E) /\ IsWalk(w) /\ Contains(w, c)
             /\ \A n \in DOMAIN w.hops : w.hops[n] \in E
  BY <1>4, AnswersCover
<1>6. PICK w \in LongestWalks(starts, E, c) :
          trace' = [trace EXCEPT !.at = "done", !.nodes = w.nodes, !.hops = w.hops]
  BY <1>3, <1>5
<1>7. /\ trace'.at = "done" /\ trace'.cable = c /\ trace'.nodes = w.nodes
       /\ trace'.hops = w.hops /\ trace'.owed = trace.owed /\ trace'.visited = V
       /\ trace'.frontier = trace.frontier /\ trace'.edges = E
  BY <1>1, <1>6
<1>8. TraceReads'
  BY <1>1, <1>2, <1>7 DEF TraceReads, vars, Stored
<1>9. TraceIsAWalk'
  <2>1. IsWalk(w) /\ Contains(w, c) /\ \A n \in DOMAIN w.hops : w.hops[n] \in Graph'
    BY <1>2, <1>4, <1>5
  <2>2. Contains(trace, trace.cable)'
    BY <1>7, <2>1 DEF Contains
  <2> QED
    BY <1>7, <2>1, <2>2 DEF TraceIsAWalk, IsWalk, Graph
<1>10. trace.owed \subseteq V /\ Cardinality(trace.owed) <= MaxTraceNodes
  <2>1. Closed(V, E) /\ Closed(V, Unread)
    BY <1>4 DEF Closed, Unread
  <2>2. trace.owed \subseteq V
    BY <1>1, <1>4, <2>1 DEF TraceCollects
  <2>3. IsFiniteSet(V) /\ Cardinality(V) \in Nat
    BY <1>4, GraphIsFinite, FS_Subset, FS_CardinalityType
  <2>4. Cardinality(trace.owed) <= Cardinality(V) /\ Cardinality(trace.owed) \in Nat
    BY <2>2, <2>3, FS_Subset, FS_CardinalityType
  <2>5. Cardinality(V) <= MaxTraceNodes
    BY <1>1 DEF TraceCollects
  <2> QED
    BY <2>2, <2>3, <2>4, <2>5, TraceBounds
<1>11. TraceIsWhole'
  <2>1. Nodes(w) = V
    BY <1>4, <1>5
  <2>2. Nodes(trace)' = V
    BY <1>7, <2>1 DEF Nodes
  <2> QED
    BY <1>7, <1>10, <2>2 DEF TraceIsWhole
<1>12. TraceCollects'
  BY <1>7 DEF TraceCollects
<1> QED
  BY <1>2, <1>8, <1>9, <1>11, <1>12 DEF TraceInv

LEMMA TraceInvStep == TraceInv /\ [TraceNext]_allVars => TraceInv'
<1> SUFFICES ASSUME TraceInv, [TraceNext]_allVars
             PROVE  TraceInv'
  OBVIOUS
<1>1. CASE Next /\ UNCHANGED trace
  BY <1>1, CablesStep
<1>2. CASE \E c \in Cables : BeginTrace(c)
  BY <1>2, BeginTraceStep
<1>3. CASE Expand
  BY <1>3, ExpandStep
<1>4. CASE Answer
  BY <1>4, AnswerStep
<1>5. CASE UNCHANGED allVars
  BY <1>5, CablesStep DEF allVars, vars
<1> QED
  BY <1>1, <1>2, <1>3, <1>4, <1>5 DEF TraceNext

LEMMA TraceInvariant == TraceSpec => []TraceInv
<1>1. TraceInit => TraceInv
  BY TraceInvInit
<1>2. TraceInv /\ [TraceNext]_allVars => TraceInv'
  BY TraceInvStep
<1> QED
  BY <1>1, <1>2, PTL DEF TraceSpec

(* However many cables are created while it runs, a trace answers with a   *)
(* walk over committed cables and mappings that visits no port twice and   *)
(* contains the traced cable (_longest_path_containing_cable).             *)
THEOREM TracesAreWalks == TraceSpec => []TraceIsAWalk
<1>1. TraceInv => TraceIsAWalk
  BY DEF TraceInv
<1> QED
  BY <1>1, TraceInvariant, PTL

(* A trace visits every port that was connected to its cable when it began,*)
(* on lines and on rings, and is refused only when more than MAX_TRACE_    *)
(* NODES ports are connected (_expand_graph, trace_cable).                 *)
THEOREM TracesAreWhole == TraceSpec => []TraceIsWhole
<1>1. TraceInv => TraceIsWhole
  BY DEF TraceInv
<1> QED
  BY <1>1, TraceInvariant, PTL

(* At every moment of every trace, the recursion of dfs comes by every walk*)
(* over the edges read so far that begins at its port, and by nothing else *)
(* (_longest_path_containing_cable).                                       *)
THEOREM SearchesFindEveryWalk ==
    TraceSpec => [](\A p \in Ports : Dfs(trace.edges)[Start(p)] = Walks(p, trace.edges))
<1>1. TraceInv => \A p \in Ports : Dfs(trace.edges)[Start(p)] = Walks(p, trace.edges)
  <2> SUFFICES ASSUME TraceInv
               PROVE  \A p \in Ports : Dfs(trace.edges)[Start(p)] = Walks(p, trace.edges)
    OBVIOUS
  <2>1. PlainGraph(trace.edges)
    BY GraphIsPlain, PartIsPlain DEF TraceInv, TraceReads
  <2> QED
    BY <2>1, DfsVisitsWalks
<1> QED
  BY <1>1, TraceInvariant, PTL

----------------------------------------------------------------------------
(* A trace runs out of ports                                               *)

(* What is queued has not been visited.                                    *)
QueueIsNew == trace.at = "expand" => trace.frontier \cap trace.visited = {}

(* A trace that goes on after a step has visited ports it had not visited, *)
(* and still none but existing ones: it takes no more steps than there are *)
(* ports, and one to answer.                                               *)
GetsOn ==
    trace.at = "expand" /\ trace' # trace =>
        \/ trace'.at \in {"done", "refused"}
        \/ /\ trace'.at = "expand" /\ trace'.cable = trace.cable
           /\ Cardinality(trace.visited) < Cardinality(trace'.visited)
           /\ Cardinality(trace'.visited) <= Cardinality(Ports)

LEMMA ExpandGetsOn ==
    ASSUME TraceInv, QueueIsNew, Expand
    PROVE  GetsOn /\ QueueIsNew'
<1>1. PICK batch \in Batch(trace.frontier) :
         LET visited == trace.visited \cup batch
             found == Touching(batch)
         IN trace' = IF TooMany(batch, trace.visited)
                     THEN [trace EXCEPT !.at = "refused"]
                     ELSE [trace EXCEPT !.visited = visited,
                                        !.edges = @ \cup found,
                                        !.frontier = (@ \ batch) \cup Unseen(found, visited)]
  BY DEF Expand
<1> DEFINE visited == trace.visited \cup batch
           found == Touching(batch)
<1>2. /\ trace.at = "expand" /\ trace.frontier # {} /\ trace.frontier \in SUBSET Ports
      /\ trace.visited \in SUBSET Ports /\ trace.frontier \cap trace.visited = {}
      /\ IsFiniteSet(Ports) /\ batch \subseteq trace.frontier
  BY GraphIsFinite DEF Expand, TraceInv, TraceReads, QueueIsNew, Batch
<1>3. batch # {} /\ batch \cap trace.visited = {}
  BY <1>2, FS_EmptySet, TraceBounds DEF Batch
<1>4. /\ visited \in SUBSET Ports /\ trace.visited # visited /\ trace.visited \subseteq visited
      /\ IsFiniteSet(visited)
  BY <1>2, <1>3, FS_Subset
<1>5. CASE TooMany(batch, trace.visited)
  <2>1. trace' = [trace EXCEPT !.at = "refused"]
    BY <1>1, <1>5
  <2>2. trace'.at = "refused"
    BY <2>1
  <2> QED
    BY <2>2 DEF GetsOn, QueueIsNew
<1>6. CASE ~TooMany(batch, trace.visited)
  <2>1. /\ trace'.at = "expand" /\ trace'.cable = trace.cable /\ trace'.visited = visited
        /\ trace'.frontier = (trace.frontier \ batch) \cup Unseen(found, visited)
    BY <1>1, <1>2, <1>6
  <2>2. Cardinality(trace.visited) < Cardinality(visited)
    BY <1>4, FS_Subset, FS_CardinalityType
  <2>3. Cardinality(visited) <= Cardinality(Ports)
    BY <1>2, <1>4, FS_Subset
  <2>4. trace'.frontier \cap visited = {}
    BY <1>2, <2>1 DEF Unseen
  <2> QED
    BY <2>1, <2>2, <2>3, <2>4 DEF GetsOn, QueueIsNew
<1> QED
  BY <1>5, <1>6

(* Loops of cables and lanes do not keep a trace busy: each batch visits   *)
(* ports not visited before, of which there are no more than Ports         *)
(* (_expand_graph).                                                        *)
THEOREM TracesGetOn == TraceSpec => [][GetsOn]_allVars
<1>1. TraceInit => QueueIsNew
  BY DEF TraceInit, NoTrace, QueueIsNew
<1>2. TraceInv /\ QueueIsNew /\ [TraceNext]_allVars => QueueIsNew' /\ [GetsOn]_allVars
  <2> SUFFICES ASSUME TraceInv, QueueIsNew, [TraceNext]_allVars
               PROVE  QueueIsNew' /\ GetsOn
    OBVIOUS
  <2>1. CASE UNCHANGED trace
    BY <2>1 DEF QueueIsNew, GetsOn
  <2>2. ASSUME NEW c \in Cables, BeginTrace(c)
        PROVE  QueueIsNew' /\ GetsOn
    <3>1. trace.at # "expand" /\ trace'.visited = {}
      BY <2>2 DEF BeginTrace, NoTrace
    <3> QED
      BY <3>1 DEF QueueIsNew, GetsOn
  <2>3. CASE Answer
    <3>1. trace'.at = "done"
      <4>1. PICK ns, hs : trace' = [trace EXCEPT !.at = "done", !.nodes = ns, !.hops = hs]
        BY <2>3 DEF Answer
      <4> QED
        BY <4>1 DEF TraceInv
    <3> QED
      BY <3>1 DEF QueueIsNew, GetsOn
  <2> QED
    BY <2>1, <2>2, <2>3, ExpandGetsOn DEF TraceNext, allVars
<1> QED
  BY <1>1, <1>2, TraceInvariant, PTL DEF TraceSpec

(* A set has subsets of every size up to its own.                          *)
LEMMA SubsetOfSize ==
    ASSUME NEW S, IsFiniteSet(S), NEW k \in Nat, k <= Cardinality(S)
    PROVE  \E B \in SUBSET S : Cardinality(B) = k
<1> DEFINE Small == { B \in SUBSET S : Cardinality(B) <= k }
           Sizes == { Cardinality(B) : B \in Small }
<1>1. \A B \in SUBSET S : IsFiniteSet(B) /\ Cardinality(B) \in Nat
  BY FS_Subset, FS_CardinalityType
<1>2. Sizes \in SUBSET Nat /\ Sizes # {} /\ \A n \in Sizes : n <= k
  <2>1. {} \in Small
    BY FS_EmptySet
  <2> QED
    BY <1>1, <2>1
<1>3. PICK n \in Sizes : \A m \in Sizes : m <= n
  <2> HIDE DEF Sizes
  <2> QED
    BY <1>2, GreatestNumber
<1>4. PICK B \in Small : Cardinality(B) = n
  OBVIOUS
<1>5. SUFFICES ASSUME n # k
               PROVE  FALSE
  BY <1>4
<1>6. n < k /\ n \in Nat
  BY <1>2, <1>5
<1>7. PICK x \in S : x \notin B
  <2>1. B # S
    BY <1>1, <1>4, <1>6, FS_CardinalityType
  <2> QED
    BY <2>1
<1>8. Cardinality(B \cup {x}) = n + 1
  BY <1>1, <1>4, <1>7, FS_AddElement
<1>9. n + 1 \in Sizes
  BY <1>6, <1>7, <1>8
<1> QED
  BY <1>3, <1>6, <1>9

(* A trace under way has a batch to read, or ports to search from.         *)
HasANextStep ==
    trace.at = "expand" =>
        \/ trace.frontier # {} /\ Batch(trace.frontier) # {}
        \/ /\ trace.frontier = {}
           /\ \E starts \in Starts(trace.edges) :
                 LongestWalks(starts, trace.edges, trace.cable) # {}

(* No trace stops halfway: until it answers there is a batch to read or a  *)
(* walk with the traced cable to answer with, so that the fallback to the  *)
(* cable alone is never needed (_longest_path_containing_cable,            *)
(* trace_cable).                                                           *)
THEOREM TracesAreNeverStuck == TraceSpec => []HasANextStep
<1>1. ASSUME TraceInv, trace.at = "expand", trace.frontier # {}
      PROVE  Batch(trace.frontier) # {}
  <2> DEFINE F == trace.frontier
  <2>1. F \in SUBSET Ports /\ IsFiniteSet(F) /\ Cardinality(F) \in Nat
    BY <1>1, GraphIsFinite, FS_Subset, FS_CardinalityType DEF TraceInv, TraceReads
  <2>2. CASE Cardinality(F) < BatchSize
    BY <2>2 DEF Batch
  <2>3. CASE BatchSize <= Cardinality(F)
    <3>1. PICK B \in SUBSET F : Cardinality(B) = BatchSize
      BY <2>1, <2>3, SubsetOfSize, TraceBounds
    <3> QED
      BY <3>1 DEF Batch
  <2> QED
    BY <2>1, <2>2, <2>3, TraceBounds
<1>2. ASSUME TraceInv, trace.at = "expand", trace.frontier = {}
      PROVE  \E starts \in Starts(trace.edges) :
                LongestWalks(starts, trace.edges, trace.cable) # {}
  <2> DEFINE E == trace.edges
             cable == CableEdge(trace.cable)
  <2>1. /\ cable \in E /\ cable.kind = "cable" /\ cable.id = trace.cable
        /\ PlainGraph(E) /\ Joined(E)
    BY <1>2, ReadToTheEnd
  <2> HIDE DEF cable, E
  <2>2. PortsOf(E) # {}
    BY <2>1 DEF PlainGraph, PortsOf
  <2>3. PICK starts : starts \in Starts(E)
    BY <2>2 DEF Starts, PortsOf
  <2>4. LongestWalks(starts, E, trace.cable) # {}
    BY <2>1, <2>3, AnswersCover
  <2> QED
    BY <2>3, <2>4 DEF E
<1>3. TraceInv => HasANextStep
  BY <1>1, <1>2 DEF HasANextStep
<1> QED
  BY <1>3, TraceInvariant, PTL

=============================================================================
