------------------------ MODULE RackPlacementProofs ------------------------
(* What holds of RackPlacement for any racks, templates and blueprints and *)
(* any number of request threads.                                          *)
EXTENDS RackPlacement, FiniteSetTheorems, FunctionTheorems, TLAPS

----------------------------------------------------------------------------
(* The inductive invariant.  A request that is about to insert holds what  *)
(* its checks established: rack and template cannot have changed, and the  *)
(* devices it saw are still there.                                         *)

ReservedInside == \A k \in Racks : racks[k].reserved \subseteq 1 .. racks[k].height

FitsRack(k, t, start) ==
    /\ k \in Racks /\ t \in Templates
    /\ Built(k) /\ Designed(t)
    /\ 1 <= start /\ start + templates[t].units - 1 <= racks[k].height
    /\ Span(start, templates[t].units) \cap racks[k].reserved = {}

InsertFits ==
    \A r \in Requests : req[r].at = "insert" =>
        /\ req[r].identifier \in Identifiers
        /\ FitsRack(req[r].rack, req[r].template, req[r].start)

InsertClear ==
    \A r \in Requests : req[r].at = "insert" =>
        \A j \in req[r].seen :
            /\ Placed(j)
            /\ ~Overlaps(j, req[r].rack, req[r].face, req[r].start,
                         templates[req[r].template].units)

CountFits ==
    \A r \in Requests : req[r].at = "count" =>
        /\ req[r].rack \in Racks /\ Built(req[r].rack)
        /\ \A i \in req[r].seen : devices[i].rack = req[r].rack

DeviceFits ==
    \A i \in Identifiers : Placed(i) =>
        /\ FitsRack(devices[i].rack, devices[i].template, devices[i].start)
        /\ devices[i].units = templates[devices[i].template].units
        /\ devices[i].ports = PortsOf(templates[devices[i].template].blueprint)
        /\ ~NamesClash(devices[i].ports)

Shape == TypeOK /\ ReservedInside /\ InsertFits /\ InsertClear /\ CountFits /\ DeviceFits

----------------------------------------------------------------------------
(* Spans and blueprints                                                    *)

(* Two runs of units that share one are found by the select's two          *)
(* comparisons of their ends (infrastructure.py 184-187).                  *)
LEMMA SharedUnitMeansEndsCross ==
    ASSUME NEW a \in Int, NEW m \in Int, NEW b \in Int, NEW n \in Int,
           Span(a, m) \cap Span(b, n) # {}
    PROVE  a <= b + n - 1 /\ a + m - 1 >= b
BY DEF Span

LEMMA BlueprintIsSeq ==
    ASSUME NEW blueprint \in Blueprints \cup {<<>>}
    PROVE  blueprint \in Seq(BlueprintRow)
<1>1. CASE blueprint \in Blueprints
  BY <1>1, BlueprintsAreRows
<1>2. CASE blueprint = <<>>
  BY <1>2
<1> QED
  BY <1>1, <1>2

LEMMA PortsAreRows ==
    ASSUME NEW blueprint \in Blueprints \cup {<<>>}
    PROVE  PortsOf(blueprint) \in SUBSET PortRow
<1>1. blueprint \in Seq(BlueprintRow)
  BY BlueprintIsSeq
<1>2. ASSUME NEW b \in DOMAIN blueprint, NEW n \in Span(blueprint[b].start, blueprint[b].count)
      PROVE  [prefix |-> blueprint[b].prefix, number |-> n, face |-> blueprint[b].face,
              key |-> blueprint[b].key, row |-> b] \in PortRow
  <2>1. blueprint[b] \in BlueprintRow /\ b \in Nat
    BY <1>1
  <2> QED
    BY <2>1 DEF BlueprintRow, PortRow, Span
<1> QED
  BY <1>2 DEF PortsOf

LEMMA PortsAreFinite ==
    ASSUME NEW blueprint \in Blueprints \cup {<<>>}
    PROVE  IsFiniteSet(PortsOf(blueprint))
<1> DEFINE Port(b, n) == [prefix |-> blueprint[b].prefix, number |-> n,
                          face |-> blueprint[b].face, key |-> blueprint[b].key, row |-> b]
           Numbers(b) == Span(blueprint[b].start, blueprint[b].count)
           Row(b) == { Port(b, n) : n \in Numbers(b) }
           Rows == { Row(b) : b \in DOMAIN blueprint }
<1>1. blueprint \in Seq(BlueprintRow)
  BY BlueprintIsSeq
<1>2. ASSUME NEW b \in DOMAIN blueprint
      PROVE  IsFiniteSet(Row(b))
  <2>1. blueprint[b].start \in Int /\ blueprint[b].count \in Int
    <3>1. blueprint[b] \in BlueprintRow
      BY <1>1
    <3> QED
      BY <3>1 DEF BlueprintRow
  <2>2. IsFiniteSet(Numbers(b))
    BY <2>1, FS_Interval DEF Span
  <2> DEFINE f == [n \in Numbers(b) |-> Port(b, n)]
  <2>3. f \in [Numbers(b) -> Row(b)] /\ \A p \in Row(b) : \E n \in Numbers(b) : f[n] = p
    OBVIOUS
  <2>4. f \in Surjection(Numbers(b), Row(b))
    <3> HIDE DEF f, Numbers, Row
    <3> QED
      BY <2>3, Fun_IsSurj
  <2> QED
    <3> HIDE DEF f, Numbers, Row
    <3> QED
      BY <2>2, <2>4, FS_Surjection
<1>3. IsFiniteSet(Rows)
  <2> DEFINE g == [b \in DOMAIN blueprint |-> Row(b)]
  <2>1. IsFiniteSet(DOMAIN blueprint)
    <3>1. DOMAIN blueprint = 1 .. Len(blueprint) /\ Len(blueprint) \in Int
      BY <1>1
    <3> QED
      BY <3>1, FS_Interval
  <2> HIDE DEF Row
  <2>2. g \in [DOMAIN blueprint -> Rows] /\ \A R \in Rows : \E b \in DOMAIN blueprint : g[b] = R
    OBVIOUS
  <2>3. g \in Surjection(DOMAIN blueprint, Rows)
    <3> HIDE DEF g, Rows
    <3> QED
      BY <2>2, Fun_IsSurj
  <2> HIDE DEF g, Rows
  <2> QED
    BY <2>1, <2>3, FS_Surjection
<1>4. \A R \in Rows : IsFiniteSet(R)
  <2> HIDE DEF Row
  <2> QED
    BY <1>2
<1>5. PortsOf(blueprint) = UNION Rows
  BY DEF PortsOf
<1> HIDE DEF Rows
<1> QED
  BY <1>3, <1>4, <1>5, FS_UNION

LEMMA NewDeviceIsRow ==
    ASSUME TypeOK, InsertFits, NEW r \in Requests, req[r].at = "insert"
    PROVE  NewDevice(req[r]) \in DeviceRow
<1>1. req[r] \in Request /\ templates[req[r].template] \in TemplateRow
  BY DEF TypeOK, InsertFits, FitsRack
<1> DEFINE ports == PortsOf(templates[req[r].template].blueprint)
<1>2. ports \in SUBSET PortRow
  BY <1>1, PortsAreRows DEF TemplateRow
<1>3. MappingsOf(ports) \in SUBSET (PortRow \X PortRow)
  BY <1>2 DEF MappingsOf
<1>4. /\ req[r].rack \in Racks /\ req[r].template \in Templates
      /\ req[r].start \in Int /\ req[r].face \in Faces \cup {None}
      /\ templates[req[r].template].units \in Nat
  BY <1>1, BoundsAreSizes DEF InsertFits, FitsRack, Request, TemplateRow
<1> HIDE DEF ports
<1> QED
  BY <1>2, <1>3, <1>4 DEF NewDevice, DeviceRow, ports

----------------------------------------------------------------------------
(* The answer of an elevation                                              *)

LEMMA FirstUnits ==
    ASSUME NEW n \in Nat
    PROVE  IsFiniteSet(1 .. n) /\ Cardinality(1 .. n) = n
<1>1. IsFiniteSet(1 .. n) /\ Cardinality(1 .. n) = IF 1 > n THEN 0 ELSE n - 1 + 1
  BY FS_Interval
<1> QED
  BY <1>1

(* Devices that fit leave the units of their rack divided into used,       *)
(* reserved and free ones.                                                 *)
LEMMA AnswerAddsUp ==
    ASSUME Shape, NEW k \in Racks, NEW seen \in SUBSET Identifiers,
           \A i \in seen : devices[i].rack = k
    PROVE  LET a == Answer(k, seen) IN
           /\ a \in Elevation
           /\ a.reserved = Cardinality(racks[k].reserved)
           /\ a.free \in 0 .. racks[k].height
           /\ a.used + a.reserved + a.free = racks[k].height
           /\ \A i \in seen :
                 a.ports[i] = Cardinality(PortsOf(templates[devices[i].template].blueprint))
<1> DEFINE used == UsedUnits(seen)
           reserved == racks[k].reserved
           height == racks[k].height
<1>1. height \in Nat /\ reserved \subseteq 1 .. height
  BY BoundsAreSizes DEF Shape, TypeOK, RackRow, ReservedInside
<1>2. ASSUME NEW i \in seen
      PROVE  /\ Units(i) \subseteq 1 .. height
             /\ Units(i) \cap reserved = {}
             /\ devices[i].ports = PortsOf(templates[devices[i].template].blueprint)
             /\ IsFiniteSet(devices[i].ports)
  <2>1. i \in Identifiers /\ Placed(i) /\ devices[i].rack = k
    BY NoneIsNoRack DEF Placed
  <2>2. /\ FitsRack(k, devices[i].template, devices[i].start)
        /\ devices[i].units = templates[devices[i].template].units
        /\ devices[i].ports = PortsOf(templates[devices[i].template].blueprint)
    BY <2>1 DEF Shape, DeviceFits
  <2>3. devices[i].start \in Int /\ devices[i].units \in Nat
    BY <2>1 DEF Shape, TypeOK, DeviceRow
  <2>4. templates[devices[i].template].blueprint \in Blueprints \cup {<<>>}
    BY <2>2 DEF FitsRack, Shape, TypeOK, TemplateRow
  <2> QED
    BY <1>1, <2>2, <2>3, <2>4, PortsAreFinite DEF FitsRack, Units, Span
<1>3. used \subseteq 1 .. height /\ used \cap reserved = {}
  BY <1>2 DEF UsedUnits
<1> HIDE DEF used
<1>4. IsFiniteSet(1 .. height) /\ Cardinality(1 .. height) = height
  BY <1>1, FirstUnits
<1>5. /\ IsFiniteSet(used) /\ IsFiniteSet(reserved)
      /\ Cardinality(used \cup reserved) <= height
  <2>1. used \cup reserved \in SUBSET (1 .. height)
    BY <1>1, <1>3
  <2> QED
    BY <1>1, <1>3, <1>4, <2>1, FS_Subset
<1>6. Cardinality(used) \in Nat /\ Cardinality(reserved) \in Nat
  BY <1>5, FS_CardinalityType
<1>7. Cardinality(used \cup reserved) = Cardinality(used) + Cardinality(reserved)
  <2>1. Cardinality(used \cup reserved)
          = Cardinality(used) + Cardinality(reserved) - Cardinality(used \cap reserved)
    BY <1>5, FS_Union
  <2>2. Cardinality(used \cap reserved) = 0
    BY <1>3, FS_EmptySet
  <2> QED
    BY <1>6, <2>1, <2>2
<1>8. reserved \ used = reserved
  BY <1>3
<1> DEFINE counts == [i \in Identifiers |-> IF i \in seen THEN Cardinality(devices[i].ports)
                                            ELSE 0]
<1>9. counts \in [Identifiers -> Nat]
  BY <1>2, FS_CardinalityType
<1>10. Answer(k, seen) = [rack |-> k, seen |-> seen, ports |-> counts,
                          used |-> Cardinality(used), reserved |-> Cardinality(reserved),
                          free |-> height - (Cardinality(used) + Cardinality(reserved))]
  BY <1>7, <1>8 DEF Answer, used
<1>11. \A i \in seen : counts[i] = Cardinality(PortsOf(templates[devices[i].template].blueprint))
  BY <1>2
<1> HIDE DEF counts
<1>12. Answer(k, seen) \in Elevation
  BY <1>1, <1>6, <1>9, <1>10 DEF Elevation
<1> QED
  BY <1>1, <1>5, <1>6, <1>7, <1>10, <1>11, <1>12

----------------------------------------------------------------------------
(* Steps                                                                   *)

(* What a request read stays true of the rows: none of the three tables'   *)
(* rows changes once it is stored.                                         *)
LEMMA RowsAreKept ==
    ASSUME TypeOK, [Next]_vars
    PROVE  /\ \A k \in Racks : Built(k) => racks'[k] = racks[k]
           /\ \A t \in Templates : Designed(t) => templates'[t] = templates[t]
           /\ \A i \in Identifiers : Placed(i) => devices'[i] = devices[i]
<1> DEFINE Kept == /\ \A k \in Racks : Built(k) => racks'[k] = racks[k]
                   /\ \A t \in Templates : Designed(t) => templates'[t] = templates[t]
                   /\ \A i \in Identifiers : Placed(i) => devices'[i] = devices[i]
<1>1. ASSUME NEW k \in Racks, NEW height \in 0 .. MaxHeight + 1,
             NEW reserved \in SUBSET (0 .. MaxHeight + 1), CreateRack(k, height, reserved)
      PROVE  Kept
  BY <1>1 DEF CreateRack, TypeOK
<1>2. ASSUME NEW t \in Templates, NEW units \in 0 .. MaxUnits + 1,
             NEW blueprint \in Blueprints, CreateTemplate(t, units, blueprint)
      PROVE  Kept
  BY <1>2 DEF CreateTemplate, TypeOK
<1>3. ASSUME NEW r \in Requests, CommitDevice(r)
      PROVE  Kept
  BY <1>3 DEF CommitDevice, Insertable, TypeOK
<1>4. ASSUME UNCHANGED <<racks, templates, devices>>
      PROVE  Kept
  BY <1>4
<1>5. ASSUME NEW r \in Requests, NEW i \in Identifiers, NEW k \in Racks, NEW t \in Templates,
             NEW start \in 0 .. MaxHeight, NEW face \in Faces,
             BeginDevice(r, i, k, t, start, face)
      PROVE  UNCHANGED <<racks, templates, devices>>
  BY <1>5 DEF BeginDevice
<1>6. ASSUME NEW r \in Requests,
             \/ RejectDevice(r) \/ (\E k \in Racks : BeginElevation(r, k))
             \/ ShowElevation(r) \/ Abort(r)
      PROVE  UNCHANGED <<racks, templates, devices>>
  BY <1>6 DEF RejectDevice, BeginElevation, ShowElevation, Abort
<1>7. UNCHANGED vars => UNCHANGED <<racks, templates, devices>>
  BY DEF vars
<1> HIDE DEF Kept
<1>8. Kept
  BY <1>1, <1>2, <1>3, <1>4, <1>5, <1>6, <1>7 DEF Next
<1> QED
  BY <1>8 DEF Kept

(* A request keeps what it holds, ends, or passes its checks.              *)
LEMMA RequestStep ==
    ASSUME TypeOK, [Next]_vars, NEW r \in Requests
    PROVE  \/ req'[r] = req[r]
           \/ req'[r] = Idle
           \/ \E i \in Identifiers, k \in Racks, t \in Templates,
                 start \in 0 .. MaxHeight, face \in Faces :
                   BeginDevice(r, i, k, t, start, face)
           \/ \E k \in Racks : BeginElevation(r, k)
<1> DEFINE Begins == \/ \E i \in Identifiers, k \in Racks, t \in Templates,
                          start \in 0 .. MaxHeight, face \in Faces :
                            BeginDevice(r, i, k, t, start, face)
                     \/ \E k \in Racks : BeginElevation(r, k)
           Moves == req'[r] = req[r] \/ req'[r] = Idle \/ Begins
<1>1. ASSUME NEW q \in Requests, CommitDevice(q) \/ RejectDevice(q) \/ ShowElevation(q) \/ Abort(q)
      PROVE  Moves
  BY <1>1 DEF CommitDevice, RejectDevice, ShowElevation, Abort, TypeOK
<1>2. ASSUME NEW q \in Requests, NEW i \in Identifiers, NEW k \in Racks, NEW t \in Templates,
             NEW start \in 0 .. MaxHeight, NEW face \in Faces,
             BeginDevice(q, i, k, t, start, face)
      PROVE  Moves
  <2>1. CASE q = r
    BY <1>2, <2>1
  <2>2. CASE q # r
    BY <1>2, <2>2 DEF BeginDevice, TypeOK
  <2> QED
    BY <2>1, <2>2
<1>3. ASSUME NEW q \in Requests, NEW k \in Racks, BeginElevation(q, k)
      PROVE  Moves
  <2>1. CASE q = r
    BY <1>3, <2>1
  <2>2. CASE q # r
    BY <1>3, <2>2 DEF BeginElevation, TypeOK
  <2> QED
    BY <2>1, <2>2
<1>4. ASSUME UNCHANGED req
      PROVE  Moves
  BY <1>4
<1>5. ASSUME NEW k \in Racks, NEW height \in 0 .. MaxHeight + 1,
             NEW reserved \in SUBSET (0 .. MaxHeight + 1), CreateRack(k, height, reserved)
      PROVE  UNCHANGED req
  BY <1>5 DEF CreateRack
<1>6. ASSUME NEW t \in Templates, NEW units \in 0 .. MaxUnits + 1,
             NEW blueprint \in Blueprints, CreateTemplate(t, units, blueprint)
      PROVE  UNCHANGED req
  BY <1>6 DEF CreateTemplate
<1>7. UNCHANGED vars => UNCHANGED req
  BY DEF vars
<1> HIDE DEF Moves
<1>8. Moves
  BY <1>1, <1>2, <1>3, <1>4, <1>5, <1>6, <1>7 DEF Next
<1> QED
  BY <1>8 DEF Moves

LEMMA InsertStep ==
    ASSUME Shape, [Next]_vars
    PROVE  InsertFits' /\ InsertClear'
<1> SUFFICES ASSUME NEW r \in Requests, req'[r].at = "insert"
             PROVE  /\ req'[r].identifier \in Identifiers
                    /\ FitsRack(req[r].rack, req[r].template, req[r].start)'
                    /\ \A j \in req'[r].seen :
                          /\ Placed(j)'
                          /\ ~Overlaps(j, req[r].rack, req[r].face, req[r].start,
                                       templates[req[r].template].units)'
  BY DEF InsertFits, InsertClear
<1>1. TypeOK /\ req[r] \in Request
  BY DEF Shape, TypeOK
<1>2. CASE req'[r] = req[r]
  <2> DEFINE q == req[r]
  <2>1. /\ q.identifier \in Identifiers
        /\ FitsRack(q.rack, q.template, q.start)
        /\ \A j \in q.seen : /\ j \in Identifiers /\ Placed(j)
                             /\ ~Overlaps(j, q.rack, q.face, q.start, templates[q.template].units)
    BY <1>1, <1>2 DEF Shape, InsertFits, InsertClear, Request
  <2>2. racks'[q.rack] = racks[q.rack] /\ templates'[q.template] = templates[q.template]
    BY <1>1, <2>1, RowsAreKept DEF FitsRack
  <2>3. \A j \in q.seen : devices'[j] = devices[j]
    BY <1>1, <2>1, RowsAreKept
  <2> QED
    BY <1>2, <2>1, <2>2, <2>3 DEF FitsRack, Built, Designed, Placed, Overlaps, Span
<1>3. ASSUME NEW i \in Identifiers, NEW k \in Racks, NEW t \in Templates,
             NEW start \in 0 .. MaxHeight, NEW face \in Faces,
             BeginDevice(r, i, k, t, start, face)
      PROVE  /\ req'[r].identifier \in Identifiers
             /\ FitsRack(req[r].rack, req[r].template, req[r].start)'
             /\ \A j \in req'[r].seen :
                   /\ Placed(j)'
                   /\ ~Overlaps(j, req[r].rack, req[r].face, req[r].start,
                                templates[req[r].template].units)'
  <2>1. /\ req'[r].identifier = i /\ req'[r].rack = k /\ req'[r].template = t
        /\ req'[r].start = start /\ req'[r].face = face
        /\ req'[r].seen = { j \in Identifiers : Placed(j) }
    BY <1>1, <1>3 DEF BeginDevice, TypeOK
  <2>2. UNCHANGED <<racks, templates, devices>>
    BY <1>3 DEF BeginDevice
  <2>3. start \in Int /\ racks[k].height \in Int /\ templates[t].units \in Int
    BY <1>1, BoundsAreSizes DEF TypeOK, RackRow, TemplateRow
  <2>4. FitsRack(k, t, start)
    BY <1>3, <2>3 DEF BeginDevice, FitsRack, Exceeds
  <2>5. \A j \in Identifiers : ~Overlaps(j, k, face, start, templates[t].units)
    BY <1>3 DEF BeginDevice
  <2> QED
    BY <2>1, <2>2, <2>4, <2>5 DEF FitsRack, Built, Designed, Placed, Overlaps, Span
<1>4. ASSUME NEW k \in Racks, BeginElevation(r, k)
      PROVE  FALSE
  BY <1>1, <1>4 DEF BeginElevation, TypeOK
<1>5. req'[r] # Idle
  BY DEF Idle
<1> QED
  BY <1>1, <1>2, <1>3, <1>4, <1>5, RequestStep

LEMMA CountStep ==
    ASSUME Shape, [Next]_vars
    PROVE  CountFits'
<1> SUFFICES ASSUME NEW r \in Requests, req'[r].at = "count"
             PROVE  /\ req'[r].rack \in Racks /\ Built(req[r].rack)'
                    /\ \A i \in req'[r].seen : devices'[i].rack = req'[r].rack
  BY DEF CountFits
<1>1. TypeOK /\ req[r] \in Request
  BY DEF Shape, TypeOK
<1>2. CASE req'[r] = req[r]
  <2>1. /\ req[r].rack \in Racks /\ Built(req[r].rack)
        /\ \A i \in req[r].seen : i \in Identifiers /\ devices[i].rack = req[r].rack
    BY <1>1, <1>2 DEF Shape, CountFits, Request
  <2>2. racks'[req[r].rack] = racks[req[r].rack]
    BY <1>1, <2>1, RowsAreKept
  <2>3. \A i \in req[r].seen : devices'[i] = devices[i]
    BY <1>1, <2>1, RowsAreKept, NoneIsNoRack DEF Placed
  <2> QED
    BY <1>2, <2>1, <2>2, <2>3 DEF Built
<1>3. ASSUME NEW k \in Racks, BeginElevation(r, k)
      PROVE  /\ req'[r].rack \in Racks /\ Built(req[r].rack)'
             /\ \A i \in req'[r].seen : devices'[i].rack = req'[r].rack
  BY <1>1, <1>3 DEF BeginElevation, TypeOK, Built
<1>4. ASSUME NEW i \in Identifiers, NEW k \in Racks, NEW t \in Templates,
             NEW start \in 0 .. MaxHeight, NEW face \in Faces,
             BeginDevice(r, i, k, t, start, face)
      PROVE  FALSE
  BY <1>1, <1>4 DEF BeginDevice, TypeOK
<1>5. req'[r] # Idle
  BY DEF Idle
<1> QED
  BY <1>1, <1>2, <1>3, <1>4, <1>5, RequestStep

(* A device that appears is the one that some request has committed.       *)
LEMMA DeviceStep ==
    ASSUME TypeOK, [Next]_vars, NEW i \in Identifiers
    PROVE  \/ devices'[i] = devices[i]
           \/ \E r \in Requests : CommitDevice(r) /\ req[r].identifier = i
<1> DEFINE Appears == \E r \in Requests : CommitDevice(r) /\ req[r].identifier = i
           Moves == devices'[i] = devices[i] \/ Appears
<1>1. ASSUME NEW r \in Requests, CommitDevice(r)
      PROVE  Moves
  <2>1. CASE req[r].identifier = i
    BY <1>1, <2>1
  <2>2. CASE req[r].identifier # i
    BY <1>1, <2>2 DEF CommitDevice, TypeOK
  <2> QED
    BY <2>1, <2>2
<1>2. ASSUME UNCHANGED devices
      PROVE  Moves
  BY <1>2
<1>3. ASSUME NEW k \in Racks, NEW height \in 0 .. MaxHeight + 1,
             NEW reserved \in SUBSET (0 .. MaxHeight + 1), CreateRack(k, height, reserved)
      PROVE  UNCHANGED devices
  BY <1>3 DEF CreateRack
<1>4. ASSUME NEW t \in Templates, NEW units \in 0 .. MaxUnits + 1,
             NEW blueprint \in Blueprints, CreateTemplate(t, units, blueprint)
      PROVE  UNCHANGED devices
  BY <1>4 DEF CreateTemplate
<1>5. ASSUME NEW r \in Requests, NEW j \in Identifiers, NEW k \in Racks, NEW t \in Templates,
             NEW start \in 0 .. MaxHeight, NEW face \in Faces,
             BeginDevice(r, j, k, t, start, face)
      PROVE  UNCHANGED devices
  BY <1>5 DEF BeginDevice
<1>6. ASSUME NEW r \in Requests,
             \/ RejectDevice(r) \/ (\E k \in Racks : BeginElevation(r, k))
             \/ ShowElevation(r) \/ Abort(r)
      PROVE  UNCHANGED devices
  BY <1>6 DEF RejectDevice, BeginElevation, ShowElevation, Abort
<1>7. UNCHANGED vars => UNCHANGED devices
  BY DEF vars
<1> HIDE DEF Moves
<1>8. Moves
  BY <1>1, <1>2, <1>3, <1>4, <1>5, <1>6, <1>7 DEF Next
<1> QED
  BY <1>8 DEF Moves

LEMMA DeviceFitsStep ==
    ASSUME Shape, [Next]_vars
    PROVE  DeviceFits'
<1> SUFFICES ASSUME NEW i \in Identifiers, Placed(i)'
             PROVE  /\ FitsRack(devices[i].rack, devices[i].template, devices[i].start)'
                    /\ devices'[i].units = templates'[devices'[i].template].units
                    /\ devices'[i].ports = PortsOf(templates[devices[i].template].blueprint)'
                    /\ ~NamesClash(devices[i].ports)'
  BY DEF DeviceFits
<1>1. TypeOK
  BY DEF Shape
<1>2. CASE devices'[i] = devices[i]
  <2> DEFINE d == devices[i]
  <2>1. /\ FitsRack(d.rack, d.template, d.start)
        /\ d.units = templates[d.template].units
        /\ d.ports = PortsOf(templates[d.template].blueprint)
        /\ ~NamesClash(d.ports)
    BY <1>2 DEF Shape, DeviceFits, Placed
  <2>2. racks'[d.rack] = racks[d.rack] /\ templates'[d.template] = templates[d.template]
    BY <1>1, <2>1, RowsAreKept DEF FitsRack
  <2>3. FitsRack(devices[i].rack, devices[i].template, devices[i].start)'
    BY <1>2, <2>1, <2>2 DEF FitsRack, Built, Designed, Span
  <2>4. templates'[devices'[i].template] = templates[d.template]
    BY <1>2, <2>2
  <2>5. PortsOf(templates[devices[i].template].blueprint)' = PortsOf(templates[d.template].blueprint)
    BY <2>4 DEF PortsOf
  <2>6. ~NamesClash(devices[i].ports)'
    BY <1>2, <2>1 DEF NamesClash
  <2> QED
    BY <1>2, <2>1, <2>3, <2>4, <2>5, <2>6
<1>3. ASSUME NEW r \in Requests, CommitDevice(r), req[r].identifier = i
      PROVE  /\ FitsRack(devices[i].rack, devices[i].template, devices[i].start)'
             /\ devices'[i].units = templates'[devices'[i].template].units
             /\ devices'[i].ports = PortsOf(templates[devices[i].template].blueprint)'
             /\ ~NamesClash(devices[i].ports)'
  <2> DEFINE q == req[r]
  <2>1. FitsRack(q.rack, q.template, q.start)
    BY <1>3 DEF CommitDevice, Shape, InsertFits
  <2>2. ~NamesClash(PortsOf(templates[q.template].blueprint))
    BY <1>3 DEF CommitDevice, Insertable
  <2>3. devices'[i] = NewDevice(q) /\ UNCHANGED <<racks, templates>>
    BY <1>1, <1>3 DEF CommitDevice, TypeOK
  <2>4. /\ NewDevice(q).rack = q.rack /\ NewDevice(q).template = q.template
        /\ NewDevice(q).start = q.start
        /\ NewDevice(q).units = templates[q.template].units
        /\ NewDevice(q).ports = PortsOf(templates[q.template].blueprint)
    BY DEF NewDevice
  <2>5. FitsRack(devices[i].rack, devices[i].template, devices[i].start)'
    BY <2>1, <2>3, <2>4 DEF FitsRack, Built, Designed, Span
  <2>6. templates'[devices'[i].template] = templates[q.template]
    BY <2>3, <2>4
  <2>7. PortsOf(templates[devices[i].template].blueprint)' = PortsOf(templates[q.template].blueprint)
    BY <2>6 DEF PortsOf
  <2>8. ~NamesClash(devices[i].ports)'
    BY <2>2, <2>3, <2>4 DEF NamesClash
  <2> QED
    BY <2>3, <2>4, <2>5, <2>6, <2>7, <2>8
<1> QED
  BY <1>1, <1>2, <1>3, DeviceStep

LEMMA ReservedStep ==
    ASSUME Shape, [Next]_vars
    PROVE  ReservedInside'
<1> SUFFICES ASSUME NEW k \in Racks
             PROVE  racks'[k].reserved \subseteq 1 .. racks'[k].height
  BY DEF ReservedInside
<1>1. racks[k].reserved \subseteq 1 .. racks[k].height
  BY DEF Shape, ReservedInside
<1>2. ASSUME NEW j \in Racks, NEW height \in 0 .. MaxHeight + 1,
             NEW reserved \in SUBSET (0 .. MaxHeight + 1), CreateRack(j, height, reserved)
      PROVE  racks'[k].reserved \subseteq 1 .. racks'[k].height
  <2>1. CASE j = k
    <3>1. racks'[k].height = height /\ racks'[k].reserved = reserved
      BY <1>2, <2>1 DEF CreateRack, Shape, TypeOK
    <3>2. reserved \subseteq 1 .. height
      BY <1>2, BoundsAreSizes DEF CreateRack
    <3> QED
      BY <3>1, <3>2
  <2>2. CASE j # k
    BY <1>1, <1>2, <2>2 DEF CreateRack, Shape, TypeOK
  <2> QED
    BY <2>1, <2>2
<1>3. ASSUME NEW t \in Templates, NEW units \in 0 .. MaxUnits + 1,
             NEW blueprint \in Blueprints, CreateTemplate(t, units, blueprint)
      PROVE  UNCHANGED racks
  BY <1>3 DEF CreateTemplate
<1>4. ASSUME NEW r \in Requests, NEW i \in Identifiers, NEW m \in Racks, NEW t \in Templates,
             NEW start \in 0 .. MaxHeight, NEW face \in Faces,
             BeginDevice(r, i, m, t, start, face)
      PROVE  UNCHANGED racks
  BY <1>4 DEF BeginDevice
<1>5. ASSUME NEW r \in Requests,
             \/ CommitDevice(r) \/ RejectDevice(r) \/ (\E m \in Racks : BeginElevation(r, m))
             \/ ShowElevation(r) \/ Abort(r)
      PROVE  UNCHANGED racks
  BY <1>5 DEF CommitDevice, RejectDevice, BeginElevation, ShowElevation, Abort
<1>6. UNCHANGED vars => UNCHANGED racks
  BY DEF vars
<1>7. UNCHANGED racks => racks'[k].reserved \subseteq 1 .. racks'[k].height
  BY <1>1
<1> QED
  BY <1>2, <1>3, <1>4, <1>5, <1>6, <1>7 DEF Next

LEMMA TypeStep ==
    ASSUME Shape, [Next]_vars
    PROVE  TypeOK'
<1> USE DEF Shape
<1>1. Idle \in Request
  BY DEF Idle, Request
<1>2. ASSUME NEW k \in Racks, NEW height \in 0 .. MaxHeight + 1,
             NEW reserved \in SUBSET (0 .. MaxHeight + 1), CreateRack(k, height, reserved)
      PROVE  TypeOK'
  <2>1. [height |-> height, reserved |-> reserved] \in RackRow
    BY <1>2, BoundsAreSizes DEF RackRow, CreateRack
  <2> QED
    BY <1>2, <2>1 DEF CreateRack, TypeOK
<1>3. ASSUME NEW t \in Templates, NEW units \in 0 .. MaxUnits + 1,
             NEW blueprint \in Blueprints, CreateTemplate(t, units, blueprint)
      PROVE  TypeOK'
  <2>1. [units |-> units, blueprint |-> blueprint] \in TemplateRow
    BY <1>3, BoundsAreSizes DEF TemplateRow, CreateTemplate
  <2> QED
    BY <1>3, <2>1 DEF CreateTemplate, TypeOK
<1>4. ASSUME NEW r \in Requests, NEW i \in Identifiers, NEW k \in Racks, NEW t \in Templates,
             NEW start \in 0 .. MaxHeight, NEW face \in Faces,
             BeginDevice(r, i, k, t, start, face)
      PROVE  TypeOK'
  <2>1. [at |-> "insert", identifier |-> i, rack |-> k, template |-> t, start |-> start,
         face |-> face, seen |-> { j \in Identifiers : Placed(j) }] \in Request
    BY DEF Request
  <2> QED
    BY <1>4, <2>1 DEF BeginDevice, TypeOK
<1>5. ASSUME NEW r \in Requests, CommitDevice(r)
      PROVE  TypeOK'
  <2>1. NewDevice(req[r]) \in DeviceRow
    BY <1>5, NewDeviceIsRow DEF CommitDevice
  <2>2. req[r].identifier \in Identifiers
    BY <1>5 DEF CommitDevice, InsertFits
  <2>3. Append(audit, req[r].identifier) \in Seq(Identifiers)
    BY <2>2 DEF TypeOK
  <2> QED
    BY <1>1, <1>5, <2>1, <2>3 DEF CommitDevice, TypeOK
<1>6. ASSUME NEW r \in Requests, RejectDevice(r) \/ Abort(r)
      PROVE  TypeOK'
  BY <1>1, <1>6 DEF RejectDevice, Abort, TypeOK
<1>7. ASSUME NEW r \in Requests, NEW k \in Racks, BeginElevation(r, k)
      PROVE  TypeOK'
  <2>1. [at |-> "count", identifier |-> None, rack |-> k, template |-> None, start |-> 0,
         face |-> None, seen |-> { i \in Identifiers : devices[i].rack = k }] \in Request
    BY DEF Request
  <2> QED
    BY <1>7, <2>1 DEF BeginElevation, TypeOK
<1>8. ASSUME NEW r \in Requests, ShowElevation(r)
      PROVE  TypeOK'
  <2>1. /\ req[r].rack \in Racks /\ req[r].seen \in SUBSET Identifiers
        /\ \A i \in req[r].seen : devices[i].rack = req[r].rack
    BY <1>8 DEF ShowElevation, CountFits, TypeOK, Request
  <2>2. Answer(req[r].rack, req[r].seen) \in Elevation
    BY <2>1, AnswerAddsUp
  <2> QED
    BY <1>1, <1>8, <2>2 DEF ShowElevation, TypeOK
<1>9. UNCHANGED vars => TypeOK'
  BY DEF vars, TypeOK
<1> QED
  BY <1>2, <1>3, <1>4, <1>5, <1>6, <1>7, <1>8, <1>9 DEF Next

LEMMA ShapeInit == Init => Shape
<1> SUFFICES ASSUME Init PROVE Shape
  OBVIOUS
<1>1. NoRack \in RackRow /\ NoTemplate \in TemplateRow
  BY BoundsAreSizes DEF NoRack, NoTemplate, RackRow, TemplateRow
<1>2. NoDevice \in DeviceRow /\ Idle \in Request /\ NoElevation \in Elevation
  BY DEF NoDevice, DeviceRow, Idle, Request, NoElevation, Elevation
<1>3. TypeOK
  BY <1>1, <1>2 DEF Init, TypeOK
<1>4. ReservedInside
  BY DEF Init, ReservedInside, NoRack
<1>5. InsertFits /\ InsertClear /\ CountFits
  BY DEF Init, InsertFits, InsertClear, CountFits, Idle
<1>6. DeviceFits
  BY DEF Init, DeviceFits, Placed, NoDevice
<1> QED
  BY <1>3, <1>4, <1>5, <1>6 DEF Shape

LEMMA ShapeStep == Shape /\ [Next]_vars => Shape'
BY TypeStep, ReservedStep, InsertStep, CountStep, DeviceFitsStep DEF Shape

THEOREM ShapeInvariant == Spec => []Shape
BY ShapeInit, ShapeStep, PTL DEF Spec

----------------------------------------------------------------------------
(* Theorems                                                                *)

(* Every committed row, every request and every answer has its type.       *)
THEOREM TypeCorrect == Spec => []TypeOK
<1>1. Shape => TypeOK
  BY DEF Shape
<1> QED
  BY <1>1, ShapeInvariant, PTL

(* However many requests overlap, a stored device lies inside its rack and *)
(* off the reserved units: racks do not change after they were checked.    *)
THEOREM DevicesStayInside == Spec => []InsideRack
<1>1. Shape => InsideRack
  <2> SUFFICES ASSUME Shape, NEW i \in Identifiers, Placed(i)
               PROVE  Units(i) \subseteq (1 .. racks[devices[i].rack].height)
                                         \ racks[devices[i].rack].reserved
    BY DEF InsideRack
  <2>1. /\ FitsRack(devices[i].rack, devices[i].template, devices[i].start)
        /\ devices[i].units = templates[devices[i].template].units
    BY DEF Shape, DeviceFits
  <2>2. /\ devices[i].start \in Int /\ devices[i].units \in Int
        /\ racks[devices[i].rack].height \in Int
    BY <2>1, BoundsAreSizes DEF Shape, TypeOK, DeviceRow, RackRow, FitsRack
  <2> QED
    BY <2>1, <2>2 DEF FitsRack, Units, Span
<1> QED
  BY <1>1, ShapeInvariant, PTL

(* A device has every port of its template under a name of its own.        *)
LEMMA DevicesHavePorts == Spec => []PortsOfTemplate
<1>1. Shape => PortsOfTemplate
  BY DEF Shape, DeviceFits, PortsOfTemplate
<1> QED
  BY <1>1, ShapeInvariant, PTL

(* An elevation is whole although it is read in two statements.            *)
THEOREM ElevationsAddUp == Spec => []ElevationAddsUp
<1> DEFINE ShownFits == shown.rack # None => /\ shown.rack \in Racks /\ Built(shown.rack)
                                            /\ shown.seen \subseteq Identifiers
           Inv == Shape /\ ShownFits /\ ElevationAddsUp
<1>1. Init => Inv
  BY ShapeInit DEF Init, NoElevation, ElevationAddsUp
<1>2. Inv /\ [Next]_vars => Inv'
  <2> SUFFICES ASSUME Inv, [Next]_vars
               PROVE  ShownFits' /\ ElevationAddsUp'
    BY ShapeStep
  <2>1. TypeOK
    BY DEF Shape
  <2>2. ASSUME NEW r \in Requests, ShowElevation(r)
        PROVE  ShownFits' /\ ElevationAddsUp'
    <3> DEFINE k == req[r].rack
               seen == req[r].seen
    <3>1. /\ k \in Racks /\ Built(k) /\ seen \in SUBSET Identifiers
          /\ \A i \in seen : devices[i].rack = k
      BY <2>1, <2>2 DEF ShowElevation, Shape, CountFits, TypeOK, Request
    <3>2. UNCHANGED <<racks, templates, devices>> /\ shown' = Answer(k, seen)
      BY <2>2 DEF ShowElevation
    <3>3. Answer(k, seen).rack = k /\ Answer(k, seen).seen = seen
      BY DEF Answer
    <3> DEFINE a == Answer(k, seen)
    <3>4. /\ a.reserved = Cardinality(racks[k].reserved)
          /\ a.free \in 0 .. racks[k].height
          /\ a.used + a.reserved + a.free = racks[k].height
          /\ \A i \in seen :
                a.ports[i] = Cardinality(PortsOf(templates[devices[i].template].blueprint))
      BY <3>1, AnswerAddsUp
    <3> HIDE DEF a, k, seen
    <3>5. ShownFits'
      BY <3>1, <3>2, <3>3 DEF Built, a
    <3>6. shown' = a /\ shown'.rack = k /\ shown'.seen = seen
      BY <3>2, <3>3 DEF a
    <3>7. ElevationAddsUp'
      BY <3>1, <3>2, <3>4, <3>6 DEF ElevationAddsUp, PortsOf
    <3> QED
      BY <3>5, <3>7
  <2>3. ASSUME UNCHANGED shown
        PROVE  ShownFits' /\ ElevationAddsUp'
    <3>1. CASE shown.rack = None
      BY <2>3, <3>1 DEF ElevationAddsUp
    <3>2. CASE shown.rack # None
      <4>1. /\ shown.rack \in Racks /\ Built(shown.rack) /\ shown.seen \subseteq Identifiers
            /\ \A i \in shown.seen : devices[i].rack = shown.rack
        BY <3>2 DEF ElevationAddsUp
      <4>2. racks'[shown.rack] = racks[shown.rack]
        BY <2>1, <4>1, RowsAreKept
      <4>3. \A i \in shown.seen : Placed(i) /\ devices'[i] = devices[i]
        BY <2>1, <4>1, RowsAreKept, NoneIsNoRack DEF Placed
      <4>4. \A i \in shown.seen : templates'[devices'[i].template] = templates[devices[i].template]
        BY <2>1, <4>1, <4>3, RowsAreKept DEF Shape, DeviceFits, FitsRack
      <4>5. ShownFits'
        BY <2>3, <4>1, <4>2 DEF Built
      <4>6. ElevationAddsUp'
        BY <2>3, <3>2, <4>2, <4>3, <4>4 DEF ElevationAddsUp, PortsOf
      <4> QED
        BY <4>5, <4>6
    <3> QED
      BY <3>1, <3>2
  <2>4. ASSUME NEW k \in Racks, NEW height \in 0 .. MaxHeight + 1,
               NEW reserved \in SUBSET (0 .. MaxHeight + 1), CreateRack(k, height, reserved)
        PROVE  UNCHANGED shown
    BY <2>4 DEF CreateRack
  <2>5. ASSUME NEW t \in Templates, NEW units \in 0 .. MaxUnits + 1,
               NEW blueprint \in Blueprints, CreateTemplate(t, units, blueprint)
        PROVE  UNCHANGED shown
    BY <2>5 DEF CreateTemplate
  <2>6. ASSUME NEW r \in Requests, NEW i \in Identifiers, NEW k \in Racks, NEW t \in Templates,
               NEW start \in 0 .. MaxHeight, NEW face \in Faces,
               BeginDevice(r, i, k, t, start, face)
        PROVE  UNCHANGED shown
    BY <2>6 DEF BeginDevice
  <2>7. ASSUME NEW r \in Requests,
               \/ CommitDevice(r) \/ RejectDevice(r) \/ Abort(r)
               \/ (\E k \in Racks : BeginElevation(r, k))
        PROVE  UNCHANGED shown
    BY <2>7 DEF CommitDevice, RejectDevice, BeginElevation, Abort
  <2>8. UNCHANGED vars => UNCHANGED shown
    BY DEF vars
  <2> HIDE DEF ShownFits
  <2> QED
    BY <2>2, <2>3, <2>4, <2>5, <2>6, <2>7, <2>8 DEF Next
<1>3. Inv => ElevationAddsUp
  OBVIOUS
<1> HIDE DEF Inv
<1> QED
  BY <1>1, <1>2, <1>3, PTL DEF Spec

(* The overlap check is as good as its snapshot: a device is never stored  *)
(* over one that its request saw, whatever other requests did meanwhile.   *)
LEMMA PlacementIsClear ==
    ASSUME Shape, NEW r \in Requests, NEW i \in Identifiers, CommitDevice(r),
           req[r].identifier = i, NEW j \in req[r].seen
    PROVE  ~Share(i, j)'
<1> DEFINE q == req[r]
           units == templates[q.template].units
<1>1. /\ j \in Identifiers /\ Placed(j)
      /\ ~Overlaps(j, q.rack, q.face, q.start, units)
  BY DEF Shape, TypeOK, Request, CommitDevice, InsertClear
<1>2. ~Placed(i)
  BY DEF CommitDevice, Insertable
<1>3. devices'[i] = NewDevice(q) /\ devices'[j] = devices[j]
  BY <1>1, <1>2 DEF CommitDevice, Shape, TypeOK
<1>4. /\ NewDevice(q).rack = q.rack /\ NewDevice(q).face = q.face
      /\ NewDevice(q).start = q.start /\ NewDevice(q).units = units
  BY DEF NewDevice
<1>5. /\ devices[j].start \in Int /\ devices[j].units \in Int
      /\ q.start \in Int /\ units \in Int
  BY <1>1, BoundsAreSizes
     DEF Shape, TypeOK, DeviceRow, Request, TemplateRow, CommitDevice, InsertFits, FitsRack
<1> HIDE DEF units, q
<1>6. Span(q.start, units) \cap Span(devices[j].start, devices[j].units) # {}
        => /\ devices[j].start <= q.start + units - 1
           /\ devices[j].start + devices[j].units - 1 >= q.start
  BY <1>5, SharedUnitMeansEndsCross
<1> QED
  BY <1>1, <1>3, <1>4, <1>6 DEF Share, Units, Overlaps

THEOREM OverlapsAreUnseen == Spec => OverlapsOnlyUnseen
<1>1. ASSUME Shape, [Next]_vars, NEW r \in Requests, NEW i \in Identifiers,
             req[r].at = "insert", req[r].identifier = i, req'[r] = Idle,
             devices'[i] # devices[i], NEW j \in req[r].seen
      PROVE  ~Share(i, j)'
  <2>1. PICK s \in Requests : CommitDevice(s) /\ req[s].identifier = i
    BY <1>1, DeviceStep DEF Shape
  <2>2. s = r
    BY <1>1, <2>1 DEF CommitDevice, Shape, TypeOK, Idle
  <2> QED
    BY <1>1, <2>1, <2>2, PlacementIsClear
<1>2. Shape /\ [Next]_vars =>
        \A r \in Requests, i \in Identifiers :
           PlacedBy(r, i) => \A j \in req[r].seen : ~Share(i, j)'
  BY <1>1 DEF PlacedBy
<1> QED
  BY <1>2, ShapeInvariant, PTL DEF Spec, OverlapsOnlyUnseen

(* With one request at a time no two devices share a unit: what the check  *)
(* promises holds as long as nothing is placed between it and the insert.  *)
THEOREM NoOverlapInSeries ==
    ASSUME \A r, s \in Requests : r = s
    PROVE  Spec => []NoOverlap
<1> DEFINE SeesAll == \A r \in Requests : req[r].at = "insert" =>
                        \A j \in Identifiers : Placed(j) => j \in req[r].seen
           Inv == Shape /\ SeesAll /\ NoOverlap
<1>1. Init => Inv
  BY ShapeInit DEF Init, Idle, NoOverlap, Share, Placed, NoDevice
<1>2. Inv /\ [Next]_vars => Inv'
  <2> SUFFICES ASSUME Inv, [Next]_vars
               PROVE  SeesAll' /\ NoOverlap'
    BY ShapeStep
  <2>1. TypeOK
    BY DEF Shape
  <2>2. SeesAll'
    <3> SUFFICES ASSUME NEW r \in Requests, req'[r].at = "insert",
                        NEW j \in Identifiers, Placed(j)'
                 PROVE  j \in req'[r].seen
      OBVIOUS
    <3>1. CASE req'[r] = req[r]
      <4>1. devices'[j] = devices[j]
        <5> SUFFICES ASSUME NEW s \in Requests, CommitDevice(s) PROVE FALSE
          BY <2>1, DeviceStep
        <5>1. s = r
          OBVIOUS
        <5> QED
          BY <2>1, <3>1, <5>1 DEF CommitDevice, TypeOK, Idle
      <4> QED
        BY <3>1, <4>1 DEF Placed
    <3>2. ASSUME NEW i \in Identifiers, NEW k \in Racks, NEW t \in Templates,
                 NEW start \in 0 .. MaxHeight, NEW face \in Faces,
                 BeginDevice(r, i, k, t, start, face)
          PROVE  j \in req'[r].seen
      BY <2>1, <3>2 DEF BeginDevice, TypeOK, Placed
    <3>3. ASSUME NEW k \in Racks, BeginElevation(r, k)
          PROVE  FALSE
      BY <2>1, <3>3 DEF BeginElevation, TypeOK
    <3>4. req'[r] # Idle
      BY DEF Idle
    <3> QED
      BY <2>1, <3>1, <3>2, <3>3, <3>4, RequestStep
  <2>3. NoOverlap'
    <3> SUFFICES ASSUME NEW i \in Identifiers, NEW j \in Identifiers, Share(i, j)'
                 PROVE  FALSE
      BY DEF NoOverlap
    <3>1. ASSUME NEW a \in Identifiers, NEW b \in Identifiers,
                 NEW r \in Requests, CommitDevice(r), req[r].identifier = a
          PROVE  ~Share(a, b)'
      <4>1. CASE b \in req[r].seen
        BY <3>1, <4>1, PlacementIsClear
      <4>2. CASE b \notin req[r].seen
        <5>1. ~Placed(b)
          BY <3>1, <4>2 DEF CommitDevice
        <5>2. b # a => devices'[b] = devices[b]
          BY <2>1, <3>1 DEF CommitDevice, TypeOK
        <5> QED
          BY <5>1, <5>2 DEF Share, Placed
      <4> QED
        BY <4>1, <4>2
    <3>2. Share(j, i)'
      BY DEF Share
    <3>3. devices'[i] = devices[i] /\ devices'[j] = devices[j]
      BY <2>1, <3>1, <3>2, DeviceStep
    <3> QED
      BY <3>3 DEF NoOverlap, Share, Placed, Units, Span
  <2> QED
    BY <2>2, <2>3
<1>3. Inv => NoOverlap
  OBVIOUS
<1> HIDE DEF Inv
<1> QED
  BY <1>1, <1>2, <1>3, PTL DEF Spec

Logged(i) == { n \in DOMAIN audit : audit[n] = i }

(* create_device_from_template writes its event in the transaction of the  *)
(* device: whatever commits, collides or breaks off, each stored device    *)
(* has one event and no other identifier has any.                          *)
LEMMA DevicesAreLoggedOnce == Spec => []LoggedOnce
<1> DEFINE Once == /\ \A i \in Identifiers : ~Placed(i) => Logged(i) = {}
                   /\ \A i \in Identifiers : Placed(i) => \E n : Logged(i) = {n}
<1>1. Init => Once
  BY DEF Init, Logged, Placed, NoDevice
<1>2. Shape /\ Once /\ [Next]_vars => Once'
  <2> SUFFICES ASSUME Shape, Once, [Next]_vars
               PROVE  Once'
    OBVIOUS
  <2>1. ASSUME NEW r \in Requests, CommitDevice(r)
        PROVE  Once'
    <3>1. PICK i \in Identifiers :
            /\ i = req[r].identifier /\ ~Placed(i)
            /\ devices' = [devices EXCEPT ![i] = NewDevice(req[r])]
            /\ audit' = Append(audit, i)
      BY <2>1 DEF CommitDevice, Insertable, Shape, InsertFits
    <3>2. NewDevice(req[r]).rack \in Racks
      BY <2>1 DEF NewDevice, CommitDevice, Shape, InsertFits, FitsRack
    <3>3. PICK n : /\ DOMAIN audit' = DOMAIN audit \cup {n}
                   /\ \A m \in DOMAIN audit : audit'[m] = audit[m]
                   /\ audit'[n] = i
      BY <3>1 DEF Shape, TypeOK
    <3>4. /\ Placed(i)'
          /\ \A j \in Identifiers \ {i} : Placed(j)' <=> Placed(j)
      BY <3>1, <3>2, NoneIsNoRack DEF Placed, Shape, TypeOK
    <3>5. Logged(i)' = {n}
      BY <3>1, <3>3 DEF Logged
    <3>6. \A j \in Identifiers \ {i} : Logged(j)' = Logged(j)
      BY <3>3 DEF Logged
    <3> QED
      BY <3>4, <3>5, <3>6
  <2>2. ASSUME audit' = audit, devices' = devices
        PROVE  Once'
    BY <2>2 DEF Logged, Placed
  <2>3. CASE \A r \in Requests : ~ CommitDevice(r)
    BY <2>2, <2>3 DEF Next, vars, CreateRack, CreateTemplate, BeginDevice, RejectDevice,
        BeginElevation, ShowElevation, Abort
  <2> QED
    BY <2>1, <2>3
<1>3. Once => LoggedOnce
  <2> SUFFICES ASSUME Once, NEW i \in Identifiers
               PROVE  Cardinality(Logged(i)) = (IF Placed(i) THEN 1 ELSE 0)
    BY DEF LoggedOnce, Logged
  <2>1. CASE Placed(i)
    <3>1. PICK n : Logged(i) = {n}
      BY <2>1
    <3> QED
      BY <2>1, <3>1, FS_Singleton
  <2>2. CASE ~Placed(i)
    BY <2>2, FS_EmptySet
  <2> QED
    BY <2>1, <2>2
<1> HIDE DEF Once
<1> QED
  BY <1>1, <1>2, <1>3, ShapeInvariant, PTL DEF Spec

(* A device is stored with its ports, each under a name of its own, and    *)
(* its one event, or not at all (create_device_from_template).             *)
THEOREM EveryDeviceIsComplete == Spec => []DevicesAreComplete
<1>1. PortsOfTemplate /\ LoggedOnce => DevicesAreComplete
  BY DEF DevicesAreComplete
<1> QED
  BY <1>1, DevicesHavePorts, DevicesAreLoggedOnce, PTL

----------------------------------------------------------------------------
(* Ranks, and the lanes that zip pairs by them                             *)

(* Ports that their rows and numbers tell apart.                           *)
Ordered(group) ==
    /\ IsFiniteSet(group)
    /\ \A p \in group : p.row \in Nat /\ p.number \in Int
    /\ \A p, q \in group : p.row = q.row /\ p.number = q.number => p = q

LEMMA RankIsPlace ==
    ASSUME NEW group, Ordered(group), NEW p \in group
    PROVE  Rank(p, group) \in 0 .. Cardinality(group) - 1
<1> DEFINE below == { q \in group : Before(q, p) }
<1>1. below \in SUBSET (group \ {p})
  BY DEF Ordered, Before
<1>2. /\ IsFiniteSet(group \ {p}) /\ Cardinality(group) \in Nat
      /\ Cardinality(group \ {p}) = Cardinality(group) - 1
  BY FS_RemoveElement, FS_CardinalityType DEF Ordered
<1> HIDE DEF below
<1>3. /\ IsFiniteSet(below) /\ Cardinality(below) <= Cardinality(group) - 1
  BY <1>1, <1>2, FS_Subset
<1>4. Cardinality(below) \in Nat
  BY <1>3, FS_CardinalityType
<1>5. Rank(p, group) = Cardinality(below)
  BY DEF Rank, below
<1> QED BY <1>2, <1>3, <1>4, <1>5

LEMMA RankFollowsOrder ==
    ASSUME NEW group, Ordered(group), NEW p \in group, NEW q \in group, Before(p, q)
    PROVE  Rank(p, group) < Rank(q, group)
<1> DEFINE P == { x \in group : Before(x, p) }
           Q == { x \in group : Before(x, q) }
<1>1. P \in SUBSET Q /\ p \in Q /\ p \notin P
  BY DEF Ordered, Before
<1>2. Q \in SUBSET group
  OBVIOUS
<1>3. Rank(p, group) = Cardinality(P) /\ Rank(q, group) = Cardinality(Q)
  BY DEF Rank
<1> HIDE DEF P, Q
<1>4. IsFiniteSet(Q)
  BY <1>2, FS_Subset DEF Ordered
<1>5. Cardinality(P) <= Cardinality(Q) /\ (Cardinality(Q) = Cardinality(P) => P = Q)
      /\ IsFiniteSet(P)
  BY <1>1, <1>4, FS_Subset
<1>6. Cardinality(P) \in Nat /\ Cardinality(Q) \in Nat
  BY <1>4, <1>5, FS_CardinalityType
<1> QED BY <1>1, <1>3, <1>5, <1>6

LEMMA RanksAreDistinct ==
    ASSUME NEW group, Ordered(group), NEW p \in group, NEW q \in group,
           Rank(p, group) = Rank(q, group)
    PROVE  p = q
<1>1. p = q \/ Before(p, q) \/ Before(q, p)
  BY DEF Ordered, Before
<1>2. Rank(p, group) \in Int
  BY RankIsPlace DEF Ordered
<1> QED BY <1>1, <1>2, RankFollowsOrder

LEMMA EveryRankIsTaken ==
    ASSUME NEW group, Ordered(group), NEW n \in 0 .. Cardinality(group) - 1
    PROVE  \E p \in group : Rank(p, group) = n
<1> DEFINE places == 0 .. Cardinality(group) - 1
           f == [p \in group |-> Rank(p, group)]
<1>1. Cardinality(group) \in Nat
  BY FS_CardinalityType DEF Ordered
<1>2. IsFiniteSet(places) /\ Cardinality(places) = Cardinality(group)
  BY <1>1, FS_Interval
<1>3. f \in [group -> places]
  BY RankIsPlace
<1>4. \A p, q \in group : f[p] = f[q] => p = q
  BY RanksAreDistinct
<1> HIDE DEF f, places
<1>5. f \in Injection(group, places)
  BY <1>3, <1>4, Fun_IsInj
<1>6. f \in Surjection(group, places)
  BY <1>2, <1>5, FS_Injection
<1>7. \E p \in group : f[p] = n
  BY <1>6 DEF Surjection, places
<1> QED BY <1>7 DEF f

LEMMA PortsAreOrdered ==
    ASSUME NEW blueprint \in Blueprints \cup {<<>>}
    PROVE  Ordered(PortsOf(blueprint))
<1>1. PortsOf(blueprint) \in SUBSET PortRow /\ IsFiniteSet(PortsOf(blueprint))
  BY PortsAreRows, PortsAreFinite
<1>2. ASSUME NEW p \in PortsOf(blueprint), NEW q \in PortsOf(blueprint),
             p.row = q.row, p.number = q.number
      PROVE  p = q
  <2>1. PICK b \in DOMAIN blueprint : \E n \in Span(blueprint[b].start, blueprint[b].count) :
           p = [prefix |-> blueprint[b].prefix, number |-> n, face |-> blueprint[b].face,
                key |-> blueprint[b].key, row |-> b]
    BY DEF PortsOf
  <2>2. PICK c \in DOMAIN blueprint : \E m \in Span(blueprint[c].start, blueprint[c].count) :
           q = [prefix |-> blueprint[c].prefix, number |-> m, face |-> blueprint[c].face,
                key |-> blueprint[c].key, row |-> c]
    BY DEF PortsOf
  <2>3. PICK n : p = [prefix |-> blueprint[b].prefix, number |-> n,
                      face |-> blueprint[b].face, key |-> blueprint[b].key, row |-> b]
    BY <2>1
  <2>4. PICK m : q = [prefix |-> blueprint[c].prefix, number |-> m,
                      face |-> blueprint[c].face, key |-> blueprint[c].key, row |-> c]
    BY <2>2
  <2>5. b = c /\ n = m
    BY <1>2, <2>3, <2>4
  <2> QED BY <2>3, <2>4, <2>5
<1> QED BY <1>1, <1>2 DEF Ordered, PortRow

(* What zip makes of any ports.                                            *)
LEMMA ZipMakesLanes ==
    ASSUME NEW ports, Ordered(ports)
    PROVE  /\ \A l, m \in MappingsOf(ports) :
                 /\ (l[1] = m[1]) <=> (l[2] = m[2])
                 /\ l[1] # m[2]
                 /\ l[1].key = m[1].key /\ l[1].number < m[1].number
                       => l[2].number <= m[2].number
           /\ \A l \in MappingsOf(ports) :
                 l[1].key = l[2].key /\ l[1].face = "front" /\ l[2].face = "rear"
           /\ ~\E p, q \in ports :
                 /\ p.key # None /\ p.key = q.key /\ p.face = "front" /\ q.face = "rear"
                 /\ \A l \in MappingsOf(ports) : l[1] # p /\ l[2] # q
<1>1. ASSUME NEW key, NEW face
      PROVE  Ordered(Group(ports, key, face))
  <2>1. Group(ports, key, face) \in SUBSET ports
    BY DEF Group
  <2> QED BY <2>1, FS_Subset DEF Ordered
<1>2. ASSUME NEW l \in MappingsOf(ports)
      PROVE  /\ l[1] \in Group(ports, l[1].key, "front")
             /\ l[2] \in Group(ports, l[1].key, "rear")
             /\ l[1].key = l[2].key /\ l[1].face = "front" /\ l[2].face = "rear"
             /\ l[1] \in ports /\ l[2] \in ports
             /\ Rank(l[1], Group(ports, l[1].key, "front"))
                  = Rank(l[2], Group(ports, l[1].key, "rear"))
  BY DEF MappingsOf, Group
<1>3. ASSUME NEW l \in MappingsOf(ports), NEW m \in MappingsOf(ports)
      PROVE  (l[1] = m[1]) <=> (l[2] = m[2])
  <2>1. CASE l[1].key = m[1].key
    BY <1>1, <1>2, <2>1, RanksAreDistinct
  <2>2. CASE l[1].key # m[1].key
    BY <1>2, <2>2
  <2> QED BY <2>1, <2>2
<1>4. ASSUME NEW l \in MappingsOf(ports), NEW m \in MappingsOf(ports),
             l[1].key = m[1].key, l[1].number < m[1].number
      PROVE  l[2].number <= m[2].number
  <2> DEFINE F == Group(ports, l[1].key, "front")
             R == Group(ports, l[1].key, "rear")
  <2>1. /\ l[1] \in F /\ m[1] \in F /\ l[2] \in R /\ m[2] \in R
        /\ Rank(l[1], F) = Rank(l[2], R) /\ Rank(m[1], F) = Rank(m[2], R)
    BY <1>2, <1>4
  <2>2. Ordered(F) /\ Ordered(R)
    BY <1>1
  <2>3. l[2].number \in Int /\ m[2].number \in Int
    BY <1>2 DEF Ordered
  <2> HIDE DEF F, R
  <2>4. Rank(l[1], F) < Rank(m[1], F)
    BY <1>4, <2>1, <2>2, RankFollowsOrder DEF Before
  <2>5. ~Before(m[2], l[2])
    <3> SUFFICES ASSUME Before(m[2], l[2]) PROVE FALSE
      OBVIOUS
    <3>1. Rank(m[2], R) < Rank(l[2], R)
      BY <2>1, <2>2, RankFollowsOrder
    <3>2. Rank(m[2], R) \in Int /\ Rank(l[2], R) \in Int
      BY <2>1, <2>2, RankIsPlace
    <3> QED BY <2>1, <2>4, <3>1, <3>2
  <2> QED BY <2>3, <2>5 DEF Before
<1>5. ASSUME NEW p \in ports, NEW q \in ports, p.key # None, p.key = q.key,
             p.face = "front", q.face = "rear"
      PROVE  \E l \in MappingsOf(ports) : l[1] = p \/ l[2] = q
  <2> DEFINE F == Group(ports, p.key, "front")
             R == Group(ports, p.key, "rear")
  <2>1. p \in F /\ q \in R /\ Ordered(F) /\ Ordered(R)
    BY <1>1, <1>5 DEF Group
  <2>2. ASSUME NEW x \in F, NEW y \in R, Rank(x, F) = Rank(y, R)
        PROVE  <<x, y>> \in MappingsOf(ports)
    <3>1. /\ x \in ports /\ y \in ports /\ x.key = p.key /\ y.key = p.key
          /\ x.face = "front" /\ y.face = "rear"
      BY DEF Group
    <3> QED BY <1>5, <2>2, <3>1 DEF MappingsOf
  <2> HIDE DEF F, R
  <2>3. /\ Rank(p, F) \in 0 .. Cardinality(F) - 1
        /\ Rank(q, R) \in 0 .. Cardinality(R) - 1
        /\ Cardinality(F) \in Nat /\ Cardinality(R) \in Nat
    BY <2>1, RankIsPlace, FS_CardinalityType DEF Ordered
  <2>4. CASE Rank(p, F) < Cardinality(R)
    <3>1. PICK y \in R : Rank(y, R) = Rank(p, F)
      BY <2>1, <2>3, <2>4, EveryRankIsTaken
    <3>2. <<p, y>> \in MappingsOf(ports)
      BY <2>1, <2>2, <3>1
    <3> QED BY <3>2
  <2>5. CASE ~(Rank(p, F) < Cardinality(R))
    <3>1. Rank(q, R) \in 0 .. Cardinality(F) - 1
      BY <2>3, <2>5
    <3>2. PICK x \in F : Rank(x, F) = Rank(q, R)
      BY <2>1, <3>1, EveryRankIsTaken
    <3>3. <<x, q>> \in MappingsOf(ports)
      BY <2>1, <2>2, <3>2
    <3> QED BY <3>3
  <2> QED BY <2>4, <2>5
<1>6. \A l, m \in MappingsOf(ports) : l[1] # m[2]
  BY <1>2
<1> QED BY <1>2, <1>3, <1>4, <1>5, <1>6

(* What a device has of mappings is what its ports were zipped to.         *)
Wired == \A i \in Identifiers :
             \/ devices[i] = NoDevice
             \/ Placed(i) /\ devices[i].mappings = MappingsOf(devices[i].ports)

LEMMA WiredInvariant == Spec => [](Shape /\ Wired)
<1>1. Init => Wired
  BY DEF Init, Wired
<1>2. Shape /\ Wired /\ [Next]_vars => Wired'
  <2> SUFFICES ASSUME Shape, Wired, [Next]_vars, NEW i \in Identifiers
               PROVE  \/ devices'[i] = NoDevice
                      \/ Placed(i)' /\ devices'[i].mappings = MappingsOf(devices'[i].ports)
    BY DEF Wired
  <2>1. CASE devices'[i] = devices[i]
    BY <2>1 DEF Placed, Wired
  <2>2. CASE devices'[i] # devices[i]
    <3>1. PICK r \in Requests : CommitDevice(r) /\ req[r].identifier = i
      BY <2>2, DeviceStep DEF Shape
    <3>4. devices'[i] = NewDevice(req[r])
      BY <3>1 DEF CommitDevice, Shape, TypeOK
    <3>2. NewDevice(req[r]).mappings = MappingsOf(NewDevice(req[r]).ports)
      BY DEF NewDevice
    <3>3. NewDevice(req[r]).rack = req[r].rack /\ req[r].rack \in Racks
      BY <3>1 DEF NewDevice, CommitDevice, Shape, InsertFits, FitsRack
    <3> QED BY <3>2, <3>3, <3>4, NoneIsNoRack DEF Placed
  <2> QED BY <2>1, <2>2
<1> QED BY <1>1, <1>2, ShapeInvariant, PTL DEF Spec

(* create_device_from_template: whatever the blueprint, the mappings of a  *)
(* device are lanes that a trace can follow both ways.                     *)
THEOREM DevicesHaveLanes == Spec => []MappingsAreLanes
<1>1. Shape /\ Wired => MappingsAreLanes
  <2> SUFFICES ASSUME Shape, Wired, NEW i \in Identifiers
               PROVE  /\ \A l, m \in LanesOf(i) :
                            /\ (l[1] = m[1]) <=> (l[2] = m[2])
                            /\ l[1] # m[2]
                            /\ l[1].key = m[1].key /\ l[1].number < m[1].number
                                  => l[2].number <= m[2].number
                      /\ \A l \in LanesOf(i) :
                            l[1].key = l[2].key /\ l[1].face = "front" /\ l[2].face = "rear"
                      /\ ~\E p, q \in devices[i].ports :
                            /\ p.key # None /\ p.key = q.key /\ p.face = "front" /\ q.face = "rear"
                            /\ \A l \in LanesOf(i) : l[1] # p /\ l[2] # q
    BY DEF MappingsAreLanes, Wired
  <2>1. CASE devices[i] = NoDevice
    BY <2>1 DEF NoDevice, LanesOf
  <2>2. CASE Placed(i) /\ devices[i].mappings = MappingsOf(devices[i].ports)
    <3>1. /\ devices[i].ports = PortsOf(templates[devices[i].template].blueprint)
          /\ devices[i].template \in Templates
      BY <2>2 DEF Shape, DeviceFits, FitsRack
    <3>2. templates[devices[i].template].blueprint \in Blueprints \cup {<<>>}
      BY <3>1 DEF Shape, TypeOK, TemplateRow
    <3>3. Ordered(devices[i].ports)
      BY <3>1, <3>2, PortsAreOrdered
    <3>4. PICK ports : ports = devices[i].ports /\ Ordered(ports) /\ LanesOf(i) = MappingsOf(ports)
      BY <2>2, <3>3 DEF LanesOf
    <3> QED BY <3>4, ZipMakesLanes
  <2> QED BY <2>1, <2>2 DEF Wired
<1> QED BY <1>1, WiredInvariant, PTL

(* The lanes of all devices together, between ports known by their device. *)
AllPorts == UNION { {i} \X devices[i].ports : i \in Identifiers }
LanesFrom(i) == { <<<<i, l[1]>>, <<i, l[2]>>>> : l \in LanesOf(i) }
AllLanes == UNION { LanesFrom(i) : i \in Identifiers }

LanesSuitTraces ==
    /\ AllLanes \subseteq AllPorts \X AllPorts
    /\ \A m \in AllLanes : m[1] # m[2]
    /\ \A m, n \in AllLanes : m # n => {m[1], m[2]} \cap {n[1], n[2]} = {}

(* create_device_from_template keeps what trace_cable builds on: the       *)
(* mappings of all devices are what Trace assumes of Mappings, its         *)
(* assumption MappingsAreLanes.                                            *)
THEOREM TracesGetLanes == Spec => []LanesSuitTraces
<1>1. ASSUME MappingsAreLanes, NEW i \in Identifiers, NEW l \in LanesOf(i),
             NEW j \in Identifiers, NEW k \in LanesOf(j)
      PROVE  LET m == <<<<i, l[1]>>, <<i, l[2]>>>>
                 n == <<<<j, k[1]>>, <<j, k[2]>>>>
             IN /\ m[1] # m[2]
                /\ {m[1], m[2]} \cap {n[1], n[2]} # {} => m = n
  <2>1. CASE i # j
    <3>1. l[1] # l[2]
      BY <1>1 DEF MappingsAreLanes
    <3> QED BY <2>1, <3>1
  <2>2. CASE i = j
    <3>1. /\ (l[1] = k[1]) <=> (l[2] = k[2])
          /\ l[1] # k[2] /\ k[1] # l[2] /\ l[1] # l[2]
      BY <1>1, <2>2 DEF MappingsAreLanes
    <3> QED BY <2>2, <3>1
  <2> QED BY <2>1, <2>2
<1>2. ASSUME Wired, NEW i \in Identifiers, NEW l \in LanesOf(i)
      PROVE  l[1] \in devices[i].ports /\ l[2] \in devices[i].ports
  BY <1>2 DEF Wired, LanesOf, MappingsOf, NoDevice
<1>3. MappingsAreLanes /\ Wired => LanesSuitTraces
  <2> SUFFICES ASSUME MappingsAreLanes, Wired
               PROVE  LanesSuitTraces
    OBVIOUS
  <2>1. ASSUME NEW m \in AllLanes
        PROVE  /\ m \in AllPorts \X AllPorts /\ m[1] # m[2]
               /\ \A n \in AllLanes : {m[1], m[2]} \cap {n[1], n[2]} # {} => m = n
    <3>1. PICK i \in Identifiers : m \in LanesFrom(i)
      BY DEF AllLanes
    <3>2. PICK l \in LanesOf(i) : m = <<<<i, l[1]>>, <<i, l[2]>>>>
      BY <3>1 DEF LanesFrom
    <3>3. m \in AllPorts \X AllPorts
      BY <1>2, <3>2 DEF AllPorts
    <3>4. m[1] # m[2]
      BY <1>1, <3>2
    <3>5. ASSUME NEW n \in AllLanes, {m[1], m[2]} \cap {n[1], n[2]} # {}
          PROVE  m = n
      <4>1. PICK j \in Identifiers : n \in LanesFrom(j)
        BY DEF AllLanes
      <4>2. PICK k \in LanesOf(j) : n = <<<<j, k[1]>>, <<j, k[2]>>>>
        BY <4>1 DEF LanesFrom
      <4> QED BY <1>1, <3>2, <3>5, <4>2
    <3> QED BY <3>3, <3>4, <3>5
  <2> QED BY <2>1 DEF LanesSuitTraces
<1> QED BY <1>3, WiredInvariant, DevicesHaveLanes, PTL

=============================================================================
