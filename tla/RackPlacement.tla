--------------------------- MODULE RackPlacement ---------------------------
(***************************************************************************)
(* Racks, device templates and the devices made from them:                 *)
(* services/infrastructure.py and the handlers of main.py that run it.     *)
(*                                                                         *)
(* A request runs in a transaction of its own under READ COMMITTED.  Racks *)
(* and templates never change once stored, so placing a device has two     *)
(* steps: the checks, the last of which selects the devices committed by   *)
(* then, and the inserts, which the unique constraints of the schema may   *)
(* reject and which commit together or not at all.                         *)
(*                                                                         *)
(* A row is known by the identifier its unique constraint is on.  A port   *)
(* name is its prefix and its number: prefixes stand for texts that do not *)
(* end in a digit, so two names differ when one of the two parts does.     *)
(*                                                                         *)
(* A definition that stands right before another of the same parameters,   *)
(* and whose name continues the other's, is a plausible mistake in it: the *)
(* property named for it in PROJECT.json fails when it takes the place.    *)
(***************************************************************************)
EXTENDS Integers, Sequences, FiniteSets

CONSTANTS
    Racks,          \* rack identifiers
    Templates,      \* manufacturer and model of a device template
    Identifiers,    \* device identifiers
    Requests,       \* request threads of all API processes
    MaxHeight,      \* the tallest rack create_rack accepts, 60 in the code
    MaxUnits,       \* the tallest template create_template accepts, 20
    Faces,          \* the sides of a rack a device is mounted on
    Prefixes,       \* port name prefixes
    Keys,           \* mapping keys of blueprints
    Blueprints,     \* port blueprints that templates may have
    None            \* an SQL NULL, a Python None

ASSUME BoundsAreSizes == MaxHeight \in Nat /\ MaxUnits \in Nat
ASSUME NoneIsNoRack == None \notin Racks
ASSUME NoneIsNoTemplate == None \notin Templates
ASSUME NoneIsNoKey == None \notin Keys

(* A row of a blueprint names a run of ports.  Its face is any text; only  *)
(* "front" and "rear" take part in a mapping.                              *)
BlueprintRow == [count : Nat, prefix : Prefixes, start : Int,
                 face : {"front", "rear", "side"}, key : Keys \cup {None}]

ASSUME BlueprintsAreRows == Blueprints \subseteq Seq(BlueprintRow)

VARIABLES
    racks,      \* committed rows of table racks
    templates,  \* committed rows of table device_templates
    devices,    \* committed rows of table devices, each with its ports
    audit,      \* committed device.created events; their order plays no part
    req,        \* req[r]: what request r has decided and is about to do
    shown       \* the last elevation a request answered with

vars == <<racks, templates, devices, audit, req, shown>>

----------------------------------------------------------------------------
(* Rows                                                                    *)

(* height 0 and units 0 mark identifiers for which no row exists.          *)
RackRow == [height : 0 .. MaxHeight, reserved : SUBSET (1 .. MaxHeight)]
TemplateRow == [units : 0 .. MaxUnits, blueprint : Blueprints \cup {<<>>}]
NoRack == [height |-> 0, reserved |-> {}]
NoTemplate == [units |-> 0, blueprint |-> <<>>]

PortRow == [prefix : Prefixes, number : Int, face : {"front", "rear", "side"},
            key : Keys \cup {None}, row : Nat]

DeviceRow == [rack : Racks \cup {None}, template : Templates \cup {None},
              start : Int, units : Nat, face : Faces \cup {None},
              ports : SUBSET PortRow, mappings : SUBSET (PortRow \X PortRow)]
NoDevice == [rack |-> None, template |-> None, start |-> 0, units |-> 0,
             face |-> None, ports |-> {}, mappings |-> {}]

(* "insert": a device passed its checks against the devices seen, those    *)
(* its select ran over; "count": an elevation has read the devices seen    *)
(* of its rack and is about to count their ports.                          *)
Request == [at : {"idle", "insert", "count"},
            identifier : Identifiers \cup {None}, rack : Racks \cup {None},
            template : Templates \cup {None}, start : Int,
            face : Faces \cup {None}, seen : SUBSET Identifiers]
Idle == [at |-> "idle", identifier |-> None, rack |-> None, template |-> None,
         start |-> 0, face |-> None, seen |-> {}]

Elevation == [rack : Racks \cup {None}, seen : SUBSET Identifiers,
              ports : [Identifiers -> Nat], used : Nat, reserved : Nat, free : Int]
NoElevation == [rack |-> None, seen |-> {}, ports |-> [i \in Identifiers |-> 0],
                used |-> 0, reserved |-> 0, free |-> 0]

TypeOK ==
    /\ racks \in [Racks -> RackRow]
    /\ templates \in [Templates -> TemplateRow]
    /\ devices \in [Identifiers -> DeviceRow]
    /\ audit \in Seq(Identifiers)
    /\ req \in [Requests -> Request]
    /\ shown \in Elevation

Built(k) == racks[k].height > 0
Designed(t) == templates[t].units > 0
Placed(i) == devices[i].rack # None

Init ==
    /\ racks = [k \in Racks |-> NoRack]
    /\ templates = [t \in Templates |-> NoTemplate]
    /\ devices = [i \in Identifiers |-> NoDevice]
    /\ audit = <<>>
    /\ req = [r \in Requests |-> Idle]
    /\ shown = NoElevation

----------------------------------------------------------------------------
(* What a rack unit is taken by                                            *)

Span(start, units) == start .. (start + units - 1)

Units(i) == Span(devices[i].start, devices[i].units)

(* The select of create_device_from_template: both ends compared.          *)
OverlapsByStart(i, k, face, start, units) ==
    devices[i].rack = k /\ devices[i].face = face /\ devices[i].start = start
Overlaps(i, k, face, start, units) ==
    /\ devices[i].rack = k
    /\ devices[i].face = face
    /\ devices[i].start <= start + units - 1
    /\ devices[i].start + devices[i].units - 1 >= start

ExceedsByOne(k, start, units) == start < 1 \/ start + units - 2 > racks[k].height
Exceeds(k, start, units) == start < 1 \/ start + units - 1 > racks[k].height

----------------------------------------------------------------------------
(* Ports and their mappings                                                *)

PortsOf(blueprint) ==
    UNION { { [prefix |-> blueprint[b].prefix, number |-> n, face |-> blueprint[b].face,
               key |-> blueprint[b].key, row |-> b] :
              n \in Span(blueprint[b].start, blueprint[b].count) } :
            b \in DOMAIN blueprint }

(* uq_port_device_identifier.                                              *)
SameName(p, q) == p.prefix = q.prefix /\ p.number = q.number
NamesClash(ports) == \E p, q \in ports : p # q /\ SameName(p, q)

(* The order of sorted by position_index, ports being added row by row;    *)
(* the sort is stable.                                                     *)
BeforeAsAdded(p, q) == p.row < q.row \/ (p.row = q.row /\ p.number < q.number)
Before(p, q) == p.number < q.number \/ (p.number = q.number /\ p.row < q.row)

Group(ports, key, face) == { p \in ports : p.key = key /\ p.face = face }
Rank(p, group) == Cardinality({ q \in group : Before(q, p) })

(* zip of the front ports and the rear ports of each mapping key.          *)
MappingsOf(ports) ==
    { pq \in ports \X ports :
        /\ pq[1].key # None
        /\ pq[1].key = pq[2].key
        /\ pq[1].face = "front"
        /\ pq[2].face = "rear"
        /\ Rank(pq[1], Group(ports, pq[1].key, "front"))
             = Rank(pq[2], Group(ports, pq[2].key, "rear")) }

----------------------------------------------------------------------------
(* Creating racks and templates: one read of an immutable row, one insert  *)

CreateRack(k, height, reserved) ==
    /\ height \in 1 .. MaxHeight
    /\ \A u \in reserved : 1 <= u /\ u <= height
    /\ ~Built(k)                       \* uq_rack_identifier_tenant
    /\ racks' = [racks EXCEPT ![k] = [height |-> height, reserved |-> reserved]]
    /\ UNCHANGED <<templates, devices, audit, req, shown>>

CreateTemplate(t, units, blueprint) ==
    /\ units \in 1 .. MaxUnits
    /\ ~Designed(t)                    \* uq_device_template_model
    /\ templates' = [templates EXCEPT ![t] = [units |-> units, blueprint |-> blueprint]]
    /\ UNCHANGED <<racks, devices, audit, req, shown>>

----------------------------------------------------------------------------
(* create_device_from_template                                             *)

BeginDevice(r, i, k, t, start, face) ==
    /\ req[r].at = "idle"
    /\ Built(k) /\ Designed(t)
    /\ ~Exceeds(k, start, templates[t].units)
    /\ Span(start, templates[t].units) \cap racks[k].reserved = {}
    /\ ~\E j \in Identifiers : Overlaps(j, k, face, start, templates[t].units)
    /\ req' = [req EXCEPT ![r] =
                 [at |-> "insert", identifier |-> i, rack |-> k, template |-> t,
                  start |-> start, face |-> face,
                  seen |-> { j \in Identifiers : Placed(j) }]]
    /\ UNCHANGED <<racks, templates, devices, audit, shown>>

NewDevice(q) ==
    LET ports == PortsOf(templates[q.template].blueprint)
    IN [rack |-> q.rack, template |-> q.template, start |-> q.start,
        units |-> templates[q.template].units, face |-> q.face,
        ports |-> ports, mappings |-> MappingsOf(ports)]

(* uq_device_identifier_tenant, then uq_port_device_identifier.            *)
InsertableAgain(q) == ~NamesClash(PortsOf(templates[q.template].blueprint))
Insertable(q) ==
    /\ ~Placed(q.identifier)
    /\ ~NamesClash(PortsOf(templates[q.template].blueprint))

CommitDevice(r) ==
    /\ req[r].at = "insert"
    /\ Insertable(req[r])
    /\ devices' = [devices EXCEPT ![req[r].identifier] = NewDevice(req[r])]
    /\ audit' = Append(audit, req[r].identifier)
    /\ req' = [req EXCEPT ![r] = Idle]
    /\ UNCHANGED <<racks, templates, shown>>

(* An IntegrityError rolls back every row the session has flushed.         *)
RejectDeviceNotPorts(r) ==
    /\ req[r].at = "insert"
    /\ ~Insertable(req[r])
    /\ devices' = IF Placed(req[r].identifier) THEN devices
                  ELSE [devices EXCEPT ![req[r].identifier] =
                          [NewDevice(req[r]) EXCEPT !.ports = {}, !.mappings = {}]]
    /\ req' = [req EXCEPT ![r] = Idle]
    /\ UNCHANGED <<racks, templates, audit, shown>>
RejectDevice(r) ==
    /\ req[r].at = "insert"
    /\ ~Insertable(req[r])
    /\ req' = [req EXCEPT ![r] = Idle]
    /\ UNCHANGED <<racks, templates, devices, audit, shown>>

----------------------------------------------------------------------------
(* rack_elevation: two reads, then the answer                              *)

BeginElevation(r, k) ==
    /\ req[r].at = "idle"
    /\ Built(k)
    /\ req' = [req EXCEPT ![r] =
                 [at |-> "count", identifier |-> None, rack |-> k, template |-> None,
                  start |-> 0, face |-> None,
                  seen |-> { i \in Identifiers : devices[i].rack = k }]]
    /\ UNCHANGED <<racks, templates, devices, audit, shown>>

UsedUnitsPastEnd(seen) ==
    UNION { Span(devices[i].start, devices[i].units + 1) : i \in seen }
UsedUnits(seen) == UNION { Units(i) : i \in seen }

Answer(k, seen) ==
    LET used == UsedUnits(seen)
        reserved == racks[k].reserved
    IN [rack |-> k, seen |-> seen,
        ports |-> [i \in Identifiers |-> IF i \in seen THEN Cardinality(devices[i].ports)
                                         ELSE 0],
        used |-> Cardinality(used),
        reserved |-> Cardinality(reserved \ used),
        free |-> racks[k].height - Cardinality(used \cup reserved)]

ShowElevation(r) ==
    /\ req[r].at = "count"
    /\ shown' = Answer(req[r].rack, req[r].seen)
    /\ req' = [req EXCEPT ![r] = Idle]
    /\ UNCHANGED <<racks, templates, devices, audit>>

----------------------------------------------------------------------------
(* A request may end before its commit: a lost connection, a blueprint     *)
(* entry that is not a number, a process that stops.                       *)
Abort(r) ==
    /\ req[r].at # "idle"
    /\ req' = [req EXCEPT ![r] = Idle]
    /\ UNCHANGED <<racks, templates, devices, audit, shown>>

Next ==
    \/ \E k \in Racks, height \in 0 .. MaxHeight + 1,
          reserved \in SUBSET (0 .. MaxHeight + 1) : CreateRack(k, height, reserved)
    \/ \E t \in Templates, units \in 0 .. MaxUnits + 1, blueprint \in Blueprints :
         CreateTemplate(t, units, blueprint)
    \/ \E r \in Requests, i \in Identifiers, k \in Racks, t \in Templates,
          start \in 0 .. MaxHeight, face \in Faces : BeginDevice(r, i, k, t, start, face)
    \/ \E r \in Requests :
         \/ CommitDevice(r)
         \/ RejectDevice(r)
         \/ \E k \in Racks : BeginElevation(r, k)
         \/ ShowElevation(r)
         \/ Abort(r)

Spec == Init /\ [][Next]_vars

----------------------------------------------------------------------------
(* Properties                                                              *)

(* However requests overlap, a stored device lies inside its rack and off  *)
(* the reserved units (infrastructure.py 175-179), and keeps lying there.  *)
InsideRack ==
    \A i \in Identifiers : Placed(i) =>
        Units(i) \subseteq (1 .. racks[devices[i].rack].height)
                            \ racks[devices[i].rack].reserved

PortsOfTemplate ==
    \A i \in Identifiers : Placed(i) =>
        /\ devices[i].units = templates[devices[i].template].units
        /\ devices[i].ports = PortsOf(templates[devices[i].template].blueprint)
        /\ ~NamesClash(devices[i].ports)

LoggedOnce ==
    \A i \in Identifiers :
        Cardinality({ n \in DOMAIN audit : audit[n] = i }) = (IF Placed(i) THEN 1 ELSE 0)

(* Whatever collides or breaks off, a device is stored with every port of  *)
(* its template, no two under one name, and with exactly one event         *)
(* device.created, or not at all (infrastructure.py 204-249).              *)
DevicesAreComplete == PortsOfTemplate /\ LoggedOnce

(* The mappings of a device (infrastructure.py 230-241) are the lanes a    *)
(* trace follows: a port is in one at most, they join a front port to a    *)
(* rear port of the same key and keep the order of the numbers, and a key  *)
(* leaves ports over on one face at most.                                  *)
LanesOf(i) == devices[i].mappings
MappingsAreLanes ==
    \A i \in Identifiers :
        /\ \A l, m \in LanesOf(i) :
              /\ (l[1] = m[1]) <=> (l[2] = m[2])
              /\ l[1] # m[2]
              /\ l[1].key = m[1].key /\ l[1].number < m[1].number
                    => l[2].number <= m[2].number
        /\ \A l \in LanesOf(i) :
              l[1].key = l[2].key /\ l[1].face = "front" /\ l[2].face = "rear"
        /\ ~\E p, q \in devices[i].ports :
              /\ p.key # None /\ p.key = q.key /\ p.face = "front" /\ q.face = "rear"
              /\ \A l \in LanesOf(i) : l[1] # p /\ l[2] # q

(* An elevation reads the devices and counts their ports in two statements *)
(* (infrastructure.py 303-317); what it shows is nonetheless whole: every  *)
(* device with all its ports, no reserved unit in use, no unit of the rack *)
(* missing or beyond its height.                                           *)
ElevationAddsUp ==
    shown.rack # None =>
        /\ shown.reserved = Cardinality(racks[shown.rack].reserved)
        /\ shown.free \in 0 .. racks[shown.rack].height
        /\ shown.used + shown.reserved + shown.free = racks[shown.rack].height
        /\ \A i \in shown.seen :
              /\ devices[i].rack = shown.rack
              /\ shown.ports[i]
                    = Cardinality(PortsOf(templates[devices[i].template].blueprint))

(* Two devices of a rack do not take the same unit of the same face        *)
(* (infrastructure.py 180-191).                                            *)
Share(i, j) ==
    /\ i # j
    /\ Placed(i) /\ Placed(j)
    /\ devices[i].rack = devices[j].rack /\ devices[i].face = devices[j].face
    /\ Units(i) \cap Units(j) # {}
NoOverlap == \A i, j \in Identifiers : ~Share(i, j)

(* A device is never stored over one that its request could see when it    *)
(* checked: only devices placed since then can be overlapped.              *)
PlacedBy(r, i) ==
    /\ req[r].at = "insert" /\ req[r].identifier = i
    /\ req'[r] = Idle /\ devices'[i] # devices[i]
OverlapsOnlyUnseen ==
    [][\A r \in Requests, i \in Identifiers :
          PlacedBy(r, i) => \A j \in req[r].seen : ~Share(i, j)']_vars


=============================================================================
