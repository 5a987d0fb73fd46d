---------------------------- MODULE Connectivity ----------------------------
(***************************************************************************)
(* Cables between ports: create_cable of services/connectivity.py and its  *)
(* handler in main.py.                                                     *)
(*                                                                         *)
(* A request runs in a transaction of its own under READ COMMITTED.  It    *)
(* checks what is committed, then inserts the cable, reads the segments of *)
(* its route, and inserts the termination of side A and that of side B.    *)
(* Each insert enters a unique index: it waits while another transaction   *)
(* that has not ended holds the entry, and fails when the entry belongs to *)
(* a committed row.  Transactions that wait for each other are a deadlock, *)
(* of which the database aborts a member.  Only the commit shows the rows. *)
(*                                                                         *)
(* A definition that stands right before another of the same parameters,   *)
(* and whose name continues the other's, is a plausible mistake in it: the *)
(* property named for it in PROJECT.json fails when it takes the place.    *)
(***************************************************************************)
EXTENDS Naturals, Sequences, FiniteSets

CONSTANTS
    Ports,          \* ports that devices have
    PortMedia,      \* PortMedia[p]: the media type of port p
    Cables,         \* cable identifiers
    Media,          \* media types of cables and ports
    CopperMedia,    \* those that name cat, copper, rj45 or punchdown
    FiberMedia,     \* those that name fiber, os, om, lc, sc, mpo or mtp
    Segments,       \* stored pathway segments
    Routes,         \* the lists of segments that requests ask for
    Wanted,         \* what requests ask for
    Requests,       \* request threads of all API processes
    None            \* an SQL NULL, a Python None

ASSUME PortsHaveMedia == PortMedia \in [Ports -> Media]
ASSUME WantedIsTyped ==
    Wanted \subseteq [cable : Cables, media : Media, a : Ports, b : Ports, route : Routes]
ASSUME NoneIsNoPort == None \notin Ports
ASSUME NoneIsNoCable == None \notin Cables
ASSUME NoneIsNoMedia == None \notin Media

VARIABLES
    cables,   \* committed rows of table cables with their terminations and route
    audit,    \* committed cable.created events, in commit order (timestamps may differ)
    req       \* req[r]: what request r inserts, and how far it is

vars == <<cables, audit, req>>

----------------------------------------------------------------------------
(* Rows                                                                    *)

CableRow == [media : Media \cup {None}, a : Ports \cup {None}, b : Ports \cup {None},
             route : Routes \cup {<<>>}]
NoCable == [media |-> None, a |-> None, b |-> None, route |-> <<>>]

(* "cable": about to insert the cable; "route": about to read its          *)
(* segments; "side_a", "side_b": about to insert that termination.         *)
Request == [at : {"idle", "cable", "route", "side_a", "side_b", "commit"},
            cable : Cables \cup {None}, row : CableRow]
Idle == [at |-> "idle", cable |-> None, row |-> NoCable]

TypeOK ==
    /\ cables \in [Cables -> CableRow]
    /\ audit \in Seq(Cables)
    /\ req \in [Requests -> Request]

Stored(c) == cables[c].media # None
Terminated(p) == \E c \in Cables : Stored(c) /\ p \in {cables[c].a, cables[c].b}

Init ==
    /\ cables = [c \in Cables |-> NoCable]
    /\ audit = <<>>
    /\ req = [r \in Requests |-> Idle]

----------------------------------------------------------------------------
(* What transactions hold and wait for                                     *)

HoldsCable(r, c) == req[r].cable = c /\ req[r].at \in {"route", "side_a", "side_b", "commit"}

HoldsPort(r, p) ==
    \/ req[r].row.a = p /\ req[r].at \in {"side_b", "commit"}
    \/ req[r].row.b = p /\ req[r].at = "commit"

Waits(r, s) ==
    /\ r # s
    /\ \/ req[r].at = "cable" /\ HoldsCable(s, req[r].cable)
       \/ req[r].at = "side_a" /\ HoldsPort(s, req[r].row.a)
       \/ req[r].at = "side_b" /\ HoldsPort(s, req[r].row.b)

Waiting(r) == \E s \in Requests : Waits(r, s)

(* r is on a cycle: it is one of some requests each of which waits for one *)
(* of them and is waited for by one of them.                               *)
Deadlocked(r) ==
    \E S \in SUBSET Requests :
        /\ r \in S
        /\ \A s \in S : (\E t \in S : Waits(s, t)) /\ (\E t \in S : Waits(t, s))

----------------------------------------------------------------------------
(* create_cable                                                            *)

Family(media) ==
    IF media \in CopperMedia THEN "copper"
    ELSE IF media \in FiberMedia THEN "fiber" ELSE media

(* _validate_ports_for_cable.                                              *)
FitsFirst(media, a, b) == a # b /\ Family(PortMedia[a]) = Family(media)
Fits(media, a, b) == a # b /\ \A p \in {a, b} : Family(PortMedia[p]) = Family(media)

BeginCable(r, c, media, a, b, route) ==
    /\ req[r].at = "idle"
    /\ Fits(media, a, b)
    /\ ~Terminated(a) /\ ~Terminated(b)
    /\ req' = [req EXCEPT ![r] =
                 [at |-> "cable", cable |-> c,
                  row |-> [media |-> media, a |-> a, b |-> b, route |-> route]]]
    /\ UNCHANGED <<cables, audit>>

Advance(r, to) ==
    /\ req' = [req EXCEPT ![r] = [at |-> to, cable |-> req[r].cable, row |-> req[r].row]]
    /\ UNCHANGED <<cables, audit>>

(* The request ends and its session closes: what it had not committed is   *)
(* rolled back.                                                            *)
FailKeepingSession(r) == UNCHANGED vars
Fail(r) ==
    /\ req' = [req EXCEPT ![r] = Idle]
    /\ UNCHANGED <<cables, audit>>

(* uq_cable_identifier_tenant.                                             *)
InsertCable(r) ==
    /\ req[r].at = "cable"
    /\ ~Waiting(r)
    /\ IF Stored(req[r].cable) THEN Fail(r) ELSE Advance(r, "route")

SegmentsMissing(r) == \E n \in DOMAIN req[r].row.route : req[r].row.route[n] \notin Segments

ReadRoute(r) ==
    /\ req[r].at = "route"
    /\ IF SegmentsMissing(r) THEN Fail(r) ELSE Advance(r, "side_a")

(* uq_physical_port_termination.                                           *)
InsertSide(r, side, port, next) ==
    /\ req[r].at = side
    /\ ~Waiting(r)
    /\ IF Terminated(port) THEN Fail(r) ELSE Advance(r, next)

InsertSidesUnchecked(r) ==
    /\ ~Waiting(r)
    /\ \/ req[r].at = "side_a" /\ Advance(r, "side_b")
       \/ req[r].at = "side_b" /\ Advance(r, "commit")
InsertSides(r) ==
    \/ InsertSide(r, "side_a", req[r].row.a, "side_b")
    \/ InsertSide(r, "side_b", req[r].row.b, "commit")

CommitWithoutRoute(r) ==
    /\ req[r].at = "commit"
    /\ cables' = [cables EXCEPT ![req[r].cable] = [req[r].row EXCEPT !.route = <<>>]]
    /\ audit' = Append(audit, req[r].cable)
    /\ req' = [req EXCEPT ![r] = Idle]
Commit(r) ==
    /\ req[r].at = "commit"
    /\ cables' = [cables EXCEPT ![req[r].cable] = req[r].row]
    /\ audit' = Append(audit, req[r].cable)
    /\ req' = [req EXCEPT ![r] = Idle]

(* The database ends a deadlock; the request answers with a server error.  *)
AbortDeadlock(r) == Deadlocked(r) /\ Fail(r)

(* A request may end early: a lost connection, a process that stops.       *)
Abort(r) == req[r].at # "idle" /\ Fail(r)

Progress(r) == InsertCable(r) \/ ReadRoute(r) \/ InsertSides(r) \/ Commit(r) \/ AbortDeadlock(r)

Begin(r) == \E w \in Wanted : BeginCable(r, w.cable, w.media, w.a, w.b, w.route)

Next == \E r \in Requests : Begin(r) \/ Progress(r) \/ Abort(r)

Spec == Init /\ [][Next]_vars

(* A request thread that can go on goes on, and the database looks for     *)
(* deadlocks (deadlock_timeout).  The fairness is strong: a request that   *)
(* waits is woken when the holder ends, and does not lose the entry to     *)
(* later requests for ever.  Nothing is assumed of Begin and Abort.        *)
FairSpec == Spec /\ \A r \in Requests : SF_vars(Progress(r))

----------------------------------------------------------------------------
(* AtomicCables as the committed rows show it                              *)

RowFor(w) == [media |-> w.media, a |-> w.a, b |-> w.b, route |-> w.route]

Creatable ==
    { w \in Wanted : /\ Fits(w.media, w.a, w.b)
                     /\ \A n \in DOMAIN w.route : w.route[n] \in Segments }

Granted == { w \in Creatable : cables[w.cable] = RowFor(w) }

Atomic == INSTANCE AtomicCables WITH Asks <- Creatable, granted <- Granted, log <- audit

----------------------------------------------------------------------------
(* Properties                                                              *)

(* A port takes one end of one cable, although create_cable looks for      *)
(* terminations long before it inserts its own (connectivity.py 61-65).    *)
Ends(c) == {cables[c].a, cables[c].b}
PortsHoldOneCable ==
    \A c \in Cables : Stored(c) =>
        /\ cables[c].a # cables[c].b
        /\ \A d \in Cables : Stored(d) /\ c # d => Ends(c) \cap Ends(d) = {}

(* A cable is stored with both ends, on ports of its own media family,     *)
(* with a route of stored segments and with exactly one cable.created      *)
(* event, or not at all (connectivity.py 85-137).                          *)
CablesAreWhole ==
    \A c \in Cables :
        /\ Stored(c) =>
             /\ \A p \in Ends(c) :
                   p \in Ports /\ Family(PortMedia[p]) = Family(cables[c].media)
             /\ \A n \in DOMAIN cables[c].route : cables[c].route[n] \in Segments
        /\ Cardinality({ n \in DOMAIN audit : audit[n] = c }) = (IF Stored(c) THEN 1 ELSE 0)

(* Overlapping requests leave what they would leave one after another:     *)
(* although its checks, its inserts and its commit are steps apart, each   *)
(* cable appears as if create_cable had run all at once (connectivity.py   *)
(* 80-137), and its event with it, in the order of the commits.            *)
CreatesAreAtomic == Atomic!Spec

(* Requests that want each other's ports do not block each other for ever, *)
(* and one that fails lets go of what it held.                             *)
EveryRequestEnds == \A r \in Requests : (req[r].at # "idle") ~> (req[r].at = "idle")

=============================================================================
