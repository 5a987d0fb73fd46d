------------------------------ MODULE Reports ------------------------------
(***************************************************************************)
(* Reading what others write: the cable schedule (export_cable_schedule of *)
(* services/reporting.py), the compliance report (services/compliance.py), *)
(* and the labels (services/labels.py), while cables are being created     *)
(* (Connectivity) and worked on.                                           *)
(*                                                                         *)
(* Each select of a report is a statement of its own under READ COMMITTED: *)
(* a later one sees rows that an earlier one did not.  A row that a        *)
(* session has loaded keeps its first values when it is selected again.    *)
(***************************************************************************)
EXTENDS Connectivity

CONSTANTS
    InOrder,        \* the cables in the order of their identifiers
    Locations,      \* locations
    Parent,         \* Parent[l]: parent_id of location l
    PortLocation,   \* PortLocation[p]: location of the device of port p
    Limit           \* the limit of the schedules asked for, 10 000 at most

ASSUME CablesAreOrdered ==
    /\ InOrder \in Seq(Cables) /\ Len(InOrder) = Cardinality(Cables)
    /\ Cables = { InOrder[n] : n \in DOMAIN InOrder }
ASSUME LocationsHaveParents ==
    /\ Parent \in [Locations -> Locations \cup {None}]
    /\ PortLocation \in [Ports -> Locations]
ASSUME LimitIsPositive == Limit \in Nat \ {0}

VARIABLES
    status,     \* status[c]: what filters and checks see of the work on cable c
    labels,     \* cables that have a label
    report,     \* the report under way, or the last one and its answer
    held        \* no part of the code: see Remember

reportVars == <<status, labels, report, held>>

----------------------------------------------------------------------------
(* "installed" is installed or later without test_status, which the        *)
(* compliance report calls unverified; "planned" is everything else.       *)
Statuses == {"planned", "installed"}

Committed == { c \in Cables : Stored(c) }
Matching(filter) == { c \in Committed : status[c] \in filter }
EndsOf(c) == {cables[c].a, cables[c].b} \ {None}

(* A location without parent is a root; parents are given at creation.     *)
Parents(places) == { Parent[l] : l \in places } \ {None}
Above(places) ==
    { l \in Locations : \A S \in SUBSET Locations :
                          places \cup Parents(S) \subseteq S => l \in S }

NoReport == [kind |-> "none", at |-> "idle", filter |-> {}, total |-> 0, rows |-> {},
             first |-> [c \in Cables |-> "planned"], ends |-> [c \in Cables |-> {}],
             places |-> {}, pending |-> {}, routes |-> [c \in Cables |-> <<>>],
             truncated |-> FALSE, labelled |-> {}, findings |-> {}]

ReportsInit ==
    /\ status = [c \in Cables |-> "planned"]
    /\ labels = {}
    /\ report = NoReport
    /\ held = {}

----------------------------------------------------------------------------
(* What others commit                                                      *)

(* mark_installed, submit_test, ...: CableWorkflow says when which may.    *)
Work(c) ==
    /\ Stored(c)
    /\ \E s \in Statuses \ {status[c]} : status' = [status EXCEPT ![c] = s]
    /\ UNCHANGED <<labels, report>>

CreateLabel(c) ==
    /\ Stored(c)
    /\ labels' = labels \cup {c}
    /\ UNCHANGED <<status, report>>

----------------------------------------------------------------------------
(* export_cable_schedule                                                   *)

Reading(kind, at) == report.kind = kind /\ report.at = at
OthersUnchanged == UNCHANGED <<status, labels>>

(* The first statement counts, without the limit.                          *)
BeginExportLimited(filter) ==
    /\ report.at = "idle"
    /\ report' = [NoReport EXCEPT
                    !.kind = "schedule", !.at = "rows", !.filter = filter,
                    !.total = IF Cardinality(Matching(filter)) > Limit THEN Limit
                              ELSE Cardinality(Matching(filter))]
    /\ OthersUnchanged
BeginExport(filter) ==
    /\ report.at = "idle"
    /\ report' = [NoReport EXCEPT !.kind = "schedule", !.at = "rows", !.filter = filter,
                                  !.total = Cardinality(Matching(filter))]
    /\ OthersUnchanged

(* order_by(identifier).limit(limit)                                       *)
FirstOf(S) ==
    { InOrder[n] : n \in { k \in DOMAIN InOrder :
        /\ InOrder[k] \in S
        /\ Cardinality({ i \in 1..k : InOrder[i] \in S }) <= Limit } }

SelectRows ==
    /\ Reading("schedule", "rows")
    /\ report' = [report EXCEPT !.rows = FirstOf(Matching(report.filter)), !.first = status,
                                !.at = "ends"]
    /\ OthersUnchanged

(* _endpoints_for                                                          *)
SelectEnds ==
    LET ends == [c \in Cables |-> IF c \in report.rows THEN EndsOf(c) ELSE {}]
    IN /\ Reading("schedule", "ends")
       /\ report' = [report EXCEPT !.ends = ends, !.at = "places",
                       !.pending = { PortLocation[p] : p \in UNION { ends[c] : c \in Cables } }]
       /\ OthersUnchanged

(* _location_ancestors: level by level; a parent that is fetched together  *)
(* with its child may be fetched again, as the rows have no order.         *)
SelectPlaces ==
    /\ Reading("schedule", "places") /\ report.pending # {}
    /\ \E again \in SUBSET (Parents(report.pending) \cap report.pending) :
         report' = [report EXCEPT
                      !.places = @ \cup report.pending,
                      !.pending = (Parents(@) \ (@ \cup report.places)) \cup again]
    /\ OthersUnchanged

(* _routes_for                                                             *)
SelectRoutes ==
    /\ Reading("schedule", "places") /\ report.pending = {}
    /\ report' = [report EXCEPT !.at = "commit",
                    !.routes = [c \in Cables |-> IF c \in report.rows THEN cables[c].route
                                                 ELSE <<>>]]
    /\ OthersUnchanged

(* The rows are written; the event that says as much as the answer does is *)
(* added and committed.                                                    *)
CommitExport ==
    /\ Reading("schedule", "commit")
    /\ report' = [report EXCEPT !.at = "done", 
                    !.truncated = Cardinality(report.rows) < report.total]
    /\ OthersUnchanged

----------------------------------------------------------------------------
(* ComplianceService.report                                                *)

BeginReport ==
    /\ report.at = "idle"
    /\ report' = [NoReport EXCEPT !.kind = "compliance", !.at = "labels",
                                  !.rows = Committed, !.first = status]
    /\ OthersUnchanged

SelectLabels ==
    /\ Reading("compliance", "labels")
    /\ report' = [report EXCEPT !.labelled = labels, !.at = "again"]
    /\ OthersUnchanged

(* All cables once more: those seen before with their first values.        *)
SelectCables ==
    /\ Reading("compliance", "again")
    /\ report' = [report EXCEPT
                    !.pending = Committed, !.at = "check",
                    !.first = [c \in Cables |-> IF c \in report.rows THEN report.first[c]
                                                ELSE status[c]]]
    /\ OthersUnchanged

Faults(c, terminations, labelled, stat) ==
    { <<kind, c>> : kind \in
        (IF Cardinality(terminations) # 2 THEN {"inconsistent_endpoints"} ELSE {})
          \cup (IF c \notin labelled THEN {"missing_label"} ELSE {})
          \cup (IF stat = "installed" THEN {"unverified_installation"} ELSE {}) }

(* The terminations of one cable at a time.                                *)
CheckCableOfFirst(c) ==
    /\ Reading("compliance", "check") /\ c \in report.pending
    /\ report' = [report EXCEPT
                    !.pending = @ \ {c},
                    !.findings = @ \cup Faults(c, IF c \in report.rows THEN EndsOf(c) ELSE {},
                                              report.labelled, report.first[c])]
    /\ OthersUnchanged
CheckCable(c) ==
    /\ Reading("compliance", "check") /\ c \in report.pending
    /\ report' = [report EXCEPT
                    !.pending = @ \ {c},
                    !.findings = @ \cup Faults(c, EndsOf(c), report.labelled, report.first[c])]
    /\ OthersUnchanged

AnswerReport ==
    /\ Reading("compliance", "check") /\ report.pending = {}
    /\ report' = [report EXCEPT !.at = "done"]
    /\ OthersUnchanged

ReportStep ==
    \/ SelectRows \/ SelectEnds \/ SelectPlaces \/ SelectRoutes \/ CommitExport
    \/ SelectLabels \/ SelectCables \/ (\E c \in Cables : CheckCable(c)) \/ AnswerReport

(* The answer has been read, and another report may be asked for.          *)
Forget ==
    /\ report.at = "done"
    /\ report' = NoReport
    /\ OthersUnchanged

----------------------------------------------------------------------------
(* While a schedule is made, held are the cables that have matched its     *)
(* filter all the time; during a compliance report, the findings that were *)
(* true at some time.                                                      *)
TrueFindings == UNION { Faults(c, EndsOf(c), labels, status[c]) : c \in Committed }

Remember ==
    held' = IF report'.at = "idle" THEN {}
            ELSE IF report'.at = "done" THEN held
            ELSE IF report'.kind = "compliance"
                 THEN TrueFindings' \cup (IF report.at = "idle" THEN {} ELSE held)
            ELSE IF report.at = "idle" THEN Matching(report'.filter)
            ELSE held \cap Matching(report.filter)'

ReportsNext ==
    /\ \/ Next /\ UNCHANGED <<status, labels, report>>
       \/ /\ \/ \E c \in Cables : Work(c) \/ CreateLabel(c)
             \/ BeginReport
             \/ \E s \in Statuses : BeginExport({s}) \/ BeginExport(Statuses)
             \/ ReportStep
             \/ Forget
          /\ UNCHANGED vars
    /\ Remember

ReportsSpec == Init /\ ReportsInit /\ [][ReportsNext]_<<vars, reportVars>>

----------------------------------------------------------------------------
(* Properties                                                              *)

Answered(kind) == Reading(kind, "done")

(* A schedule that is not marked truncated leaves out no cable that has    *)
(* matched its filter from its first statement to its last, unless its     *)
(* rows are full of others that came in between: the count is older than   *)
(* the rows.  Every row has both ends of its cable with the path of each   *)
(* up to the root, and the whole route, though all were selected later     *)
(* than the cable and after others had committed (reporting.py 158-254).   *)
SchedulesAreHonest ==
    Answered("schedule") =>
        /\ \/ report.truncated
           \/ held \subseteq report.rows
           \/ ~(report.rows \subseteq held) /\ Cardinality(report.rows) = Limit
        /\ \A c \in report.rows :
              /\ report.ends[c] = EndsOf(c) /\ Cardinality(report.ends[c]) = 2
              /\ Above({ PortLocation[p] : p \in report.ends[c] }) \subseteq report.places
              /\ report.routes[c] = cables[c].route
              /\ report.first[c] \in report.filter

(* What a compliance report finds was true at some time while it ran, and  *)
(* no cable is ever found without its two ends, though cables, labels and  *)
(* terminations are selected one after the other (compliance.py 31-103).   *)
FindingsWereTrue ==
    Answered("compliance") =>
        /\ report.findings \subseteq held
        /\ \A c \in Cables : <<"inconsistent_endpoints", c>> \notin report.findings

=============================================================================
