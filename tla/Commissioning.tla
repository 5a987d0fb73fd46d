--------------------------- MODULE Commissioning ---------------------------
(***************************************************************************)
(* What the cable workflow promises about putting a cable into service,    *)
(* with requests, sessions, rows and work orders left out: test records    *)
(* are submitted, a passed record is approved by somebody who did not      *)
(* carry out the test, and a cable enters service only in an approval.     *)
(*                                                                         *)
(* The promise is deliberately one that survives concurrent requests: a    *)
(* cable may leave service (a request that read the cable earlier writes   *)
(* an older status), and an approval may leave its cable where it was.     *)
(***************************************************************************)

CONSTANTS Cables, Tests, Actors, None

(* CableWorkflow assumes it of the constants it gives this module.         *)
NoneIsNoValue == None \notin Cables \cup Actors

VARIABLES
    record,     \* record[t]: what is stored of test record t
    inService   \* the cables in service

vars == <<record, inService>>

Records == [cable : Cables \cup {None}, tester : Actors \cup {None},
            result : {"PASS", "FAIL", None}, approver : Actors \cup {None}]

Absent == [cable |-> None, tester |-> None, result |-> None, approver |-> None]

TypeOK ==
    /\ record \in [Tests -> Records]
    /\ inService \in SUBSET Cables

Init ==
    /\ record = [t \in Tests |-> Absent]
    /\ inService = {}

(* A record appears.  Its cable may lose its place in service.             *)
Submit(t, c, a, res) ==
    /\ record[t].cable = None
    /\ record' = [record EXCEPT ![t] =
            [cable |-> c, tester |-> a, result |-> res, approver |-> None]]
    /\ inService' \in {inService, inService \ {c}}

(* A passed record is approved by an actor other than its tester.          *)
Approve(t, a) ==
    /\ record[t].cable # None
    /\ record[t].result = "PASS"
    /\ record[t].tester # a
    /\ record' = [record EXCEPT ![t].approver = a]
    /\ inService' \in {inService, inService \cup {record[t].cable}}

(* A cable leaves service.                                                 *)
Withdraw(c) ==
    /\ inService' = inService \ {c}
    /\ UNCHANGED record

Next ==
    \/ \E t \in Tests, c \in Cables, a \in Actors, res \in {"PASS", "FAIL"} :
          Submit(t, c, a, res)
    \/ \E t \in Tests, a \in Actors : Approve(t, a)
    \/ \E c \in Cables : Withdraw(c)

Spec == Init /\ [][Next]_vars

ApprovedPass(t, c) ==
    /\ record[t].cable = c
    /\ record[t].result = "PASS"
    /\ record[t].approver # None

(* Every cable in service has a passed test record that was approved.      *)
ServiceNeedsApproval ==
    \A c \in inService : \E t \in Tests : ApprovedPass(t, c)

(* Whoever approved a record is not who carried out its test, and an       *)
(* approved record is a passed one.                                        *)
ApprovalIsIndependent ==
    \A t \in Tests :
        record[t].approver # None =>
            /\ record[t].approver # record[t].tester
            /\ record[t].result = "PASS"

=============================================================================
