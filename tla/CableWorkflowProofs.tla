------------------------ MODULE CableWorkflowProofs ------------------------
(* What holds of CableWorkflow for any number of cables, work orders, test *)
(* records, users and request threads; the last part is about one thread.  *)
EXTENDS CableWorkflow, TLAPS

----------------------------------------------------------------------------
(* The rows that an UPDATE leaves are rows.                                *)

LEMMA UpdatedCableIsRow ==
    ASSUME NEW stored \in CableRow, NEW seen \in CableRow, NEW dirty \in CableRow
    PROVE  UpdatedCable(stored, seen, dirty) \in CableRow
BY DEF UpdatedCable, CableRow, Column, NextVersion

LEMMA UpdatedOrderIsRow ==
    ASSUME NEW stored \in OrderRow, NEW seen \in OrderRow,
           NEW status \in WorkOrderStatus
    PROVE  UpdatedOrder(stored, seen, status) \in OrderRow
BY DEF UpdatedOrder, OrderRow, NextVersion

LEMMA UpdatedTestIsRow ==
    ASSUME NEW stored \in TestRow, NEW seen \in TestRow, NEW dirty \in TestRow
    PROVE  UpdatedTest(stored, seen, dirty) \in TestRow
BY DEF UpdatedTest, TestRow, Column, NextVersion

LEMMA IdleIsRequest == Idle \in Request
BY DEF Idle, Request, NoCable, FreshCable, NoOrder, NoTest, CableRow, OrderRow, TestRow,
       CableStatus, WorkOrderStatus

(* What the session holds is a row, whatever the operation set in it.      *)
LEMMA SessionRows ==
    ASSUME TypeOK, RequestsWellFormed, NEW r \in Requests, req[r].at = "commit"
    PROVE  /\ req[r] \in Request
           /\ req[r].op \in {"install", "test", "approve"}
           /\ req[r].actor \in Actors
           /\ req[r].cable \in Cables
           /\ req[r].op = "install" => InstalledCable(r) \in CableRow
           /\ req[r].op = "test" => TestedCable(r) \in CableRow /\ SubmittedTest(r) \in TestRow
           /\ req[r].op = "approve" => CommissionedCable(r) \in CableRow /\ ApprovedTest(r) \in TestRow
           /\ \A status \in WorkOrderStatus :
                 OrdersAfter(r, status) \in [WorkOrders -> OrderRow]
<1>1. req[r] \in Request
  BY DEF TypeOK
<1>2. /\ req[r].op \in {"install", "test", "approve"}
      /\ req[r].actor \in Actors
      /\ req[r].cable \in Cables
  BY <1>1 DEF RequestsWellFormed, RequestWellFormed, Request
<1>3. req[r].op = "install" => InstalledCable(r) \in CableRow
  BY <1>1, <1>2 DEF InstalledCable, CableRow, Request, CableStatus
<1>4. ASSUME req[r].op = "test"
      PROVE  TestedCable(r) \in CableRow /\ SubmittedTest(r) \in TestRow
  <2>1. req[r].test \in Tests /\ req[r].result \in Results
    BY <1>4 DEF RequestsWellFormed, RequestWellFormed, PendingTest
  <2> QED
    BY <1>1, <1>2, <2>1 DEF TestedCable, SubmittedTest, CableRow, TestRow, Request, CableStatus
<1>5. req[r].op = "approve" => CommissionedCable(r) \in CableRow /\ ApprovedTest(r) \in TestRow
  BY <1>1, <1>2 DEF CommissionedCable, ApprovedTest, CableRow, TestRow, Request, CableStatus
<1>6. ASSUME NEW status \in WorkOrderStatus
      PROVE  OrdersAfter(r, status) \in [WorkOrders -> OrderRow]
  <2>1. req[r].seen_order \in OrderRow
    BY <1>1 DEF Request
  <2> QED
    BY <2>1, UpdatedOrderIsRow DEF OrdersAfter, TypeOK
<1> QED
  BY <1>1, <1>2, <1>3, <1>4, <1>5, <1>6

----------------------------------------------------------------------------
(* Types                                                                   *)

LEMMA FinishKeepsTypes ==
    ASSUME TypeOK, NEW r \in Requests, Finish(r)
    PROVE  req' \in [Requests -> Request]
BY IdleIsRequest DEF TypeOK, Finish

LEMMA EventIsTyped ==
    ASSUME NEW r \in Requests, req[r] \in Request, req[r].actor \in Actors,
           audit \in Seq(Event),
           NEW action \in {"cable.installed", "cable.tested", "cable.commissioned"},
           NEW before \in CableStatus \cup {None},
           NEW after \in CableStatus \cup Results \cup {None}
    PROVE  Append(audit, CableEvent(action, r, before, after)) \in Seq(Event)
<1>1. CableEvent(action, r, before, after) \in Event
  BY DEF CableEvent, Event, Request
<1> QED
  BY <1>1

LEMMA TypeOKStep ==
    ASSUME TypeOK, RequestsWellFormed, [Next]_vars
    PROVE  TypeOK'
<1>1. ASSUME NEW a \in Actors, NEW w \in WorkOrders, NEW c \in Cables \cup {None},
             CreateWorkOrder(a, w, c)
      PROVE  TypeOK'
  <2>1. [cable |-> c, status |-> "ready", version |-> 1] \in OrderRow
    BY DEF OrderRow, WorkOrderStatus
  <2>2. [action |-> "workorder.created", actor |-> a, cable |-> None, test |-> None,
         order |-> w, before |-> None, after |-> None] \in Event
    BY DEF Event
  <2> QED
    BY <1>1, <2>1, <2>2 DEF CreateWorkOrder, TypeOK
<1>2. ASSUME NEW r \in Requests, NEW a \in Actors, NEW c \in Cables,
             NEW w \in WorkOrders \cup {None}, BeginInstall(r, a, c, w)
      PROVE  TypeOK'
  <2>1. [Idle EXCEPT !.at = AfterCable(w), !.op = "install", !.actor = a,
                     !.cable = c, !.order = w, !.seen_cable = cables[c]] \in Request
    BY IdleIsRequest DEF Idle, Request, AfterCable, TypeOK
  <2> QED
    BY <1>2, <2>1 DEF BeginInstall, TypeOK
<1>3. ASSUME NEW r \in Requests, NEW a \in Actors, NEW c \in Cables,
             NEW result \in Results, NEW w \in WorkOrders \cup {None},
             NEW t \in Tests, BeginTest(r, a, c, result, w, t)
      PROVE  TypeOK'
  <2>1. [Idle EXCEPT !.at = AfterCable(w), !.op = "test", !.actor = a, !.cable = c,
                     !.order = w, !.test = t, !.result = result,
                     !.seen_cable = cables[c]] \in Request
    BY IdleIsRequest DEF Idle, Request, AfterCable, TypeOK
  <2> QED
    BY <1>3, <2>1 DEF BeginTest, TypeOK
<1>4. ASSUME NEW r \in Requests, NEW a \in Actors, NEW t \in Tests,
             BeginApprove(r, a, t)
      PROVE  TypeOK'
  <2>1. tests[t] \in TestRow
    BY DEF TypeOK
  <2>2. [Idle EXCEPT !.at = "read_cable", !.op = "approve", !.actor = a,
                     !.cable = tests[t].cable, !.order = tests[t].order, !.test = t,
                     !.seen_test = tests[t]] \in Request
    BY <2>1, IdleIsRequest DEF Idle, Request, TestRow
  <2> QED
    BY <1>4, <2>2 DEF BeginApprove, TypeOK
<1>5. ASSUME NEW r \in Requests, ReadCable(r)
      PROVE  TypeOK'
  <2>1. req[r] \in Request /\ req[r].cable \in Cables
    BY <1>5 DEF ReadCable, RequestsWellFormed, RequestWellFormed, TypeOK
  <2>2. [req[r] EXCEPT !.at = AfterCable(req[r].order),
                       !.seen_cable = cables[req[r].cable]] \in Request
    BY <2>1 DEF Request, AfterCable, TypeOK
  <2> QED
    BY <1>5, <2>2 DEF ReadCable, TypeOK
<1>6. ASSUME NEW r \in Requests, ReadOrder(r)
      PROVE  TypeOK'
  <2>1. req[r] \in Request
    BY DEF TypeOK
  <2>2. req[r].order \in WorkOrders
    BY <1>6, <2>1 DEF ReadOrder, RequestsWellFormed, RequestWellFormed, Request
  <2>3. [req[r] EXCEPT !.at = "commit", !.seen_order = orders[req[r].order]] \in Request
    BY <2>1, <2>2 DEF Request, TypeOK
  <2> QED
    BY <1>6, <2>3 DEF ReadOrder, TypeOK
<1>7. ASSUME NEW r \in Requests, RejectFailed(r) \/ RejectOrder(r) \/ Abort(r)
      PROVE  TypeOK'
  BY <1>7, FinishKeepsTypes DEF RejectFailed, RejectOrder, Abort, TypeOK
<1>8. ASSUME NEW r \in Requests, CommitInstall(r)
      PROVE  TypeOK'
  <2> DEFINE seen == req[r].seen_cable
  <2>1. req[r].at = "commit" /\ req[r].op = "install" /\ Finish(r)
    BY <1>8 DEF CommitInstall
  <2>2. seen \in CableRow /\ InstalledCable(r) \in CableRow
    BY <2>1, SessionRows DEF Request
  <2>3. cables' \in [Cables -> CableRow]
    BY <1>8, <2>2, UpdatedCableIsRow DEF CommitInstall, TypeOK
  <2>4. orders' \in [WorkOrders -> OrderRow]
    BY <1>8, <2>1, SessionRows DEF CommitInstall, WorkOrderStatus
  <2>5. audit' \in Seq(Event)
    <3>1. seen.status \in CableStatus /\ InstalledCable(r).status \in CableStatus
      BY <2>2 DEF CableRow
    <3> QED
      BY <1>8, <2>1, <3>1, SessionRows, EventIsTyped DEF CommitInstall, TypeOK
  <2> QED
    BY <1>8, <2>1, <2>3, <2>4, <2>5, FinishKeepsTypes DEF CommitInstall, TypeOK
<1>9. ASSUME NEW r \in Requests, CommitTest(r)
      PROVE  TypeOK'
  <2>1. req[r].at = "commit" /\ req[r].op = "test" /\ Finish(r)
    BY <1>9 DEF CommitTest
  <2>2. /\ req[r].seen_cable \in CableRow
        /\ TestedCable(r) \in CableRow
        /\ SubmittedTest(r) \in TestRow
        /\ req[r].result \in Results
    BY <2>1, SessionRows DEF Request, RequestsWellFormed, RequestWellFormed, PendingTest
  <2>3. cables' \in [Cables -> CableRow]
    BY <1>9, <2>2, UpdatedCableIsRow DEF CommitTest, TypeOK
  <2>4. orders' \in [WorkOrders -> OrderRow]
    BY <1>9, <2>1, SessionRows DEF CommitTest, WorkOrderStatus
  <2>5. audit' \in Seq(Event)
    BY <1>9, <2>1, <2>2, SessionRows, EventIsTyped DEF CommitTest, TypeOK
  <2>6. tests' \in [Tests -> TestRow]
    BY <1>9, <2>2 DEF CommitTest, TypeOK
  <2> QED
    BY <2>1, <2>3, <2>4, <2>5, <2>6, FinishKeepsTypes DEF TypeOK
<1>10. ASSUME NEW r \in Requests, CommitApproval(r)
       PROVE  TypeOK'
  <2>1. req[r].at = "commit" /\ req[r].op = "approve" /\ Finish(r)
    BY <1>10 DEF CommitApproval
  <2>2. /\ req[r].seen_cable \in CableRow
        /\ req[r].seen_test \in TestRow
        /\ CommissionedCable(r) \in CableRow
        /\ ApprovedTest(r) \in TestRow
    BY <2>1, SessionRows DEF Request
  <2>3. cables' \in [Cables -> CableRow]
    BY <1>10, <2>2, UpdatedCableIsRow DEF CommitApproval, TypeOK
  <2>4. orders' \in [WorkOrders -> OrderRow]
    BY <1>10, <2>1, SessionRows DEF CommitApproval, WorkOrderStatus
  <2>5. audit' \in Seq(Event)
    <3>1. req[r].seen_cable.status \in CableStatus /\ "in_service" \in CableStatus
      BY <2>2 DEF CableRow, CableStatus
    <3> QED
      BY <1>10, <2>1, <3>1, SessionRows, EventIsTyped
      DEF CommitApproval, LogApproval, Commissioned, TypeOK
  <2>6. tests' \in [Tests -> TestRow]
    BY <1>10, <2>2, UpdatedTestIsRow DEF CommitApproval, TypeOK
  <2> QED
    BY <2>1, <2>3, <2>4, <2>5, <2>6, FinishKeepsTypes DEF TypeOK
<1>11. CASE UNCHANGED vars
  BY <1>11 DEF vars, TypeOK
<1> QED
  BY <1>1, <1>2, <1>3, <1>4, <1>5, <1>6, <1>7, <1>8, <1>9, <1>10, <1>11 DEF Next

----------------------------------------------------------------------------
(* What a commit does to the test records                                  *)

(* The record that a submission inserts was not there before.              *)
LEMMA SubmissionWrites ==
    ASSUME IndInv, NEW r \in Requests, CommitTest(r)
    PROVE  /\ req[r].test \in Tests
           /\ tests[req[r].test] = NoTest
           /\ tests'[req[r].test] = SubmittedTest(r)
           /\ req[r].actor \in Actors /\ req[r].cable \in Cables
           /\ req[r].result \in Results
           /\ \A t \in Tests \ {req[r].test} : tests'[t] = tests[t]
<1>1. req[r].at = "commit" /\ req[r].op = "test"
  BY DEF CommitTest
<1>2. PendingTest(r) /\ req[r].actor \in Actors /\ req[r].cable \in Cables
  BY <1>1 DEF IndInv, RequestsWellFormed, RequestWellFormed
<1> QED
  BY <1>2 DEF CommitTest, PendingTest, IndInv, TypeOK

(* An approval always writes status and approver, because the request saw  *)
(* neither of them set, and it leaves the other columns as they are.       *)
LEMMA ApprovalWrites ==
    ASSUME IndInv, NEW r \in Requests, CommitApproval(r)
    PROVE  LET t == req[r].test
           IN  /\ t \in Tests /\ req[r].actor \in Actors
               /\ tests[t].status # "absent"
               /\ tests[t].result = "PASS"
               /\ tests[t].cable = req[r].cable
               /\ tests[t].tester # req[r].actor
               /\ tests'[t].status = "approved"
               /\ tests'[t].approved_by = req[r].actor
               /\ tests'[t].cable = tests[t].cable
               /\ tests'[t].order = tests[t].order
               /\ tests'[t].tester = tests[t].tester
               /\ tests'[t].result = tests[t].result
               /\ \A u \in Tests \ {t} : tests'[u] = tests[u]
<1>1. req[r].at = "commit" /\ req[r].op = "approve" /\ req[r] \in Request
  BY DEF CommitApproval, IndInv, TypeOK
<1>2. PendingApproval(r) /\ req[r].actor \in Actors
  BY <1>1 DEF IndInv, RequestsWellFormed, RequestWellFormed
<1>3. /\ req[r].test \in Tests
      /\ tests[req[r].test].status # "absent"
      /\ tests[req[r].test].result = "PASS"
      /\ tests[req[r].test].cable = req[r].cable
      /\ tests[req[r].test].tester # req[r].actor
      /\ req[r].seen_test.status = "submitted"
      /\ req[r].seen_test.approved_by = None
      /\ req[r].seen_test \in TestRow
  BY <1>1, <1>2 DEF PendingApproval, Request
<1>4. /\ ApprovedTest(r).status = "approved"
      /\ ApprovedTest(r).approved_by = req[r].actor
  BY <1>3 DEF ApprovedTest, TestRow
<1>5. ApprovedTest(r) # req[r].seen_test
  BY <1>3, <1>4
<1>6. req[r].actor # None
  BY <1>2, NoneIsNoActor
<1>7. tests' = [tests EXCEPT ![req[r].test] =
          UpdatedTest(tests[req[r].test], req[r].seen_test, ApprovedTest(r))]
  BY DEF CommitApproval
<1>8. UpdatedTest(tests[req[r].test], req[r].seen_test, ApprovedTest(r)) =
        [cable |-> tests[req[r].test].cable, order |-> tests[req[r].test].order,
         tester |-> tests[req[r].test].tester,
         result |-> tests[req[r].test].result, status |-> "approved",
         approved_by |-> req[r].actor,
         version |-> req[r].seen_test.version + 1]
  BY <1>3, <1>4, <1>5, <1>6 DEF UpdatedTest, Column, NextVersion
<1> QED
  BY <1>2, <1>3, <1>7, <1>8 DEF IndInv, TypeOK

(* Any other step leaves the records alone.                                *)
LEMMA OtherStepsKeepRecords ==
    ASSUME [Next]_vars, \A r \in Requests : ~ CommitTest(r) /\ ~ CommitApproval(r)
    PROVE  tests' = tests
BY DEF Next, vars, CreateWorkOrder, BeginInstall, BeginTest, BeginApprove, ReadCable,
       RejectFailed, ReadOrder, RejectOrder, CommitInstall, Abort

LEMMA RecordsStep ==
    ASSUME IndInv, [Next]_vars
    PROVE  RecordsWellFormed'
<1>1. ASSUME NEW r \in Requests, CommitTest(r)
      PROVE  RecordsWellFormed'
  <2>1. /\ tests'[req[r].test] = SubmittedTest(r)
        /\ req[r].actor \in Actors /\ req[r].cable \in Cables
        /\ req[r].result \in Results
        /\ \A t \in Tests \ {req[r].test} : tests'[t] = tests[t]
    BY <1>1, SubmissionWrites
  <2>2. /\ tests'[req[r].test].status = "submitted"
        /\ tests'[req[r].test].approved_by = None
        /\ tests'[req[r].test].cable \in Cables
        /\ tests'[req[r].test].tester \in Actors
        /\ tests'[req[r].test].result \in Results
    BY <2>1 DEF SubmittedTest
  <2> QED
    BY <2>1, <2>2 DEF IndInv, RecordsWellFormed
<1>2. ASSUME NEW r \in Requests, CommitApproval(r)
      PROVE  RecordsWellFormed'
  <2> DEFINE t == req[r].test
  <2>1. /\ t \in Tests /\ req[r].actor \in Actors
        /\ tests[t].status # "absent"
        /\ tests[t].result = "PASS"
        /\ tests[t].tester # req[r].actor
        /\ tests'[t].status = "approved"
        /\ tests'[t].approved_by = req[r].actor
        /\ tests'[t].cable = tests[t].cable
        /\ tests'[t].tester = tests[t].tester
        /\ tests'[t].result = tests[t].result
        /\ \A u \in Tests \ {t} : tests'[u] = tests[u]
    BY <1>2, ApprovalWrites
  <2>2. tests[t] # NoTest
    BY <2>1 DEF NoTest
  <2>3. tests[t].cable \in Cables /\ tests[t].tester \in Actors
    BY <2>1, <2>2 DEF IndInv, RecordsWellFormed
  <2> QED
    BY <2>1, <2>3 DEF IndInv, RecordsWellFormed
<1>3. CASE \A r \in Requests : ~ CommitTest(r) /\ ~ CommitApproval(r)
  BY <1>3, OtherStepsKeepRecords DEF IndInv, RecordsWellFormed
<1> QED
  BY <1>1, <1>2, <1>3

(* What a record says never changes once it is stored, and neither does    *)
(* that it was approved.                                                   *)
LEMMA RecordsAreStable ==
    ASSUME IndInv, [Next]_vars, NEW t \in Tests, tests[t].status # "absent"
    PROVE  /\ tests'[t].status # "absent"
           /\ tests'[t].cable = tests[t].cable
           /\ tests'[t].order = tests[t].order
           /\ tests'[t].tester = tests[t].tester
           /\ tests'[t].result = tests[t].result
           /\ tests[t].status = "approved" => tests'[t].status = "approved"
<1>1. ASSUME NEW r \in Requests, CommitTest(r)
      PROVE  tests'[t] = tests[t]
  <2>1. t # req[r].test
    BY <1>1, SubmissionWrites DEF NoTest
  <2> QED
    BY <1>1, <2>1, SubmissionWrites
<1>2. ASSUME NEW r \in Requests, CommitApproval(r), t = req[r].test
      PROVE  /\ tests'[t].status = "approved"
             /\ tests'[t].cable = tests[t].cable
             /\ tests'[t].order = tests[t].order
             /\ tests'[t].tester = tests[t].tester
             /\ tests'[t].result = tests[t].result
  BY <1>2, ApprovalWrites
<1>3. ASSUME NEW r \in Requests, CommitApproval(r), t # req[r].test
      PROVE  tests'[t] = tests[t]
  BY <1>3, ApprovalWrites
<1>4. CASE \A r \in Requests : ~ CommitTest(r) /\ ~ CommitApproval(r)
  BY <1>4, OtherStepsKeepRecords
<1> QED
  BY <1>1, <1>2, <1>3, <1>4

----------------------------------------------------------------------------
(* What a commit does to a cable's place in service                        *)

(* A session's UPDATE can put a cable in service only by its own status.   *)
LEMMA UpdateEntersService ==
    ASSUME NEW stored \in CableRow, NEW seen \in CableRow, NEW dirty \in CableRow,
           UpdatedCable(stored, seen, dirty).status = "in_service"
    PROVE  stored.status = "in_service" \/ dirty.status = "in_service"
BY DEF UpdatedCable, Column

LEMMA EntersServiceByApproval ==
    ASSUME IndInv, [Next]_vars, NEW c \in Cables,
           cables'[c].status = "in_service", cables[c].status # "in_service"
    PROVE  \E r \in Requests : CommitApproval(r) /\ req[r].cable = c
<1>1. ASSUME NEW r \in Requests, CommitInstall(r)
      PROVE  FALSE
  <2>1. req[r].at = "commit" /\ req[r].op = "install"
    BY <1>1 DEF CommitInstall
  <2>2. /\ req[r].seen_cable \in CableRow /\ InstalledCable(r) \in CableRow
        /\ InstalledCable(r).status = "installed"
    BY <2>1, SessionRows DEF IndInv, Request, InstalledCable, CableRow
  <2>3. cables' = [cables EXCEPT ![req[r].cable] =
            UpdatedCable(cables[req[r].cable], req[r].seen_cable, InstalledCable(r))]
    BY <1>1 DEF CommitInstall
  <2> QED
    BY <2>2, <2>3, UpdateEntersService DEF IndInv, TypeOK
<1>2. ASSUME NEW r \in Requests, CommitTest(r)
      PROVE  FALSE
  <2>1. req[r].at = "commit" /\ req[r].op = "test"
    BY <1>2 DEF CommitTest
  <2>2. /\ req[r].seen_cable \in CableRow /\ TestedCable(r) \in CableRow
        /\ TestedCable(r).status = "tested"
    BY <2>1, SessionRows DEF IndInv, Request, TestedCable, CableRow
  <2>3. cables' = [cables EXCEPT ![req[r].cable] =
            UpdatedCable(cables[req[r].cable], req[r].seen_cable, TestedCable(r))]
    BY <1>2 DEF CommitTest
  <2> QED
    BY <2>2, <2>3, UpdateEntersService DEF IndInv, TypeOK
<1>3. ASSUME NEW r \in Requests, CommitApproval(r)
      PROVE  req[r].cable = c
  BY <1>3 DEF CommitApproval, IndInv, TypeOK
<1>4. CASE \A r \in Requests : ~ CommitInstall(r) /\ ~ CommitTest(r) /\ ~ CommitApproval(r)
  <2>1. cables' = cables
    BY <1>4 DEF Next, vars, CreateWorkOrder, BeginInstall, BeginTest, BeginApprove,
        ReadCable, RejectFailed, ReadOrder, RejectOrder, Abort
  <2> QED
    BY <2>1
<1> QED
  BY <1>1, <1>2, <1>3, <1>4

LEMMA InServiceStep ==
    ASSUME IndInv, [Next]_vars
    PROVE  InServiceHasApprovedPass'
<1> SUFFICES ASSUME NEW c \in Cables, cables'[c].status = "in_service"
             PROVE  \E t \in Tests : ApprovedPass(t, c)'
  BY DEF InServiceHasApprovedPass
<1>1. CASE cables[c].status = "in_service"
  <2>1. PICK t \in Tests : ApprovedPass(t, c)
    BY <1>1 DEF IndInv, InServiceHasApprovedPass
  <2>2. tests[t].status # "absent"
    BY <2>1 DEF ApprovedPass
  <2> QED
    BY <2>1, <2>2, RecordsAreStable DEF ApprovedPass
<1>2. CASE cables[c].status # "in_service"
  <2>1. PICK r \in Requests : CommitApproval(r) /\ req[r].cable = c
    BY <1>2, EntersServiceByApproval
  <2>2. /\ req[r].test \in Tests
        /\ tests'[req[r].test].status = "approved"
        /\ tests'[req[r].test].cable = tests[req[r].test].cable
        /\ tests'[req[r].test].result = tests[req[r].test].result
        /\ tests[req[r].test].cable = c
        /\ tests[req[r].test].result = "PASS"
    BY <2>1, ApprovalWrites
  <2>3. \E t \in Tests : /\ tests'[t].cable = c
                        /\ tests'[t].result = "PASS"
                        /\ tests'[t].status = "approved"
    BY <2>2
  <2> QED
    BY <2>3 DEF ApprovedPass
<1> QED
  BY <1>1, <1>2

----------------------------------------------------------------------------
(* What the requests have loaded stays true                                *)

(* A pending request that does not move in a step keeps its claims.        *)
LEMMA WaitingRequests ==
    ASSUME IndInv, [Next]_vars, NEW r \in Requests, req'[r] = req[r],
           \A q \in Requests : req'[q].op = "test" =>
                \/ req'[q] = req[q]
                \/ req[r].op = "test" => req'[q].test # req[r].test
    PROVE  /\ req[r].op = "test" => PendingTest(r)'
           /\ req[r].op = "approve" => PendingApproval(r)'
<1>0. ~ CommitTest(r)
  BY DEF CommitTest, Finish, Idle, IndInv, TypeOK
<1>1. ASSUME req[r].op = "test"
      PROVE  PendingTest(r)'
  <2>1. PendingTest(r)
    BY <1>1 DEF IndInv, RequestsWellFormed, RequestWellFormed
  <2>2. tests'[req[r].test] = NoTest
    <3>1. ASSUME NEW q \in Requests, CommitTest(q)
          PROVE  tests'[req[r].test] = NoTest
      <4>1. q # r /\ req[q].op = "test"
        BY <1>0, <3>1 DEF CommitTest
      <4>2. req[q].test # req[r].test
        BY <2>1, <4>1 DEF PendingTest
      <4> QED
        BY <2>1, <3>1, <4>2, SubmissionWrites DEF PendingTest
    <3>2. ASSUME NEW q \in Requests, CommitApproval(q)
          PROVE  tests'[req[r].test] = NoTest
      <4>1. req[q].test # req[r].test
        BY <2>1, <3>2, ApprovalWrites DEF PendingTest, NoTest
      <4> QED
        BY <2>1, <3>2, <4>1, ApprovalWrites DEF PendingTest
    <3>3. CASE \A q \in Requests : ~ CommitTest(q) /\ ~ CommitApproval(q)
      BY <2>1, <3>3, OtherStepsKeepRecords DEF PendingTest
    <3> QED
      BY <3>1, <3>2, <3>3
  <2>3. ASSUME NEW q \in Requests, q # r, req'[q].op = "test"
        PROVE  req'[q].test # req[r].test
    BY <1>1, <2>1, <2>3 DEF PendingTest
  <2> QED
    BY <2>1, <2>2, <2>3 DEF PendingTest
<1>2. ASSUME req[r].op = "approve"
      PROVE  PendingApproval(r)'
  <2>1. PendingApproval(r)
    BY <1>2 DEF IndInv, RequestsWellFormed, RequestWellFormed
  <2>2. req[r].test \in Tests /\ tests[req[r].test].status # "absent"
    BY <2>1 DEF PendingApproval
  <2>3. /\ tests'[req[r].test].status # "absent"
        /\ tests'[req[r].test].cable = tests[req[r].test].cable
        /\ tests'[req[r].test].order = tests[req[r].test].order
        /\ tests'[req[r].test].tester = tests[req[r].test].tester
        /\ tests'[req[r].test].result = tests[req[r].test].result
    BY <2>2, RecordsAreStable
  <2> QED
    BY <2>1, <2>3 DEF PendingApproval
<1> QED
  BY <1>1, <1>2

(* One request moves in a step.  If it starts a test, the record it will   *)
(* insert is no other request's.                                           *)
LEMMA OtherRequestsStep ==
    ASSUME IndInv, [Next]_vars, NEW r \in Requests, NEW x,
           req' = [req EXCEPT ![r] = x],
           x.op = "test" =>
             \A q \in Requests \ {r} : req[q].op = "test" => x.test # req[q].test
    PROVE  \A q \in Requests \ {r} : RequestWellFormed(q)'
<1> SUFFICES ASSUME NEW q \in Requests \ {r}
             PROVE  RequestWellFormed(q)'
  OBVIOUS
<1>1. \A u \in Requests : req'[u] = IF u = r THEN x ELSE req[u]
  BY DEF IndInv, TypeOK
<1>2. req'[q] = req[q] /\ RequestWellFormed(q)
  BY <1>1 DEF IndInv, RequestsWellFormed
<1>3. \A u \in Requests : req'[u].op = "test" =>
          \/ req'[u] = req[u]
          \/ req[q].op = "test" => req'[u].test # req[q].test
  BY <1>1
<1>4. /\ req[q].op = "test" => PendingTest(q)'
      /\ req[q].op = "approve" => PendingApproval(q)'
  BY <1>2, <1>3, WaitingRequests
<1> QED
  BY <1>2, <1>4 DEF RequestWellFormed

LEMMA FinishedRequest ==
    ASSUME IndInv, [Next]_vars, NEW r \in Requests, Finish(r)
    PROVE  RequestsWellFormed'
<1>1. \A q \in Requests \ {r} : RequestWellFormed(q)'
  <2>1. req' = [req EXCEPT ![r] = Idle] /\ Idle.op # "test"
    BY DEF Finish, Idle
  <2> QED
    BY <2>1, OtherRequestsStep
<1>2. req'[r] = Idle
  BY DEF Finish, IndInv, TypeOK
<1>3. RequestWellFormed(r)'
  BY <1>2 DEF RequestWellFormed, Idle
<1> QED
  BY <1>1, <1>3 DEF RequestsWellFormed

LEMMA RequestsStep ==
    ASSUME IndInv, [Next]_vars
    PROVE  RequestsWellFormed'
<1>1. ASSUME UNCHANGED req
      PROVE  RequestsWellFormed'
  <2>1. ASSUME NEW r \in Requests
        PROVE  RequestWellFormed(r)'
    <3>1. /\ req[r].op = "test" => PendingTest(r)'
          /\ req[r].op = "approve" => PendingApproval(r)'
      BY <1>1, WaitingRequests
    <3> QED
      BY <1>1, <3>1 DEF IndInv, RequestsWellFormed, RequestWellFormed
  <2> QED
    BY <2>1 DEF RequestsWellFormed
<1>2. ASSUME NEW r \in Requests, NEW a \in Actors, NEW c \in Cables,
             NEW w \in WorkOrders \cup {None}, BeginInstall(r, a, c, w)
      PROVE  RequestsWellFormed'
  <2> DEFINE x == [Idle EXCEPT !.at = AfterCable(w), !.op = "install", !.actor = a,
                               !.cable = c, !.order = w, !.seen_cable = cables[c]]
  <2>1. req' = [req EXCEPT ![r] = x]
    BY <1>2 DEF BeginInstall
  <2>2. /\ x.at = AfterCable(w) /\ x.op = "install" /\ x.actor = a
        /\ x.cable = c /\ x.order = w
    BY DEF Idle
  <2> HIDE DEF x
  <2>3. \A q \in Requests \ {r} : RequestWellFormed(q)'
    BY <2>1, <2>2, OtherRequestsStep
  <2>4. req'[r] = x
    BY <2>1 DEF IndInv, TypeOK
  <2>5. RequestWellFormed(r)'
    BY <2>2, <2>4 DEF RequestWellFormed, AfterCable
  <2> QED
    BY <2>3, <2>5 DEF RequestsWellFormed
<1>3. ASSUME NEW r \in Requests, NEW a \in Actors, NEW c \in Cables,
             NEW result \in Results, NEW w \in WorkOrders \cup {None},
             NEW t \in Tests, BeginTest(r, a, c, result, w, t)
      PROVE  RequestsWellFormed'
  <2> DEFINE x == [Idle EXCEPT !.at = AfterCable(w), !.op = "test", !.actor = a,
                               !.cable = c, !.order = w, !.test = t,
                               !.result = result, !.seen_cable = cables[c]]
  <2>1. req' = [req EXCEPT ![r] = x] /\ tests' = tests /\ Unused(t)
    BY <1>3 DEF BeginTest
  <2>2. /\ x.at = AfterCable(w) /\ x.op = "test" /\ x.actor = a
        /\ x.cable = c /\ x.order = w /\ x.test = t /\ x.result = result
    BY DEF Idle
  <2> HIDE DEF x
  <2>3. \A q \in Requests : req[q].op = "test" => t # req[q].test
    BY <2>1 DEF Unused
  <2>4. \A q \in Requests \ {r} : RequestWellFormed(q)'
    BY <2>1, <2>2, <2>3, OtherRequestsStep
  <2>5. \A q \in Requests : req'[q] = IF q = r THEN x ELSE req[q]
    BY <2>1 DEF IndInv, TypeOK
  <2>6. tests'[t] = NoTest
    BY <2>1 DEF Unused, IndInv, RecordsWellFormed
  <2>7. PendingTest(r)'
    BY <2>2, <2>3, <2>5, <2>6 DEF PendingTest
  <2>8. RequestWellFormed(r)'
    BY <2>2, <2>5, <2>7 DEF RequestWellFormed, AfterCable
  <2> QED
    BY <2>4, <2>8 DEF RequestsWellFormed
<1>4. ASSUME NEW r \in Requests, NEW a \in Actors, NEW t \in Tests,
             BeginApprove(r, a, t)
      PROVE  RequestsWellFormed'
  <2> DEFINE x == [Idle EXCEPT !.at = "read_cable", !.op = "approve", !.actor = a,
                               !.cable = tests[t].cable, !.order = tests[t].order,
                               !.test = t, !.seen_test = tests[t]]
  <2>1. /\ req' = [req EXCEPT ![r] = x] /\ tests' = tests
        /\ tests[t].status # "absent" /\ tests[t].status # "approved"
        /\ tests[t].tester # a
    BY <1>4 DEF BeginApprove, Approvable
  <2>2. /\ x.at = "read_cable" /\ x.op = "approve" /\ x.actor = a
        /\ x.cable = tests[t].cable /\ x.order = tests[t].order /\ x.test = t
        /\ x.seen_test = tests[t]
    BY DEF Idle
  <2> HIDE DEF x
  <2>3. \A q \in Requests \ {r} : RequestWellFormed(q)'
    BY <2>1, <2>2, OtherRequestsStep
  <2>4. req'[r] = x
    BY <2>1 DEF IndInv, TypeOK
  <2>5. /\ tests[t].status = "submitted" /\ tests[t].approved_by = None
        /\ tests[t].cable \in Cables
    BY <2>1 DEF IndInv, RecordsWellFormed, NoTest
  <2>6. PendingApproval(r)'
    BY <2>1, <2>2, <2>4, <2>5 DEF PendingApproval
  <2>7. RequestWellFormed(r)'
    BY <2>2, <2>4, <2>5, <2>6 DEF RequestWellFormed
  <2> QED
    BY <2>3, <2>7 DEF RequestsWellFormed
<1>5. ASSUME NEW r \in Requests, ReadCable(r)
      PROVE  RequestsWellFormed'
  <2> DEFINE x == [req[r] EXCEPT !.at = AfterCable(req[r].order),
                                 !.seen_cable = cables[req[r].cable]]
  <2>1. /\ req' = [req EXCEPT ![r] = x] /\ tests' = tests
        /\ req[r].at = "read_cable" /\ req[r].seen_test.result = "PASS"
    BY <1>5 DEF ReadCable, IndInv, TypeOK
  <2>2. req[r] \in Request /\ RequestWellFormed(r)
    BY DEF IndInv, TypeOK, RequestsWellFormed
  <2>3. req[r].op = "approve" /\ PendingApproval(r)
    BY <2>1, <2>2 DEF RequestWellFormed
  <2>4. /\ x.at = AfterCable(req[r].order) /\ x.op = req[r].op
        /\ x.actor = req[r].actor /\ x.cable = req[r].cable
        /\ x.order = req[r].order /\ x.test = req[r].test
        /\ x.seen_test = req[r].seen_test
    BY <2>2 DEF Request
  <2> HIDE DEF x
  <2>5. \A q \in Requests \ {r} : RequestWellFormed(q)'
    BY <2>1, <2>3, <2>4, OtherRequestsStep
  <2>6. req'[r] = x
    BY <2>1 DEF IndInv, TypeOK
  <2>7. PendingApproval(r)'
    BY <2>1, <2>3, <2>4, <2>6 DEF PendingApproval
  <2>8. RequestWellFormed(r)'
    BY <2>1, <2>2, <2>3, <2>4, <2>6, <2>7 DEF RequestWellFormed, AfterCable
  <2> QED
    BY <2>5, <2>8 DEF RequestsWellFormed
<1>6. ASSUME NEW r \in Requests, ReadOrder(r)
      PROVE  RequestsWellFormed'
  <2> DEFINE x == [req[r] EXCEPT !.at = "commit", !.seen_order = orders[req[r].order]]
  <2>1. /\ req' = [req EXCEPT ![r] = x] /\ tests' = tests
        /\ req[r].at = "read_order"
    BY <1>6 DEF ReadOrder, IndInv, TypeOK
  <2>2. req[r] \in Request /\ RequestWellFormed(r)
    BY DEF IndInv, TypeOK, RequestsWellFormed
  <2>3. /\ x.at = "commit" /\ x.op = req[r].op
        /\ x.actor = req[r].actor /\ x.cable = req[r].cable
        /\ x.order = req[r].order /\ x.test = req[r].test
        /\ x.result = req[r].result /\ x.seen_test = req[r].seen_test
    BY <2>2 DEF Request
  <2> HIDE DEF x
  <2>4. x.op = "test" => \A q \in Requests \ {r} :
            req[q].op = "test" => x.test # req[q].test
    BY <2>2, <2>3 DEF RequestWellFormed, PendingTest
  <2>5. \A q \in Requests : req'[q] = IF q = r THEN x ELSE req[q]
    BY <2>1 DEF IndInv, TypeOK
  <2>6. ASSUME NEW q \in Requests \ {r}
        PROVE  RequestWellFormed(q)'
    BY <2>1, <2>4, OtherRequestsStep
  <2>7. req[r].op = "test" => PendingTest(r)'
    BY <2>1, <2>2, <2>3, <2>5 DEF RequestWellFormed, PendingTest
  <2>8. req[r].op = "approve" => PendingApproval(r)'
    BY <2>1, <2>2, <2>3, <2>5 DEF RequestWellFormed, PendingApproval
  <2>9. RequestWellFormed(r)'
    BY <2>1, <2>2, <2>3, <2>5, <2>7, <2>8 DEF RequestWellFormed
  <2> QED
    BY <2>6, <2>9 DEF RequestsWellFormed
<1>7. ASSUME NEW r \in Requests,
             \/ RejectFailed(r) \/ RejectOrder(r) \/ Abort(r)
             \/ CommitInstall(r) \/ CommitTest(r) \/ CommitApproval(r)
      PROVE  RequestsWellFormed'
  BY <1>7, FinishedRequest DEF RejectFailed, RejectOrder, Abort, CommitInstall,
      CommitTest, CommitApproval
<1>8. ASSUME NEW a \in Actors, NEW w \in WorkOrders, NEW c \in Cables \cup {None},
             CreateWorkOrder(a, w, c)
      PROVE  RequestsWellFormed'
  BY <1>1, <1>8 DEF CreateWorkOrder
<1>9. CASE UNCHANGED vars
  BY <1>1, <1>9 DEF vars
<1> QED
  BY <1>2, <1>3, <1>4, <1>5, <1>6, <1>7, <1>8, <1>9 DEF Next

----------------------------------------------------------------------------
(* The inductive invariant and what follows from it                        *)

LEMMA IndInvInit == Init => IndInv
<1> SUFFICES ASSUME Init
             PROVE  IndInv
  OBVIOUS
<1>1. TypeOK
  <2>1. FreshCable("planned") \in CableRow /\ FreshCable("staged") \in CableRow
    BY DEF FreshCable, CableRow, CableStatus
  <2>2. NoOrder \in OrderRow /\ NoTest \in TestRow
    BY DEF NoOrder, NoTest, OrderRow, TestRow, WorkOrderStatus
  <2> QED
    BY <2>1, <2>2, IdleIsRequest DEF Init, TypeOK
<1>2. RecordsWellFormed
  BY DEF Init, RecordsWellFormed
<1>3. RequestsWellFormed
  BY DEF Init, RequestsWellFormed, RequestWellFormed, Idle
<1>4. InServiceHasApprovedPass
  BY DEF Init, InServiceHasApprovedPass, FreshCable
<1> QED
  BY <1>1, <1>2, <1>3, <1>4 DEF IndInv

LEMMA IndInvStep == IndInv /\ [Next]_vars => IndInv'
BY TypeOKStep, RecordsStep, RequestsStep, InServiceStep DEF IndInv

(* IndInv is an invariant of the workflow (workflow.py), whatever the      *)
(* number of requests that overlap.                                        *)
THEOREM IndInvInvariant == Spec => []IndInv
BY IndInvInit, IndInvStep, PTL DEF Spec

(* Every row, event and request has its type.                              *)
THEOREM TypeCorrect == Spec => []TypeOK
<1>1. IndInv => TypeOK
  BY DEF IndInv
<1> QED
  BY <1>1, IndInvInvariant, PTL

(* submit_test and approve_test: an approved record passed, and whoever    *)
(* approved it is an actor other than its tester.                          *)
THEOREM ApprovalsAreIndependent == Spec => []SeparationOfDuties
<1>1. IndInv => SeparationOfDuties
  BY DEF IndInv, RecordsWellFormed, SeparationOfDuties, NoTest
<1> QED
  BY <1>1, IndInvInvariant, PTL

(* approve_test: a cable that entered service through the workflow has an  *)
(* approved passed test record of its own.                                 *)
THEOREM ServiceIsEarned == Spec => []InServiceHasApprovedPass
<1>1. IndInv => InServiceHasApprovedPass
  BY DEF IndInv
<1> QED
  BY <1>1, IndInvInvariant, PTL

----------------------------------------------------------------------------
(* CableWorkflow implements Commissioning                                  *)

LEMMA PromiseInit == Init => Promise!Init
<1> SUFFICES ASSUME Init
             PROVE  StoredRecords = [t \in Tests |-> Promise!Absent] /\ InService = {}
  BY DEF Promise!Init
<1>1. StoredRecords = [t \in Tests |-> Promise!Absent]
  BY DEF Init, StoredRecords, NoTest, Promise!Absent
<1>2. InService = {}
  BY DEF Init, InService, FreshCable
<1> QED
  BY <1>1, <1>2

(* A commit that does not ask for service at most takes its cable out.     *)
LEMMA LeavesService ==
    ASSUME IndInv, NEW c \in Cables, NEW seen \in CableRow, NEW dirty \in CableRow,
           dirty.status # "in_service",
           cables' = [cables EXCEPT ![c] = UpdatedCable(cables[c], seen, dirty)]
    PROVE  InService' \in {InService, InService \ {c}}
<1>1. \A b \in Cables : b # c => cables'[b] = cables[b]
  BY DEF IndInv, TypeOK
<1>2. cables'[c].status = "in_service" => cables[c].status = "in_service"
  BY UpdateEntersService DEF IndInv, TypeOK
<1> QED
  BY <1>1, <1>2 DEF InService

LEMMA PromiseStep == IndInv /\ [Next]_vars => [Promise!Next]_(Promise!vars)
<1> SUFFICES ASSUME IndInv, [Next]_vars
             PROVE  [Promise!Next]_(Promise!vars)
  OBVIOUS
<1>1. ASSUME NEW r \in Requests, CommitInstall(r)
      PROVE  [Promise!Next]_(Promise!vars)
  <2>1. req[r].at = "commit" /\ req[r].op = "install"
    BY <1>1 DEF CommitInstall
  <2>2. /\ req[r].cable \in Cables
        /\ req[r].seen_cable \in CableRow /\ InstalledCable(r) \in CableRow
        /\ InstalledCable(r).status # "in_service"
    BY <2>1, SessionRows DEF IndInv, Request, InstalledCable, CableRow
  <2>3. cables' = [cables EXCEPT ![req[r].cable] =
            UpdatedCable(cables[req[r].cable], req[r].seen_cable, InstalledCable(r))]
    BY <1>1 DEF CommitInstall
  <2>4. InService' \in {InService, InService \ {req[r].cable}}
    BY <2>2, <2>3, LeavesService
  <2>5. StoredRecords' = StoredRecords
    BY <1>1 DEF CommitInstall, StoredRecords
  <2> QED
    BY <2>2, <2>4, <2>5 DEF Promise!Next, Promise!Withdraw, Promise!vars
<1>2. ASSUME NEW r \in Requests, CommitTest(r)
      PROVE  [Promise!Next]_(Promise!vars)
  <2> DEFINE t == req[r].test
             c == req[r].cable
  <2>1. req[r].at = "commit" /\ req[r].op = "test"
    BY <1>2 DEF CommitTest
  <2>2. /\ req[r].seen_cable \in CableRow /\ TestedCable(r) \in CableRow
        /\ TestedCable(r).status # "in_service"
    BY <2>1, SessionRows DEF IndInv, Request, TestedCable, CableRow
  <2>3. /\ t \in Tests /\ c \in Cables /\ req[r].actor \in Actors
        /\ req[r].result \in {"PASS", "FAIL"}
        /\ tests[t] = NoTest
        /\ tests'[t] = SubmittedTest(r)
        /\ \A u \in Tests \ {t} : tests'[u] = tests[u]
    BY <1>2, SubmissionWrites DEF Results
  <2>4. cables' = [cables EXCEPT ![c] =
            UpdatedCable(cables[c], req[r].seen_cable, TestedCable(r))]
    BY <1>2 DEF CommitTest
  <2>5. InService' \in {InService, InService \ {c}}
    BY <2>2, <2>3, <2>4, LeavesService
  <2>6. StoredRecords[t].cable = None
    BY <2>3 DEF StoredRecords, NoTest
  <2>7. StoredRecords' = [StoredRecords EXCEPT ![t] =
            [cable |-> c, tester |-> req[r].actor, result |-> req[r].result,
             approver |-> None]]
    <3>1. /\ tests'[t].cable = c /\ tests'[t].tester = req[r].actor
          /\ tests'[t].result = req[r].result /\ tests'[t].approved_by = None
      BY <2>3 DEF SubmittedTest
    <3>2. StoredRecords'[t] = [cable |-> c, tester |-> req[r].actor,
                               result |-> req[r].result, approver |-> None]
      BY <2>3, <3>1 DEF StoredRecords
    <3>3. \A u \in Tests \ {t} : StoredRecords'[u] = StoredRecords[u]
      BY <2>3 DEF StoredRecords
    <3> QED
      BY <2>3, <3>2, <3>3 DEF StoredRecords
  <2> HIDE DEF t, c
  <2>8. Promise!Submit(t, c, req[r].actor, req[r].result)
    BY <2>5, <2>6, <2>7 DEF Promise!Submit
  <2> QED
    BY <2>3, <2>8 DEF Promise!Next
<1>3. ASSUME NEW r \in Requests, CommitApproval(r)
      PROVE  [Promise!Next]_(Promise!vars)
  <2> DEFINE t == req[r].test
             c == req[r].cable
  <2>1. /\ t \in Tests /\ req[r].actor \in Actors
        /\ tests[t].status # "absent"
        /\ tests[t].result = "PASS"
        /\ tests[t].cable = c
        /\ tests[t].tester # req[r].actor
        /\ tests'[t].approved_by = req[r].actor
        /\ tests'[t].cable = tests[t].cable
        /\ tests'[t].tester = tests[t].tester
        /\ tests'[t].result = tests[t].result
        /\ \A u \in Tests \ {t} : tests'[u] = tests[u]
    BY <1>3, ApprovalWrites
  <2>2. tests[t].cable \in Cables
    BY <2>1 DEF IndInv, RecordsWellFormed, NoTest
  <2>3. /\ StoredRecords[t].cable # None
        /\ StoredRecords[t].cable = c
        /\ StoredRecords[t].result = "PASS"
        /\ StoredRecords[t].tester # req[r].actor
    BY <2>1, <2>2, NoneIsNoCable DEF StoredRecords
  <2>4. StoredRecords' = [StoredRecords EXCEPT ![t].approver = req[r].actor]
    <3>1. [StoredRecords[t] EXCEPT !.approver = req[r].actor] =
              [cable |-> tests[t].cable, tester |-> tests[t].tester,
               result |-> tests[t].result, approver |-> req[r].actor]
      BY <2>1 DEF StoredRecords
    <3>2. StoredRecords'[t] = [StoredRecords[t] EXCEPT !.approver = req[r].actor]
      BY <2>1, <3>1 DEF StoredRecords
    <3>3. \A u \in Tests \ {t} : StoredRecords'[u] = StoredRecords[u]
      BY <2>1 DEF StoredRecords
    <3> QED
      BY <2>1, <3>2, <3>3 DEF StoredRecords
  <2>5. req[r].at = "commit" /\ req[r].op = "approve"
    BY <1>3 DEF CommitApproval
  <2>6. /\ req[r].seen_cable \in CableRow
        /\ CommissionedCable(r).status = "in_service"
    BY <2>5, SessionRows DEF IndInv, Request, CommissionedCable, CableRow
  <2>7. cables' = [cables EXCEPT ![c] =
            UpdatedCable(cables[c], req[r].seen_cable, CommissionedCable(r))]
    BY <1>3 DEF CommitApproval
  <2>8. /\ \A b \in Cables : b # c => cables'[b] = cables[b]
        /\ cables[c].status = "in_service" => cables'[c].status = "in_service"
    BY <2>1, <2>2, <2>6, <2>7 DEF IndInv, TypeOK, UpdatedCable, Column
  <2>9. InService' \in {InService, InService \cup {c}}
    BY <2>1, <2>2, <2>8 DEF InService
  <2>10. Promise!Approve(t, req[r].actor)
    BY <2>3, <2>4, <2>9 DEF Promise!Approve
  <2> QED
    BY <2>1, <2>10 DEF Promise!Next
<1>4. CASE \A r \in Requests : ~ CommitInstall(r) /\ ~ CommitTest(r) /\ ~ CommitApproval(r)
  <2>1. cables' = cables /\ tests' = tests
    BY <1>4 DEF Next, vars, CreateWorkOrder, BeginInstall, BeginTest, BeginApprove,
        ReadCable, RejectFailed, ReadOrder, RejectOrder, Abort
  <2> QED
    BY <2>1 DEF Promise!vars, StoredRecords, InService
<1> QED
  BY <1>1, <1>2, <1>3, <1>4

(* Every interleaving of the workflow's requests (workflow.py) is a        *)
(* behaviour of Commissioning.                                             *)
THEOREM WorkflowImplementsPromise == Spec => ImplementsPromise
BY IndInvInvariant, PromiseInit, PromiseStep, PTL DEF Spec, ImplementsPromise, Promise!Spec

----------------------------------------------------------------------------
(* Work orders and their evidence                                          *)

(* A commit writes the status of no work order but its own, and that       *)
(* either not at all or to what it asked for.                              *)
LEMMA OrderStatusAfter ==
    ASSUME IndInv, NEW r \in Requests, NEW status \in WorkOrderStatus,
           orders' = OrdersAfter(r, status), NEW w \in WorkOrders
    PROVE  \/ orders'[w] = orders[w]
           \/ w = req[r].order /\ orders'[w].status = status
BY DEF OrdersAfter, UpdatedOrder

LEMMA EvidenceStep ==
    ASSUME IndInv, OrderStatusHasEvidence, [Next]_vars
    PROVE  OrderStatusHasEvidence'
<1>1. ASSUME NEW w \in WorkOrders, orders'[w] = orders[w]
      PROVE  /\ orders'[w].status = "awaiting_approval" =>
                    \E t \in Tests : tests'[t].order = w
             /\ orders'[w].status = "completed" =>
                    \E t \in Tests : tests'[t].order = w /\ tests'[t].status = "approved"
  <2>1. \A t \in Tests : tests[t].order = w => tests[t].status # "absent"
    BY NoneIsNoOrder DEF IndInv, RecordsWellFormed, NoTest
  <2>2. \A t \in Tests : tests[t].order = w =>
            /\ tests'[t].order = w
            /\ tests[t].status = "approved" => tests'[t].status = "approved"
    BY <2>1, RecordsAreStable
  <2> QED
    BY <1>1, <2>2 DEF OrderStatusHasEvidence
<1> SUFFICES ASSUME NEW w \in WorkOrders, orders'[w] # orders[w]
             PROVE  /\ orders'[w].status = "awaiting_approval" =>
                          \E t \in Tests : tests'[t].order = w
                    /\ orders'[w].status = "completed" =>
                          \E t \in Tests : tests'[t].order = w /\ tests'[t].status = "approved"
  BY <1>1 DEF OrderStatusHasEvidence
<1>2. ASSUME NEW a \in Actors, NEW v \in WorkOrders, NEW c \in Cables \cup {None},
             CreateWorkOrder(a, v, c)
      PROVE  orders'[w].status = "ready"
  BY <1>2 DEF CreateWorkOrder, IndInv, TypeOK
<1>3. ASSUME NEW r \in Requests, CommitInstall(r)
      PROVE  orders'[w].status = "awaiting_test"
  BY <1>3, OrderStatusAfter DEF CommitInstall, WorkOrderStatus
<1>4. ASSUME NEW r \in Requests, CommitTest(r)
      PROVE  /\ orders'[w].status = "awaiting_approval"
             /\ \E t \in Tests : tests'[t].order = w
  <2>1. req[r].order = w /\ orders'[w].status = "awaiting_approval"
    BY <1>4, OrderStatusAfter DEF CommitTest, WorkOrderStatus
  <2>2. req[r].test \in Tests /\ tests'[req[r].test] = SubmittedTest(r)
    BY <1>4, SubmissionWrites
  <2> QED
    BY <2>1, <2>2 DEF SubmittedTest
<1>5. ASSUME NEW r \in Requests, CommitApproval(r)
      PROVE  /\ orders'[w].status = "completed"
             /\ \E t \in Tests : tests'[t].order = w /\ tests'[t].status = "approved"
  <2>1. req[r].order = w /\ orders'[w].status = "completed"
    BY <1>5, OrderStatusAfter DEF CommitApproval, WorkOrderStatus
  <2>2. PendingApproval(r)
    BY <1>5 DEF CommitApproval, IndInv, RequestsWellFormed, RequestWellFormed
  <2>3. tests[req[r].test].order = w
    BY <2>1, <2>2 DEF PendingApproval
  <2> QED
    BY <1>5, <2>1, <2>3, ApprovalWrites
<1>6. CASE /\ \A r \in Requests : ~ CommitInstall(r) /\ ~ CommitTest(r) /\ ~ CommitApproval(r)
           /\ \A a \in Actors, v \in WorkOrders, c \in Cables \cup {None} :
                 ~ CreateWorkOrder(a, v, c)
  <2>1. orders' = orders
    BY <1>6 DEF Next, vars, BeginInstall, BeginTest, BeginApprove, ReadCable,
        RejectFailed, ReadOrder, RejectOrder, Abort
  <2> QED
    BY <2>1
<1> QED
  BY <1>2, <1>3, <1>4, <1>5, <1>6

(* submit_test and approve_test: a shared work order waits for approval,   *)
(* or is complete, only on the evidence of a record that names it.         *)
THEOREM OrdersHaveEvidence == Spec => []OrderStatusHasEvidence
<1>1. Init => OrderStatusHasEvidence
  BY DEF Init, OrderStatusHasEvidence, NoOrder
<1>2. IndInv /\ OrderStatusHasEvidence /\ [Next]_vars => OrderStatusHasEvidence'
  BY EvidenceStep
<1> QED
  BY <1>1, <1>2, IndInvInvariant, PTL DEF Spec

----------------------------------------------------------------------------
(* The log and the names in the rows                                       *)

(* A cable that may still be installed names no installer, and neither     *)
(* does what a pending installation has loaded: its commit writes one.     *)
InstallerUnset ==
    /\ \A c \in Cables : cables[c].status \in Installable => cables[c].installer = None
    /\ \A r \in Requests : req[r].op = "install" =>
          /\ req[r].seen_cable.status \in Installable
          /\ req[r].seen_cable.installer = None

LEMMA AppendedEvent ==
    ASSUME audit \in Seq(Event), NEW e \in Event, audit' = Append(audit, e)
    PROVE  /\ Len(audit) \in Nat
           /\ DOMAIN audit = 1..Len(audit)
           /\ DOMAIN audit' = DOMAIN audit \cup {Len(audit) + 1}
           /\ \A i \in DOMAIN audit : audit'[i] = audit[i] /\ i < Len(audit) + 1
           /\ audit'[Len(audit) + 1] = e
OBVIOUS

(* What a commit writes over the installer of its cable.                   *)
LEMMA InstallWrites ==
    ASSUME IndInv, InstallerUnset, NEW r \in Requests, CommitInstall(r)
    PROVE  /\ req[r].cable \in Cables /\ req[r].actor \in Actors
           /\ cables'[req[r].cable].installer = req[r].actor
           /\ cables'[req[r].cable].status = "installed"
           /\ \A c \in Cables \ {req[r].cable} : cables'[c] = cables[c]
<1>1. req[r].at = "commit" /\ req[r].op = "install"
  BY DEF CommitInstall
<1>2. /\ req[r].cable \in Cables /\ req[r].actor \in Actors
      /\ req[r].seen_cable \in CableRow
  BY <1>1, SessionRows DEF IndInv, Request
<1>3. /\ req[r].seen_cable.status \in Installable
      /\ req[r].seen_cable.installer = None
  BY <1>1 DEF InstallerUnset
<1>4. /\ InstalledCable(r).status = "installed"
      /\ InstalledCable(r).installer = req[r].actor
  BY <1>2 DEF InstalledCable, CableRow
<1>5. req[r].actor # None /\ "installed" \notin Installable
  BY <1>2, NoneIsNoActor DEF Installable
<1>6. UpdatedCable(cables[req[r].cable], req[r].seen_cable, InstalledCable(r)).installer
          = req[r].actor
  BY <1>3, <1>4, <1>5 DEF UpdatedCable, Column
<1>7. UpdatedCable(cables[req[r].cable], req[r].seen_cable, InstalledCable(r)).status
          = "installed"
  BY <1>3, <1>4, <1>5 DEF UpdatedCable, Column
<1>8. cables' = [cables EXCEPT ![req[r].cable] =
          UpdatedCable(cables[req[r].cable], req[r].seen_cable, InstalledCable(r))]
  BY DEF CommitInstall
<1> QED
  BY <1>2, <1>6, <1>7, <1>8 DEF IndInv, TypeOK

LEMMA OtherCommitsKeepInstallers ==
    ASSUME IndInv, NEW r \in Requests, CommitTest(r) \/ CommitApproval(r), NEW c \in Cables
    PROVE  /\ cables'[c].installer = cables[c].installer
           /\ cables'[c].status \in Installable => cables[c].status \in Installable
<1>1. req[r].at = "commit"
  BY DEF CommitTest, CommitApproval
<1>2. req[r].cable \in Cables /\ req[r].seen_cable \in CableRow
  BY <1>1, SessionRows DEF IndInv, Request
<1>3. /\ TestedCable(r).installer = req[r].seen_cable.installer
      /\ TestedCable(r).status = "tested"
      /\ CommissionedCable(r).installer = req[r].seen_cable.installer
      /\ CommissionedCable(r).status = "in_service"
  BY <1>2 DEF TestedCable, CommissionedCable, CableRow
<1>4. ASSUME NEW dirty, dirty.installer = req[r].seen_cable.installer,
             dirty.status \in {"tested", "in_service"},
             cables' = [cables EXCEPT ![req[r].cable] =
                UpdatedCable(cables[req[r].cable], req[r].seen_cable, dirty)]
      PROVE  /\ cables'[c].installer = cables[c].installer
             /\ cables'[c].status \in Installable => cables[c].status \in Installable
  <2>1. UpdatedCable(cables[req[r].cable], req[r].seen_cable, dirty).installer
            = cables[req[r].cable].installer
    BY <1>4 DEF UpdatedCable, Column
  <2>2. \/ UpdatedCable(cables[req[r].cable], req[r].seen_cable, dirty).status
               = cables[req[r].cable].status
        \/ UpdatedCable(cables[req[r].cable], req[r].seen_cable, dirty).status
               = dirty.status
    BY DEF UpdatedCable, Column
  <2> QED
    BY <1>2, <1>4, <2>1, <2>2 DEF IndInv, TypeOK, Installable
<1>5. CASE CommitTest(r)
  BY <1>3, <1>4, <1>5 DEF CommitTest
<1>6. CASE CommitApproval(r)
  BY <1>3, <1>4, <1>6 DEF CommitApproval
<1> QED
  BY <1>5, <1>6

LEMMA OtherStepsKeepCables ==
    ASSUME [Next]_vars,
           \A r \in Requests : ~ CommitInstall(r) /\ ~ CommitTest(r) /\ ~ CommitApproval(r)
    PROVE  cables' = cables
BY DEF Next, vars, CreateWorkOrder, BeginInstall, BeginTest, BeginApprove, ReadCable,
       RejectFailed, ReadOrder, RejectOrder, Abort

LEMMA InstallerUnsetStep ==
    ASSUME IndInv, InstallerUnset, [Next]_vars
    PROVE  InstallerUnset'
<1>1. ASSUME NEW c \in Cables
      PROVE  cables'[c].status \in Installable => cables'[c].installer = None
  <2>1. ASSUME NEW r \in Requests, CommitInstall(r)
        PROVE  cables'[c].status \in Installable => cables'[c].installer = None
    BY <2>1, InstallWrites DEF InstallerUnset, Installable
  <2>2. ASSUME NEW r \in Requests, CommitTest(r) \/ CommitApproval(r)
        PROVE  cables'[c].status \in Installable => cables'[c].installer = None
    BY <2>2, OtherCommitsKeepInstallers DEF InstallerUnset
  <2>3. CASE \A r \in Requests :
                ~ CommitInstall(r) /\ ~ CommitTest(r) /\ ~ CommitApproval(r)
    BY <2>3, OtherStepsKeepCables DEF InstallerUnset
  <2> QED
    BY <2>1, <2>2, <2>3
<1>2. ASSUME NEW q \in Requests, req'[q].op = "install"
      PROVE  /\ req'[q].seen_cable.status \in Installable
             /\ req'[q].seen_cable.installer = None
  <2>1. CASE req'[q] = req[q]
    BY <1>2, <2>1 DEF InstallerUnset
  <2>2. ASSUME NEW r \in Requests, Finish(r)
        PROVE  req'[q] = req[q]
    BY <1>2, <2>2 DEF Finish, Idle, IndInv, TypeOK
  <2>3. ASSUME NEW r \in Requests, NEW a \in Actors, NEW c \in Cables,
               NEW w \in WorkOrders \cup {None}, BeginInstall(r, a, c, w), r = q
        PROVE  /\ req'[q].seen_cable.status \in Installable
               /\ req'[q].seen_cable.installer = None
    <3>1. req'[q].seen_cable = cables[c] /\ cables[c].status \in Installable
      BY <2>3 DEF BeginInstall, Idle, IndInv, TypeOK
    <3> QED
      BY <3>1 DEF InstallerUnset
  <2>4. ASSUME NEW r \in Requests, NEW a \in Actors, NEW c \in Cables,
               NEW w \in WorkOrders \cup {None}, BeginInstall(r, a, c, w), r # q
        PROVE  req'[q] = req[q]
    BY <2>4 DEF BeginInstall, IndInv, TypeOK
  <2>5. ASSUME NEW r \in Requests, NEW a \in Actors, NEW c \in Cables,
               NEW result \in Results, NEW w \in WorkOrders \cup {None},
               NEW t \in Tests, BeginTest(r, a, c, result, w, t)
        PROVE  req'[q] = req[q]
    BY <1>2, <2>5 DEF BeginTest, Idle, IndInv, TypeOK
  <2>6. ASSUME NEW r \in Requests, NEW a \in Actors, NEW t \in Tests,
               BeginApprove(r, a, t)
        PROVE  req'[q] = req[q]
    BY <1>2, <2>6 DEF BeginApprove, Idle, IndInv, TypeOK
  <2>7. ASSUME NEW r \in Requests, ReadCable(r)
        PROVE  req'[q] = req[q]
    <3>1. req[r].op = "approve" /\ req[r] \in Request
      BY <2>7 DEF ReadCable, IndInv, TypeOK, RequestsWellFormed, RequestWellFormed
    <3>2. req'[r].op = "approve"
      BY <2>7, <3>1 DEF ReadCable, IndInv, TypeOK, Request
    <3> QED
      BY <1>2, <2>7, <3>2 DEF ReadCable, IndInv, TypeOK
  <2>8. ASSUME NEW r \in Requests, ReadOrder(r)
        PROVE  req'[q].op = req[q].op /\ req'[q].seen_cable = req[q].seen_cable
    BY <2>8 DEF ReadOrder, IndInv, TypeOK, Request
  <2>9. CASE \/ UNCHANGED vars
             \/ \E a \in Actors, w \in WorkOrders, c \in Cables \cup {None} :
                   CreateWorkOrder(a, w, c)
    BY <2>1, <2>9 DEF vars, CreateWorkOrder
  <2>10. ASSUME NEW r \in Requests,
                \/ RejectFailed(r) \/ RejectOrder(r) \/ Abort(r)
                \/ CommitInstall(r) \/ CommitTest(r) \/ CommitApproval(r)
         PROVE  req'[q] = req[q]
    BY <2>2, <2>10 DEF RejectFailed, RejectOrder, Abort, CommitInstall, CommitTest,
        CommitApproval
  <2> QED
    BY <1>2, <2>1, <2>3, <2>4, <2>5, <2>6, <2>7, <2>8, <2>9, <2>10
    DEF Next, InstallerUnset
<1> QED
  BY <1>1, <1>2 DEF InstallerUnset

(* An event that is not about the record, or the cable, leaves what the    *)
(* log says of it; one that is adds to it.                                 *)
LEMMA EventAppended ==
    ASSUME audit \in Seq(Event), NEW e \in Event, audit' = Append(audit, e)
    PROVE  /\ \A i \in DOMAIN audit : audit'[i] = audit[i]
           /\ \A t \in Tests : ~(e.action = "cable.commissioned" /\ e.test = t) =>
                 Commissions(t)' = Commissions(t)
           /\ \A t \in Tests : e.action = "cable.commissioned" /\ e.test = t =>
                 \E n : Commissions(t)' = Commissions(t) \cup {n} /\ audit'[n] = e
           /\ \A c \in Cables : ~(e.action = "cable.installed" /\ e.cable = c) =>
                 Installs(c)' = Installs(c)
           /\ \A c \in Cables : e.action = "cable.installed" /\ e.cable = c =>
                 \E n : Installs(c)' = Installs(c) \cup {n} /\ audit'[n] = e
<1> DEFINE n == Len(audit) + 1
<1>1. /\ DOMAIN audit' = DOMAIN audit \cup {n}
      /\ \A i \in DOMAIN audit : audit'[i] = audit[i]
      /\ audit'[n] = e
  BY AppendedEvent
<1> HIDE DEF n
<1>2. ASSUME NEW t \in Tests
      PROVE  Commissions(t)' = IF e.action = "cable.commissioned" /\ e.test = t
                               THEN Commissions(t) \cup {n} ELSE Commissions(t) \ {n}
  BY <1>1 DEF Commissions
<1>3. ASSUME NEW c \in Cables
      PROVE  Installs(c)' = IF e.action = "cable.installed" /\ e.cable = c
                            THEN Installs(c) \cup {n} ELSE Installs(c) \ {n}
  BY <1>1 DEF Installs
<1>4. n \notin DOMAIN audit
  BY AppendedEvent DEF n
<1>5. /\ \A t \in Tests : n \notin Commissions(t)
      /\ \A c \in Cables : n \notin Installs(c)
  BY <1>4 DEF Commissions, Installs
<1>6. ASSUME NEW t \in Tests
      PROVE  /\ ~(e.action = "cable.commissioned" /\ e.test = t) =>
                   Commissions(t)' = Commissions(t)
             /\ e.action = "cable.commissioned" /\ e.test = t =>
                   Commissions(t)' = Commissions(t) \cup {n}
  BY <1>2, <1>5
<1>7. ASSUME NEW c \in Cables
      PROVE  /\ ~(e.action = "cable.installed" /\ e.cable = c) =>
                   Installs(c)' = Installs(c)
             /\ e.action = "cable.installed" /\ e.cable = c =>
                   Installs(c)' = Installs(c) \cup {n}
  BY <1>3, <1>5
<1> QED
  BY <1>1, <1>6, <1>7

(* The two halves of AuditNamesActors, one record and one cable at a time. *)
ApproverNamed(t) ==
    /\ tests[t].status = "approved" <=> Commissions(t) # {}
    /\ tests[t].status = "approved" =>
          \E i \in Commissions(t) : audit[i].actor = tests[t].approved_by
    /\ \A i \in Commissions(t) : audit[i].actor # tests[t].tester

InstallerNamed(c) ==
    /\ cables[c].installer = None <=> Installs(c) = {}
    /\ cables[c].installer # None =>
          \E i \in Installs(c) : audit[i].actor = cables[c].installer

(* What each step appends to the log.                                      *)
LEMMA CommitEvents ==
    ASSUME IndInv, NEW r \in Requests, NEW before \in CableStatus \cup {None},
           NEW after \in CableStatus \cup Results \cup {None},
           NEW action \in {"cable.installed", "cable.tested", "cable.commissioned"},
           req[r].at = "commit",
           audit' = Append(audit, CableEvent(action, r, before, after))
    PROVE  \E e \in Event :
              /\ audit' = Append(audit, e)
              /\ e.action = action /\ e.actor = req[r].actor
              /\ e.cable = req[r].cable /\ e.test = req[r].test
<1>1. CableEvent(action, r, before, after) \in Event
  BY SessionRows DEF IndInv, CableEvent, Event, Request
<1> QED
  BY <1>1 DEF CableEvent

LEMMA ApproverNamedStep ==
    ASSUME IndInv, [Next]_vars, NEW t \in Tests, ApproverNamed(t)
    PROVE  ApproverNamed(t)'
<1>0. audit \in Seq(Event)
  BY DEF IndInv, TypeOK
<1>1. ASSUME NEW e \in Event, audit' = Append(audit, e), e.action # "cable.commissioned" \/ e.test # t,
             tests'[t].status = "approved" <=> tests[t].status = "approved",
             tests'[t].approved_by = tests[t].approved_by,
             tests[t].status = "approved" => tests'[t].tester = tests[t].tester
      PROVE  ApproverNamed(t)'
  <2>1. /\ Commissions(t)' = Commissions(t)
        /\ \A i \in DOMAIN audit : audit'[i] = audit[i]
    BY <1>0, <1>1, EventAppended
  <2>2. \A i \in Commissions(t) : audit'[i] = audit[i]
    BY <2>1 DEF Commissions
  <2> QED
    BY <1>1, <2>1, <2>2 DEF ApproverNamed
<1>2. ASSUME NEW a \in Actors, NEW w \in WorkOrders, NEW c \in Cables \cup {None},
             CreateWorkOrder(a, w, c)
      PROVE  ApproverNamed(t)'
  <2> DEFINE e == [action |-> "workorder.created", actor |-> a, cable |-> None,
                   test |-> None, order |-> w, before |-> None, after |-> None]
  <2>1. e \in Event /\ e.action # "cable.commissioned"
    BY DEF Event
  <2>2. audit' = Append(audit, e) /\ tests' = tests
    BY <1>2 DEF CreateWorkOrder
  <2> HIDE DEF e
  <2> QED
    BY <1>1, <2>1, <2>2
<1>3. ASSUME NEW r \in Requests, CommitInstall(r)
      PROVE  ApproverNamed(t)'
  <2>1. req[r].at = "commit" /\ req[r].op = "install" /\ tests' = tests
    BY <1>3 DEF CommitInstall
  <2>2. /\ req[r].seen_cable.status \in CableStatus
        /\ InstalledCable(r).status \in CableStatus
    BY <2>1, SessionRows DEF IndInv, Request, CableRow
  <2>3. \E e \in Event : audit' = Append(audit, e) /\ e.action = "cable.installed"
    BY <1>3, <2>1, <2>2, CommitEvents DEF CommitInstall
  <2> QED
    BY <1>1, <2>1, <2>3
<1>4. ASSUME NEW r \in Requests, CommitTest(r)
      PROVE  ApproverNamed(t)'
  <2>1. /\ req[r].at = "commit" /\ req[r].result \in Results
        /\ tests[req[r].test] = NoTest /\ tests'[req[r].test] = SubmittedTest(r)
        /\ t # req[r].test => tests'[t] = tests[t]
    BY <1>4, SubmissionWrites DEF CommitTest
  <2>2. \E e \in Event : audit' = Append(audit, e) /\ e.action = "cable.tested"
    BY <1>4, <2>1, CommitEvents DEF CommitTest
  <2>3. /\ tests'[t].status = "approved" <=> tests[t].status = "approved"
        /\ tests'[t].approved_by = tests[t].approved_by
        /\ tests[t].status = "approved" => tests'[t].tester = tests[t].tester
    BY <2>1 DEF SubmittedTest, NoTest
  <2> QED
    BY <1>1, <2>2, <2>3
<1>5. ASSUME NEW r \in Requests, CommitApproval(r)
      PROVE  ApproverNamed(t)'
  <2>1. /\ req[r].at = "commit"
        /\ tests'[req[r].test].status = "approved"
        /\ tests'[req[r].test].approved_by = req[r].actor
        /\ tests[req[r].test].tester # req[r].actor
        /\ tests'[req[r].test].tester = tests[req[r].test].tester
        /\ t # req[r].test => tests'[t] = tests[t]
    BY <1>5, ApprovalWrites DEF CommitApproval
  <2>2. req[r].seen_cable.status \in CableStatus /\ "in_service" \in CableStatus
    BY <2>1 DEF IndInv, TypeOK, Request, CableRow, CableStatus
  <2>3. PICK e \in Event : /\ audit' = Append(audit, e)
                          /\ e.action = "cable.commissioned" /\ e.actor = req[r].actor
                          /\ e.test = req[r].test
    BY <1>5, <2>1, <2>2, CommitEvents DEF CommitApproval, LogApproval, Commissioned
  <2>4. CASE t = req[r].test
    <3>1. /\ \E n : Commissions(t)' = Commissions(t) \cup {n} /\ audit'[n] = e
          /\ \A i \in DOMAIN audit : audit'[i] = audit[i]
      BY <1>0, <2>3, <2>4, EventAppended
    <3>2. \A i \in Commissions(t) : audit'[i] = audit[i]
      BY <3>1 DEF Commissions
    <3>3. PICK n : Commissions(t)' = Commissions(t) \cup {n} /\ audit'[n] = e
      BY <3>1
    <3>4. audit'[n].actor = tests'[t].approved_by
      BY <2>1, <2>3, <2>4, <3>3
    <3>5. \A i \in Commissions(t)' : audit'[i].actor # tests'[t].tester
      BY <2>1, <2>3, <2>4, <3>2, <3>3 DEF ApproverNamed
    <3>6. tests'[t].status = "approved"
      BY <2>1, <2>4
    <3> QED
      BY <3>3, <3>4, <3>5, <3>6 DEF ApproverNamed
  <2>5. CASE t # req[r].test
    BY <1>1, <2>1, <2>3, <2>5
  <2> QED
    BY <2>4, <2>5
<1>6. CASE /\ \A r \in Requests : ~ CommitInstall(r) /\ ~ CommitTest(r) /\ ~ CommitApproval(r)
           /\ \A a \in Actors, w \in WorkOrders, c \in Cables \cup {None} :
                 ~ CreateWorkOrder(a, w, c)
  <2>1. audit' = audit /\ tests' = tests
    BY <1>6 DEF Next, vars, BeginInstall, BeginTest, BeginApprove, ReadCable,
        RejectFailed, ReadOrder, RejectOrder, Abort
  <2> QED
    BY <2>1 DEF ApproverNamed, Commissions
<1> QED
  BY <1>2, <1>3, <1>4, <1>5, <1>6

LEMMA InstallerNamedStep ==
    ASSUME IndInv, InstallerUnset, [Next]_vars, NEW c \in Cables, InstallerNamed(c)
    PROVE  InstallerNamed(c)'
<1>0. audit \in Seq(Event)
  BY DEF IndInv, TypeOK
<1>1. ASSUME NEW e \in Event, audit' = Append(audit, e), e.action # "cable.installed" \/ e.cable # c,
             cables'[c].installer = cables[c].installer
      PROVE  InstallerNamed(c)'
  <2>1. /\ Installs(c)' = Installs(c)
        /\ \A i \in DOMAIN audit : audit'[i] = audit[i]
    BY <1>0, <1>1, EventAppended
  <2>2. \A i \in Installs(c) : audit'[i] = audit[i]
    BY <2>1 DEF Installs
  <2> QED
    BY <1>1, <2>1, <2>2 DEF InstallerNamed
<1>2. ASSUME NEW a \in Actors, NEW w \in WorkOrders, NEW d \in Cables \cup {None},
             CreateWorkOrder(a, w, d)
      PROVE  InstallerNamed(c)'
  <2> DEFINE e == [action |-> "workorder.created", actor |-> a, cable |-> None,
                   test |-> None, order |-> w, before |-> None, after |-> None]
  <2>1. e \in Event /\ e.action # "cable.installed"
    BY DEF Event
  <2>2. audit' = Append(audit, e) /\ cables' = cables
    BY <1>2 DEF CreateWorkOrder
  <2> HIDE DEF e
  <2> QED
    BY <1>1, <2>1, <2>2
<1>3. ASSUME NEW r \in Requests, CommitInstall(r)
      PROVE  InstallerNamed(c)'
  <2>1. /\ req[r].at = "commit" /\ req[r].op = "install" /\ req[r].actor # None
        /\ c = req[r].cable => cables'[c].installer = req[r].actor
        /\ c # req[r].cable => cables'[c] = cables[c]
    BY <1>3, InstallWrites, NoneIsNoActor DEF CommitInstall
  <2>2. /\ req[r].seen_cable.status \in CableStatus
        /\ InstalledCable(r).status \in CableStatus
    BY <2>1, SessionRows DEF IndInv, Request, CableRow
  <2>3. PICK e \in Event : /\ audit' = Append(audit, e)
                          /\ e.action = "cable.installed" /\ e.actor = req[r].actor
                          /\ e.cable = req[r].cable
    BY <1>3, <2>1, <2>2, CommitEvents DEF CommitInstall
  <2>4. CASE c = req[r].cable
    <3>1. \E n : Installs(c)' = Installs(c) \cup {n} /\ audit'[n] = e
      BY <1>0, <2>3, <2>4, EventAppended
    <3> QED
      BY <2>1, <2>3, <2>4, <3>1 DEF InstallerNamed
  <2>5. CASE c # req[r].cable
    BY <1>1, <2>1, <2>3, <2>5
  <2> QED
    BY <2>4, <2>5
<1>4. ASSUME NEW r \in Requests, CommitTest(r)
      PROVE  InstallerNamed(c)'
  <2>1. req[r].at = "commit" /\ req[r].result \in Results
    BY <1>4, SubmissionWrites DEF CommitTest
  <2>2. \E e \in Event : audit' = Append(audit, e) /\ e.action = "cable.tested"
    BY <1>4, <2>1, CommitEvents DEF CommitTest
  <2> QED
    BY <1>1, <1>4, <2>2, OtherCommitsKeepInstallers
<1>5. ASSUME NEW r \in Requests, CommitApproval(r)
      PROVE  InstallerNamed(c)'
  <2>1. req[r].at = "commit"
    BY <1>5 DEF CommitApproval
  <2>2. req[r].seen_cable.status \in CableStatus /\ "in_service" \in CableStatus
    BY <2>1 DEF IndInv, TypeOK, Request, CableRow, CableStatus
  <2>3. \E e \in Event : audit' = Append(audit, e) /\ e.action = "cable.commissioned"
    BY <1>5, <2>1, <2>2, CommitEvents DEF CommitApproval, LogApproval, Commissioned
  <2> QED
    BY <1>1, <1>5, <2>3, OtherCommitsKeepInstallers
<1>6. CASE /\ \A r \in Requests : ~ CommitInstall(r) /\ ~ CommitTest(r) /\ ~ CommitApproval(r)
           /\ \A a \in Actors, w \in WorkOrders, d \in Cables \cup {None} :
                 ~ CreateWorkOrder(a, w, d)
  <2>1. audit' = audit /\ cables' = cables
    BY <1>6 DEF Next, vars, BeginInstall, BeginTest, BeginApprove, ReadCable,
        RejectFailed, ReadOrder, RejectOrder, Abort
  <2> QED
    BY <2>1 DEF InstallerNamed, Installs
<1> QED
  BY <1>2, <1>3, <1>4, <1>5, <1>6

(* record_audit in approve_test and mark_installed: however requests       *)
(* overlap, who a row names as the approver or the installer is among      *)
(* those the log names, a tester is never logged as an approver, and       *)
(* nothing is approved or installed without an event.                      *)
THEOREM LogNamesActors == Spec => []AuditNamesActors
<1> DEFINE Inv == InstallerUnset /\ AuditNamesActors
<1>1. AuditNamesActors <=> /\ \A t \in Tests : ApproverNamed(t)
                           /\ \A c \in Cables : InstallerNamed(c)
  BY DEF AuditNamesActors, ApproverNamed, InstallerNamed
<1>2. Init => Inv
  BY DEF Init, InstallerUnset, AuditNamesActors, Commissions, Installs, FreshCable,
      NoTest, Idle
<1>3. IndInv /\ Inv /\ [Next]_vars => Inv'
  <2> SUFFICES ASSUME IndInv, Inv, [Next]_vars
               PROVE  Inv'
    OBVIOUS
  <2>1. InstallerUnset'
    BY InstallerUnsetStep
  <2>2. \A t \in Tests : ApproverNamed(t)'
    BY <1>1, ApproverNamedStep
  <2>3. \A c \in Cables : InstallerNamed(c)'
    BY <1>1, InstallerNamedStep
  <2>4. AuditNamesActors'
    BY <2>2, <2>3 DEF AuditNamesActors, ApproverNamed, InstallerNamed
  <2> QED
    BY <2>1, <2>4
<1>4. Inv => AuditNamesActors
  OBVIOUS
<1> HIDE DEF Inv
<1> QED
  BY <1>2, <1>3, <1>4, IndInvInvariant, PTL DEF Spec

----------------------------------------------------------------------------
(* One request at a time                                                   *)

(* What a request has loaded is what is stored, and what its checks found  *)
(* still holds.                                                            *)
Fresh(r) ==
    /\ req[r].op \in {"install", "test"} =>
          /\ req[r].seen_cable = cables[req[r].cable]
          /\ req[r].op = "install" => req[r].seen_cable.status \in Installable
          /\ req[r].op = "test" => req[r].seen_cable.status \in Testable
    /\ req[r].op = "approve" =>
          /\ req[r].seen_test = tests[req[r].test]
          /\ req[r].at # "read_cable" => req[r].seen_cable = cables[req[r].cable]
    /\ req[r].at = "commit" /\ req[r].order # None =>
          /\ req[r].seen_order = orders[req[r].order]
          /\ req[r].seen_order.status # "absent"

(* Cables are on the workflow, past their tests once they have any.        *)
OnTheWay ==
    /\ \A c \in Cables : cables[c].status \in DOMAIN Successors
    /\ \A t \in Tests : tests[t].status # "absent" =>
          cables[tests[t].cable].status \in {"tested", "in_service"}

HistoryOf(c) ==
    \A i \in CableEvents(c) :
        /\ \A j \in CableEvents(c) :
              IsLast(i, {k \in CableEvents(c) : k < j}) =>
                 audit[j].before \in {None, StatusAfter(audit[i])}
        /\ IsLast(i, CableEvents(c)) => cables[c].status = StatusAfter(audit[i])

(* What an UPDATE leaves of a row that is as it was loaded.                *)
LEMMA FreshUpdate ==
    ASSUME NEW row \in CableRow, NEW dirty \in CableRow
    PROVE  LET left == UpdatedCable(row, row, dirty)
           IN  /\ left.status = dirty.status
               /\ left.test_status = dirty.test_status
               /\ left.tested_at = dirty.tested_at
               /\ left # row => left.version = row.version + 1
BY DEF UpdatedCable, CableRow, Column, NextVersion

(* The commits, when nothing has changed since the request loaded it.      *)
LEMMA FreshInstall ==
    ASSUME IndInv, NEW r \in Requests, Fresh(r), CommitInstall(r)
    PROVE  LET c == req[r].cable
           IN  /\ c \in Cables
               /\ cables[c].status \in Installable
               /\ cables'[c].status = "installed"
               /\ cables'[c].test_status = cables[c].test_status
               /\ cables'[c].tested_at = cables[c].tested_at
               /\ cables'[c] # cables[c] => cables'[c].version = cables[c].version + 1
               /\ \A d \in Cables \ {c} : cables'[d] = cables[d]
               /\ \E e \in Event : /\ audit' = Append(audit, e)
                                   /\ e.action = "cable.installed" /\ e.cable = c
                                   /\ e.before = cables[c].status /\ e.after = "installed"
<1>1. /\ req[r].at = "commit" /\ req[r].op = "install"
      /\ req[r].cable \in Cables /\ InstalledCable(r) \in CableRow
      /\ req[r].seen_cable = cables[req[r].cable]
      /\ cables[req[r].cable].status \in Installable
      /\ cables[req[r].cable] \in CableRow
  BY SessionRows DEF CommitInstall, Fresh, IndInv, TypeOK
<1>2. /\ InstalledCable(r).status = "installed"
      /\ InstalledCable(r).test_status = cables[req[r].cable].test_status
      /\ InstalledCable(r).tested_at = cables[req[r].cable].tested_at
  BY <1>1 DEF InstalledCable, CableRow
<1>3. cables' = [cables EXCEPT ![req[r].cable] =
          UpdatedCable(cables[req[r].cable], cables[req[r].cable], InstalledCable(r))]
  BY <1>1 DEF CommitInstall
<1>4. LET left == UpdatedCable(cables[req[r].cable], cables[req[r].cable], InstalledCable(r))
      IN  /\ left.status = "installed"
          /\ left.test_status = cables[req[r].cable].test_status
          /\ left.tested_at = cables[req[r].cable].tested_at
          /\ left # cables[req[r].cable] => left.version = cables[req[r].cable].version + 1
  BY <1>1, <1>2, FreshUpdate
<1>5. LET e == CableEvent("cable.installed", r, cables[req[r].cable].status, "installed")
      IN  /\ audit' = Append(audit, e) /\ e \in Event
          /\ e.action = "cable.installed" /\ e.cable = req[r].cable
          /\ e.before = cables[req[r].cable].status /\ e.after = "installed"
  <2>1. audit' = Append(audit, CableEvent("cable.installed", r, cables[req[r].cable].status, "installed"))
    BY <1>1, <1>2 DEF CommitInstall
  <2>2. CableEvent("cable.installed", r, cables[req[r].cable].status, "installed") \in Event
    BY <1>1, SessionRows DEF CableEvent, Event, Request, CableRow, CableStatus, IndInv
  <2> QED BY <2>1, <2>2 DEF CableEvent
<1> QED BY <1>1, <1>3, <1>4, <1>5 DEF IndInv, TypeOK

LEMMA FreshTest ==
    ASSUME IndInv, NEW r \in Requests, Fresh(r), CommitTest(r)
    PROVE  LET c == req[r].cable
           IN  /\ c \in Cables
               /\ cables[c].status \in Testable
               /\ cables'[c].status = "tested"
               /\ cables'[c].test_status = req[r].result
               /\ cables'[c].tested_at = req[r].test
               /\ cables'[c] # cables[c] => cables'[c].version = cables[c].version + 1
               /\ \A d \in Cables \ {c} : cables'[d] = cables[d]
               /\ \E e \in Event : /\ audit' = Append(audit, e)
                                   /\ e.action = "cable.tested" /\ e.cable = c
                                   /\ e.before = None
<1>1. /\ req[r].at = "commit" /\ req[r].op = "test"
      /\ req[r].cable \in Cables /\ TestedCable(r) \in CableRow
      /\ req[r].seen_cable = cables[req[r].cable]
      /\ cables[req[r].cable].status \in Testable
      /\ cables[req[r].cable] \in CableRow
  BY SessionRows DEF CommitTest, Fresh, IndInv, TypeOK
<1>2. /\ TestedCable(r).status = "tested"
      /\ TestedCable(r).test_status = req[r].result
      /\ TestedCable(r).tested_at = req[r].test
  BY <1>1 DEF TestedCable, CableRow
<1>3. cables' = [cables EXCEPT ![req[r].cable] =
          UpdatedCable(cables[req[r].cable], cables[req[r].cable], TestedCable(r))]
  BY <1>1 DEF CommitTest
<1>4. LET left == UpdatedCable(cables[req[r].cable], cables[req[r].cable], TestedCable(r))
      IN  /\ left.status = "tested"
          /\ left.test_status = req[r].result
          /\ left.tested_at = req[r].test
          /\ left # cables[req[r].cable] => left.version = cables[req[r].cable].version + 1
  BY <1>1, <1>2, FreshUpdate
<1>5. LET e == CableEvent("cable.tested", r, None, req[r].result)
      IN  /\ audit' = Append(audit, e) /\ e \in Event
          /\ e.action = "cable.tested" /\ e.cable = req[r].cable /\ e.before = None
  <2>1. audit' = Append(audit, CableEvent("cable.tested", r, None, req[r].result))
    BY DEF CommitTest
  <2>2. req[r].result \in Results
    BY SubmissionWrites
  <2>3. CableEvent("cable.tested", r, None, req[r].result) \in Event
    BY <1>1, <2>2, SessionRows DEF CableEvent, Event, Request, IndInv
  <2> QED BY <2>1, <2>3 DEF CableEvent
<1> QED BY <1>1, <1>3, <1>4, <1>5 DEF IndInv, TypeOK

LEMMA FreshApproval ==
    ASSUME IndInv, OnTheWay, NEW r \in Requests, Fresh(r), CommitApproval(r)
    PROVE  LET c == req[r].cable
           IN  /\ c \in Cables
               /\ cables[c].status \in {"tested", "in_service"}
               /\ cables'[c].status = "in_service"
               /\ cables'[c].test_status = cables[c].test_status
               /\ cables'[c].tested_at = cables[c].tested_at
               /\ cables'[c] # cables[c] => cables'[c].version = cables[c].version + 1
               /\ \A d \in Cables \ {c} : cables'[d] = cables[d]
               /\ tests[req[r].test].status = "submitted"
               /\ tests'[req[r].test].version = tests[req[r].test].version + 1
               /\ \E e \in Event : /\ audit' = Append(audit, e)
                                   /\ e.action = "cable.commissioned" /\ e.cable = c
                                   /\ e.before = cables[c].status /\ e.after = "in_service"
                                   /\ e.test = req[r].test
<1>1. /\ req[r].at = "commit" /\ req[r].op = "approve"
      /\ req[r].cable \in Cables /\ CommissionedCable(r) \in CableRow
      /\ req[r].seen_cable = cables[req[r].cable]
      /\ req[r].seen_test = tests[req[r].test]
      /\ cables[req[r].cable] \in CableRow
  BY SessionRows DEF CommitApproval, Fresh, IndInv, TypeOK
<1>2. /\ CommissionedCable(r).status = "in_service"
      /\ CommissionedCable(r).test_status = cables[req[r].cable].test_status
      /\ CommissionedCable(r).tested_at = cables[req[r].cable].tested_at
  BY <1>1 DEF CommissionedCable, CableRow
<1>3. cables' = [cables EXCEPT ![req[r].cable] =
          UpdatedCable(cables[req[r].cable], cables[req[r].cable], CommissionedCable(r))]
  BY <1>1 DEF CommitApproval
<1>4. LET left == UpdatedCable(cables[req[r].cable], cables[req[r].cable], CommissionedCable(r))
      IN  /\ left.status = "in_service"
          /\ left.test_status = cables[req[r].cable].test_status
          /\ left.tested_at = cables[req[r].cable].tested_at
          /\ left # cables[req[r].cable] => left.version = cables[req[r].cable].version + 1
  BY <1>1, <1>2, FreshUpdate
<1>5. LET e == CableEvent("cable.commissioned", r, cables[req[r].cable].status, "in_service")
      IN  /\ audit' = Append(audit, e) /\ e \in Event
          /\ e.action = "cable.commissioned" /\ e.cable = req[r].cable
          /\ e.before = cables[req[r].cable].status /\ e.after = "in_service"
          /\ e.test = req[r].test
  <2>1. audit' = Append(audit, CableEvent("cable.commissioned", r, cables[req[r].cable].status, "in_service"))
    BY <1>1 DEF CommitApproval, LogApproval, Commissioned
  <2>2. CableEvent("cable.commissioned", r, cables[req[r].cable].status, "in_service") \in Event
    BY <1>1, SessionRows DEF CableEvent, Event, Request, CableRow, CableStatus, IndInv
  <2> QED BY <2>1, <2>2 DEF CableEvent
<1>6. PendingApproval(r)
  BY <1>1 DEF IndInv, RequestsWellFormed, RequestWellFormed
<1>7. /\ tests[req[r].test].status = "submitted" /\ req[r].test \in Tests
      /\ tests[req[r].test].cable = req[r].cable
      /\ tests[req[r].test] \in TestRow
  BY <1>1, <1>6 DEF PendingApproval, IndInv, TypeOK
<1>8. cables[req[r].cable].status \in {"tested", "in_service"}
  BY <1>7 DEF OnTheWay
<1>9. tests'[req[r].test].version = tests[req[r].test].version + 1
  <2>1. ApprovedTest(r) # tests[req[r].test]
    BY <1>1, <1>7 DEF ApprovedTest, TestRow
  <2>2. UpdatedTest(tests[req[r].test], tests[req[r].test], ApprovedTest(r)).version
            = tests[req[r].test].version + 1
    BY <2>1 DEF UpdatedTest, NextVersion
  <2>3. tests' = [tests EXCEPT ![req[r].test] =
            UpdatedTest(tests[req[r].test], tests[req[r].test], ApprovedTest(r))]
    BY <1>1 DEF CommitApproval
  <2> QED BY <1>7, <2>2, <2>3 DEF IndInv, TypeOK
<1> QED BY <1>1, <1>3, <1>4, <1>5, <1>7, <1>8, <1>9 DEF IndInv, TypeOK

(* The history of a cable, when its next event is logged, and when an      *)
(* event of something else is.                                             *)
LEMMA HistoryGrows ==
    ASSUME audit \in Seq(Event), NEW e \in Event, audit' = Append(audit, e),
           NEW c \in Cables, HistoryOf(c),
           e.cable = c, e.before \in {None, cables[c].status},
           cables'[c].status = StatusAfter(e)
    PROVE  HistoryOf(c)'
<1> DEFINE n == Len(audit) + 1
<1>1. /\ n \in Nat
      /\ DOMAIN audit' = DOMAIN audit \cup {n}
      /\ \A i \in DOMAIN audit : audit'[i] = audit[i] /\ i < n /\ i \in Nat
      /\ audit'[n] = e
      /\ n \notin DOMAIN audit
  BY AppendedEvent
<1> HIDE DEF n
<1>2. CableEvents(c)' = CableEvents(c) \cup {n}
  BY <1>1 DEF CableEvents
<1>3. \A i \in CableEvents(c) : i \in Nat /\ i < n /\ audit'[i] = audit[i]
  BY <1>1 DEF CableEvents
<1>4. ASSUME NEW i \in CableEvents(c)', NEW j \in CableEvents(c)',
             i < j, \A k \in CableEvents(c)' : k < j => k <= i
      PROVE  audit'[j].before \in {None, StatusAfter(audit'[i])}
  <2>1. CASE j = n
    <3>1. i \in CableEvents(c)
      BY <1>1, <1>2, <1>4, <2>1
    <3>2. IsLast(i, CableEvents(c))
      BY <1>2, <1>3, <1>4, <2>1, <3>1 DEF IsLast
    <3>3. cables[c].status = StatusAfter(audit[i])
      BY <3>1, <3>2 DEF HistoryOf
    <3> QED BY <1>1, <1>3, <2>1, <3>1, <3>3
  <2>2. CASE j # n
    <3>1. j \in CableEvents(c) /\ i \in CableEvents(c)
      BY <1>1, <1>2, <1>3, <1>4, <2>2
    <3>2. IsLast(i, {k \in CableEvents(c) : k < j})
      BY <1>2, <1>4, <3>1 DEF IsLast
    <3>3. audit[j].before \in {None, StatusAfter(audit[i])}
      BY <3>1, <3>2 DEF HistoryOf
    <3> QED BY <1>3, <3>1, <3>3
  <2> QED BY <2>1, <2>2
<1>5. ASSUME NEW i \in CableEvents(c)', \A k \in CableEvents(c)' : k <= i
      PROVE  i = n
  BY <1>1, <1>2, <1>3, <1>5
<1> QED BY <1>1, <1>4, <1>5 DEF HistoryOf, IsLast

LEMMA HistoryStays ==
    ASSUME audit \in Seq(Event), NEW e \in Event, audit' = Append(audit, e),
           NEW c \in Cables, HistoryOf(c), e.cable # c,
           cables'[c].status = cables[c].status
    PROVE  HistoryOf(c)'
<1> DEFINE n == Len(audit) + 1
<1>1. /\ DOMAIN audit' = DOMAIN audit \cup {n}
      /\ \A i \in DOMAIN audit : audit'[i] = audit[i]
      /\ audit'[n] = e
  BY AppendedEvent
<1> HIDE DEF n
<1>2. CableEvents(c)' = CableEvents(c)
  BY <1>1 DEF CableEvents
<1>3. \A i \in CableEvents(c) : audit'[i] = audit[i]
  BY <1>1 DEF CableEvents
<1> QED BY <1>2, <1>3 DEF HistoryOf, IsLast

LEMMA FreshStep ==
    ASSUME \A r, s \in Requests : r = s,
           IndInv, \A r \in Requests : Fresh(r), [Next]_vars, NEW q \in Requests
    PROVE  Fresh(q)'
<1>0. IndInv'
  BY IndInvStep
<1>1. ASSUME NEW a \in Actors, NEW w \in WorkOrders, NEW c \in Cables \cup {None},
             CreateWorkOrder(a, w, c)
      PROVE  Fresh(q)'
  <2>1. req' = req /\ cables' = cables /\ tests' = tests /\ orders[w].status = "absent"
        /\ \A v \in WorkOrders : orders[v].status # "absent" => orders'[v] = orders[v]
    BY <1>1 DEF CreateWorkOrder, IndInv, TypeOK
  <2>2. req[q].order \in WorkOrders \cup {None}
    BY DEF IndInv, TypeOK, Request
  <2> QED BY <2>1, <2>2 DEF Fresh
<1>2. ASSUME NEW r \in Requests, NEW a \in Actors, NEW c \in Cables,
             NEW w \in WorkOrders \cup {None}, BeginInstall(r, a, c, w)
      PROVE  Fresh(q)'
  <2>1. q = r
    OBVIOUS
  <2>2. req'[q] = [Idle EXCEPT !.at = AfterCable(w), !.op = "install", !.actor = a,
                               !.cable = c, !.order = w, !.seen_cable = cables[c]]
    BY <1>2, <2>1 DEF BeginInstall, IndInv, TypeOK
  <2>3. /\ req'[q].op = "install" /\ req'[q].cable = c /\ req'[q].seen_cable = cables[c]
        /\ req'[q].at = AfterCable(w) /\ req'[q].order = w
    BY <2>2 DEF Idle
  <2>4. cables' = cables /\ cables[c].status \in Installable
    BY <1>2 DEF BeginInstall
  <2> QED BY <2>3, <2>4 DEF Fresh, AfterCable
<1>3. ASSUME NEW r \in Requests, NEW a \in Actors, NEW c \in Cables,
             NEW result \in Results, NEW w \in WorkOrders \cup {None}, NEW t \in Tests,
             BeginTest(r, a, c, result, w, t)
      PROVE  Fresh(q)'
  <2>1. q = r
    OBVIOUS
  <2>2. req'[q] = [Idle EXCEPT !.at = AfterCable(w), !.op = "test", !.actor = a,
                               !.cable = c, !.order = w, !.test = t,
                               !.result = result, !.seen_cable = cables[c]]
    BY <1>3, <2>1 DEF BeginTest, IndInv, TypeOK
  <2>3. /\ req'[q].op = "test" /\ req'[q].cable = c /\ req'[q].seen_cable = cables[c]
        /\ req'[q].at = AfterCable(w) /\ req'[q].order = w
    BY <2>2 DEF Idle
  <2>4. cables' = cables /\ cables[c].status \in Testable
    BY <1>3 DEF BeginTest
  <2> QED BY <2>3, <2>4 DEF Fresh, AfterCable
<1>4. ASSUME NEW r \in Requests, NEW a \in Actors, NEW t \in Tests, BeginApprove(r, a, t)
      PROVE  Fresh(q)'
  <2>1. q = r
    OBVIOUS
  <2>2. req'[q] = [Idle EXCEPT !.at = "read_cable", !.op = "approve", !.actor = a,
                               !.cable = tests[t].cable, !.order = tests[t].order,
                               !.test = t, !.seen_test = tests[t]]
    BY <1>4, <2>1 DEF BeginApprove, IndInv, TypeOK
  <2>3. /\ req'[q].op = "approve" /\ req'[q].test = t /\ req'[q].seen_test = tests[t]
        /\ req'[q].at = "read_cable"
    BY <2>2 DEF Idle
  <2>4. tests' = tests
    BY <1>4 DEF BeginApprove
  <2> QED BY <2>3, <2>4 DEF Fresh
<1>5. ASSUME NEW r \in Requests, ReadCable(r)
      PROVE  Fresh(q)'
  <2>1. q = r
    OBVIOUS
  <2>2. req[q] \in Request /\ req[q].at = "read_cable"
    BY <1>5, <2>1 DEF ReadCable, IndInv, TypeOK
  <2>3. req[q].op = "approve"
    BY <2>2 DEF IndInv, RequestsWellFormed, RequestWellFormed
  <2>4. req'[q] = [req[q] EXCEPT !.at = AfterCable(req[q].order),
                                 !.seen_cable = cables[req[q].cable]]
    BY <1>5, <2>1 DEF ReadCable, IndInv, TypeOK
  <2>5. /\ req'[q].op = "approve" /\ req'[q].test = req[q].test
        /\ req'[q].seen_test = req[q].seen_test /\ req'[q].cable = req[q].cable
        /\ req'[q].seen_cable = cables[req[q].cable] /\ req'[q].order = req[q].order
        /\ req'[q].at = AfterCable(req[q].order)
    BY <2>2, <2>3, <2>4 DEF Request
  <2>6. cables' = cables /\ tests' = tests
    BY <1>5 DEF ReadCable
  <2> QED BY <2>3, <2>5, <2>6 DEF Fresh, AfterCable
<1>6. ASSUME NEW r \in Requests, ReadOrder(r)
      PROVE  Fresh(q)'
  <2>1. q = r
    OBVIOUS
  <2>2. req[q] \in Request /\ req[q].at = "read_order" /\ orders[req[q].order].status # "absent"
    BY <1>6, <2>1 DEF ReadOrder, OrderFits, IndInv, TypeOK
  <2>3. req'[q] = [req[q] EXCEPT !.at = "commit", !.seen_order = orders[req[q].order]]
    BY <1>6, <2>1 DEF ReadOrder, IndInv, TypeOK
  <2>4. /\ req'[q].op = req[q].op /\ req'[q].test = req[q].test
        /\ req'[q].seen_test = req[q].seen_test /\ req'[q].cable = req[q].cable
        /\ req'[q].seen_cable = req[q].seen_cable /\ req'[q].order = req[q].order
        /\ req'[q].seen_order = orders[req[q].order]
    BY <2>2, <2>3 DEF Request
  <2>5. cables' = cables /\ tests' = tests /\ orders' = orders
    BY <1>6 DEF ReadOrder
  <2> QED BY <2>2, <2>4, <2>5 DEF Fresh
<1>7. ASSUME NEW r \in Requests, Finish(r)
      PROVE  Fresh(q)'
  <2>1. q = r
    OBVIOUS
  <2>2. req'[q] = Idle
    BY <1>7, <2>1 DEF Finish, IndInv, TypeOK
  <2>3. Idle.op = "none" /\ Idle.at = "idle"
    BY DEF Idle
  <2> QED BY <2>2, <2>3 DEF Fresh
<1>8. CASE UNCHANGED vars
  BY <1>8 DEF vars, Fresh
<1> QED
  BY <1>1, <1>2, <1>3, <1>4, <1>5, <1>6, <1>7, <1>8
     DEF Next, RejectFailed, RejectOrder, Abort, CommitInstall, CommitTest, CommitApproval

(* The cables move along the workflow, and the rows have their versions.   *)
LEMMA WayStep ==
    ASSUME IndInv, \A r \in Requests : Fresh(r), OnTheWay, [Next]_vars
    PROVE  /\ OnTheWay'
           /\ \A c \in Cables :
                 /\ cables'[c].status # cables[c].status =>
                       cables'[c].status \in Successors[cables[c].status]
                 /\ cables'[c] # cables[c] => cables'[c].version = cables[c].version + 1
<1> DEFINE Moves == \A c \in Cables :
                 /\ cables'[c].status # cables[c].status =>
                       cables'[c].status \in Successors[cables[c].status]
                 /\ cables'[c] # cables[c] => cables'[c].version = cables[c].version + 1
<1>0. /\ DOMAIN Successors = {"planned", "staged", "installed", "tested", "in_service"}
      /\ Successors["planned"] = {"installed"} /\ Successors["staged"] = {"installed"}
      /\ Successors["installed"] = {"tested"} /\ Successors["tested"] = {"in_service"}
  BY DEF Successors
<1>1. \A t \in Tests : tests[t].status # "absent" => tests[t].cable \in Cables
  BY DEF IndInv, RecordsWellFormed, NoTest
<1>2. ASSUME NEW r \in Requests, CommitInstall(r)
      PROVE  OnTheWay' /\ Moves
  <2> DEFINE c == req[r].cable
  <2>1. /\ c \in Cables
        /\ cables[c].status \in Installable
        /\ cables'[c].status = "installed"
        /\ cables'[c] # cables[c] => cables'[c].version = cables[c].version + 1
        /\ \A d \in Cables \ {c} : cables'[d] = cables[d]
    BY <1>2, FreshInstall
  <2>2. tests' = tests
    BY <1>2 DEF CommitInstall
  <2> HIDE DEF c
  <2>3. cables[c].status \in {"planned", "staged"}
    BY <1>0, <2>1 DEF OnTheWay, Installable
  <2>4. OnTheWay'
    BY <1>0, <1>1, <2>1, <2>2, <2>3 DEF OnTheWay
  <2>5. Moves
    BY <1>0, <2>1, <2>3
  <2> QED BY <2>4, <2>5
<1>3. ASSUME NEW r \in Requests, CommitTest(r)
      PROVE  OnTheWay' /\ Moves
  <2> DEFINE c == req[r].cable
             u == req[r].test
  <2>1. /\ c \in Cables
        /\ cables[c].status \in Testable
        /\ cables'[c].status = "tested"
        /\ cables'[c] # cables[c] => cables'[c].version = cables[c].version + 1
        /\ \A d \in Cables \ {c} : cables'[d] = cables[d]
    BY <1>3, FreshTest
  <2>2. /\ u \in Tests /\ tests'[u] = SubmittedTest(r)
        /\ \A t \in Tests \ {u} : tests'[t] = tests[t]
    BY <1>3, SubmissionWrites
  <2>3. tests'[u].cable = c
    BY <2>2 DEF SubmittedTest
  <2> HIDE DEF c, u
  <2>4. cables[c].status \in {"installed", "tested"}
    BY <1>0, <2>1 DEF OnTheWay, Testable
  <2>5. OnTheWay'
    BY <1>0, <1>1, <2>1, <2>2, <2>3 DEF OnTheWay
  <2>6. Moves
    BY <1>0, <2>1, <2>4
  <2> QED BY <2>5, <2>6
<1>4. ASSUME NEW r \in Requests, CommitApproval(r)
      PROVE  OnTheWay' /\ Moves
  <2> DEFINE c == req[r].cable
             u == req[r].test
  <2>1. /\ c \in Cables
        /\ cables[c].status \in {"tested", "in_service"}
        /\ cables'[c].status = "in_service"
        /\ cables'[c] # cables[c] => cables'[c].version = cables[c].version + 1
        /\ \A d \in Cables \ {c} : cables'[d] = cables[d]
    BY <1>4, FreshApproval
  <2>2. /\ u \in Tests /\ tests'[u].cable = tests[u].cable /\ tests[u].status # "absent"
        /\ \A t \in Tests \ {u} : tests'[t] = tests[t]
    BY <1>4, ApprovalWrites
  <2> HIDE DEF c, u
  <2>3. OnTheWay'
    BY <1>0, <1>1, <2>1, <2>2 DEF OnTheWay
  <2>4. Moves
    BY <1>0, <2>1
  <2> QED BY <2>3, <2>4
<1>5. CASE \A r \in Requests : ~ CommitInstall(r) /\ ~ CommitTest(r) /\ ~ CommitApproval(r)
  BY <1>5, OtherStepsKeepCables, OtherStepsKeepRecords DEF OnTheWay
<1> QED BY <1>2, <1>3, <1>4, <1>5

(* The versions of records and work orders.                                *)
LEMMA RecordVersions ==
    ASSUME IndInv, \A r \in Requests : Fresh(r), OnTheWay, [Next]_vars,
           NEW t \in Tests, tests'[t] # tests[t]
    PROVE  tests'[t].version = tests[t].version + 1
<1>1. ASSUME NEW r \in Requests, CommitTest(r)
      PROVE  tests'[t].version = tests[t].version + 1
  <2>1. t = req[r].test /\ tests[t] = NoTest /\ tests'[t] = SubmittedTest(r)
    BY <1>1, SubmissionWrites
  <2> QED BY <2>1 DEF NoTest, SubmittedTest
<1>2. ASSUME NEW r \in Requests, CommitApproval(r)
      PROVE  tests'[t].version = tests[t].version + 1
  <2>1. t = req[r].test
    BY <1>2, ApprovalWrites
  <2> QED BY <1>2, <2>1, FreshApproval
<1> QED BY <1>1, <1>2, OtherStepsKeepRecords

LEMMA OrderVersions ==
    ASSUME IndInv, \A r \in Requests : Fresh(r), [Next]_vars,
           \A w \in WorkOrders : orders[w].status = "absent" => orders[w].version = 0,
           NEW w \in WorkOrders
    PROVE  /\ orders'[w] # orders[w] => orders'[w].version = orders[w].version + 1
           /\ orders'[w].status = "absent" => orders'[w].version = 0
<1> DEFINE Counted == /\ orders'[w] # orders[w] => orders'[w].version = orders[w].version + 1
                      /\ orders'[w].status = "absent" => orders'[w].version = 0
<1>1. ASSUME NEW a \in Actors, NEW v \in WorkOrders, NEW c \in Cables \cup {None},
             CreateWorkOrder(a, v, c)
      PROVE  Counted
  <2>1. /\ orders[v].status = "absent"
        /\ orders' = [orders EXCEPT ![v] = [cable |-> c, status |-> "ready", version |-> 1]]
    BY <1>1 DEF CreateWorkOrder
  <2> QED BY <2>1 DEF IndInv, TypeOK
<1>2. ASSUME NEW r \in Requests, req[r].at = "commit", NEW status \in WorkOrderStatus \ {"absent"},
             orders' = OrdersAfter(r, status)
      PROVE  Counted
  <2>1. CASE w = req[r].order
    <3>1. req[r].order # None
      BY <2>1, NoneIsNoOrder
    <3>2. req[r].seen_order = orders[w] /\ orders[w].status # "absent"
      BY <1>2, <2>1, <3>1 DEF Fresh
    <3>3. orders'[w] = UpdatedOrder(orders[w], orders[w], status)
      BY <1>2, <2>1, <3>2 DEF OrdersAfter
    <3>4. orders[w].status = status \/ orders'[w] = [cable |-> orders[w].cable, status |-> status,
                                                     version |-> orders[w].version + 1]
      BY <3>3 DEF UpdatedOrder, NextVersion
    <3>5. orders[w].status = status => orders'[w] = orders[w]
      BY <3>3 DEF UpdatedOrder
    <3> QED BY <3>2, <3>4, <3>5
  <2>2. CASE w # req[r].order
    BY <1>2, <2>2 DEF OrdersAfter
  <2> QED BY <2>1, <2>2
<1>3. ASSUME NEW r \in Requests, CommitInstall(r) \/ CommitTest(r) \/ CommitApproval(r)
      PROVE  Counted
  <2>1. /\ req[r].at = "commit"
        /\ \/ orders' = OrdersAfter(r, "awaiting_test")
           \/ orders' = OrdersAfter(r, "awaiting_approval")
           \/ orders' = OrdersAfter(r, "completed")
    BY <1>3 DEF CommitInstall, CommitTest, CommitApproval
  <2> HIDE DEF Counted
  <2> QED BY <1>2, <2>1 DEF WorkOrderStatus
<1>4. CASE orders' = orders
  BY <1>4
<1> QED BY <1>1, <1>3, <1>4
     DEF Next, vars, BeginInstall, BeginTest, BeginApprove, ReadCable,
        RejectFailed, ReadOrder, RejectOrder, Abort

(* The two columns of a cable that describe its last test.                 *)
LEMMA ColumnsStep ==
    ASSUME IndInv, \A r \in Requests : Fresh(r), OnTheWay, TestColumnsAgree, [Next]_vars
    PROVE  TestColumnsAgree'
<1>0. \A c \in Cables : cables[c].tested_at \in Tests \cup {None}
  BY DEF IndInv, TypeOK, CableRow
<1>1. ASSUME NEW r \in Requests, CommitInstall(r)
      PROVE  TestColumnsAgree'
  <2>1. /\ cables'[req[r].cable].test_status = cables[req[r].cable].test_status
        /\ cables'[req[r].cable].tested_at = cables[req[r].cable].tested_at
        /\ \A d \in Cables \ {req[r].cable} : cables'[d] = cables[d]
    BY <1>1, FreshInstall
  <2>2. tests' = tests
    BY <1>1 DEF CommitInstall
  <2> QED BY <2>1, <2>2 DEF TestColumnsAgree
<1>2. ASSUME NEW r \in Requests, CommitTest(r)
      PROVE  TestColumnsAgree'
  <2> DEFINE c == req[r].cable
             u == req[r].test
  <2>1. /\ c \in Cables
        /\ cables'[c].test_status = req[r].result
        /\ cables'[c].tested_at = u
        /\ \A d \in Cables \ {c} : cables'[d] = cables[d]
    BY <1>2, FreshTest
  <2>2. /\ u \in Tests /\ tests[u] = NoTest /\ tests'[u] = SubmittedTest(r)
        /\ \A t \in Tests \ {u} : tests'[t] = tests[t]
    BY <1>2, SubmissionWrites
  <2>3. tests'[u].cable = c /\ tests'[u].result = req[r].result /\ tests[u].cable = None
    BY <2>2 DEF SubmittedTest, NoTest
  <2>4. u # None
    BY <2>2, NoneIsNoTest
  <2> HIDE DEF c, u
  <2>5. ASSUME NEW d \in Cables
        PROVE  IF cables'[d].tested_at = None THEN cables'[d].test_status = None
               ELSE /\ tests'[cables'[d].tested_at].cable = d
                    /\ tests'[cables'[d].tested_at].result = cables'[d].test_status
    <3>1. CASE d = c
      BY <2>1, <2>3, <2>4, <3>1
    <3>2. CASE d # c
      <4>1. cables'[d] = cables[d]
        BY <2>1, <3>2
      <4>2. cables[d].tested_at # u
        <5> SUFFICES ASSUME cables[d].tested_at = u PROVE FALSE
          OBVIOUS
        <5>1. tests[u].cable = d
          BY <2>4 DEF TestColumnsAgree
        <5> QED BY <2>3, <5>1, NoneIsNoCable
      <4> QED BY <1>0, <2>2, <4>1, <4>2 DEF TestColumnsAgree
    <3> QED BY <3>1, <3>2
  <2> QED BY <2>5 DEF TestColumnsAgree
<1>3. ASSUME NEW r \in Requests, CommitApproval(r)
      PROVE  TestColumnsAgree'
  <2>1. /\ cables'[req[r].cable].test_status = cables[req[r].cable].test_status
        /\ cables'[req[r].cable].tested_at = cables[req[r].cable].tested_at
        /\ \A d \in Cables \ {req[r].cable} : cables'[d] = cables[d]
    BY <1>3, FreshApproval
  <2>2. \A t \in Tests : tests'[t].cable = tests[t].cable /\ tests'[t].result = tests[t].result
    BY <1>3, ApprovalWrites
  <2>3. \A d \in Cables : /\ cables'[d].test_status = cables[d].test_status
                          /\ cables'[d].tested_at = cables[d].tested_at
    BY <2>1
  <2> QED BY <1>0, <2>2, <2>3 DEF TestColumnsAgree
<1>4. CASE \A r \in Requests : ~ CommitInstall(r) /\ ~ CommitTest(r) /\ ~ CommitApproval(r)
  BY <1>4, OtherStepsKeepCables, OtherStepsKeepRecords DEF TestColumnsAgree
<1> QED BY <1>1, <1>2, <1>3, <1>4

Histories == \A c \in Cables : HistoryOf(c)

CommissionedOnce == \A t \in Tests : \A i, j \in Commissions(t) : i = j

LEMMA HistoryStep ==
    ASSUME IndInv, \A r \in Requests : Fresh(r), OnTheWay, Histories, [Next]_vars
    PROVE  Histories'
<1>0. audit \in Seq(Event)
  BY DEF IndInv, TypeOK
<1>1. ASSUME NEW e \in Event, audit' = Append(audit, e), NEW d \in Cables,
             e.cable = d, e.before \in {None, cables[d].status},
             cables'[d].status = StatusAfter(e),
             \A c \in Cables \ {d} : cables'[c] = cables[c]
      PROVE  Histories'
  <2> SUFFICES ASSUME NEW c \in Cables PROVE HistoryOf(c)'
    BY DEF Histories
  <2>1. CASE c = d
    BY <1>0, <1>1, <2>1, HistoryGrows DEF Histories
  <2>2. CASE c # d
    BY <1>0, <1>1, <2>2, HistoryStays DEF Histories
  <2> QED BY <2>1, <2>2
<1>2. ASSUME NEW r \in Requests, CommitInstall(r)
      PROVE  Histories'
  <2> DEFINE c == req[r].cable
  <2>1. /\ c \in Cables
        /\ cables'[c].status = "installed"
        /\ \A d \in Cables \ {c} : cables'[d] = cables[d]
        /\ \E e \in Event : /\ audit' = Append(audit, e)
                            /\ e.action = "cable.installed" /\ e.cable = c
                            /\ e.before = cables[c].status /\ e.after = "installed"
    BY <1>2, FreshInstall
  <2> HIDE DEF c
  <2> QED BY <1>1, <2>1 DEF StatusAfter
<1>3. ASSUME NEW r \in Requests, CommitTest(r)
      PROVE  Histories'
  <2> DEFINE c == req[r].cable
  <2>1. /\ c \in Cables
        /\ cables'[c].status = "tested"
        /\ \A d \in Cables \ {c} : cables'[d] = cables[d]
        /\ \E e \in Event : /\ audit' = Append(audit, e)
                            /\ e.action = "cable.tested" /\ e.cable = c
                            /\ e.before = None
    BY <1>3, FreshTest
  <2> HIDE DEF c
  <2> QED BY <1>1, <2>1 DEF StatusAfter
<1>4. ASSUME NEW r \in Requests, CommitApproval(r)
      PROVE  Histories'
  <2> DEFINE c == req[r].cable
  <2>1. /\ c \in Cables
        /\ cables'[c].status = "in_service"
        /\ \A d \in Cables \ {c} : cables'[d] = cables[d]
        /\ \E e \in Event : /\ audit' = Append(audit, e)
                            /\ e.action = "cable.commissioned" /\ e.cable = c
                            /\ e.before = cables[c].status /\ e.after = "in_service"
    BY <1>4, FreshApproval
  <2> HIDE DEF c
  <2> QED BY <1>1, <2>1 DEF StatusAfter
<1>5. ASSUME NEW a \in Actors, NEW w \in WorkOrders, NEW d \in Cables \cup {None},
             CreateWorkOrder(a, w, d)
      PROVE  Histories'
  <2> DEFINE e == [action |-> "workorder.created", actor |-> a, cable |-> None,
                   test |-> None, order |-> w, before |-> None, after |-> None]
  <2>1. e \in Event /\ e.cable = None
    BY DEF Event
  <2>2. audit' = Append(audit, e) /\ cables' = cables
    BY <1>5 DEF CreateWorkOrder
  <2> HIDE DEF e
  <2>3. ASSUME NEW c \in Cables PROVE HistoryOf(c)'
    BY <1>0, <2>1, <2>2, HistoryStays, NoneIsNoCable DEF Histories
  <2> QED BY <2>3 DEF Histories
<1>6. CASE audit' = audit /\ cables' = cables
  BY <1>6 DEF Histories, HistoryOf, CableEvents
<1> QED
  BY <1>2, <1>3, <1>4, <1>5, <1>6 DEF Next, vars, BeginInstall, BeginTest, BeginApprove,
     ReadCable, RejectFailed, ReadOrder, RejectOrder, Abort

(* A record that is commissioned is submitted: it has no event yet.        *)
LEMMA OnceStep ==
    ASSUME IndInv, \A r \in Requests : Fresh(r), OnTheWay, AuditNamesActors,
           CommissionedOnce, [Next]_vars
    PROVE  CommissionedOnce'
<1>0. audit \in Seq(Event)
  BY DEF IndInv, TypeOK
<1>1. ASSUME NEW e \in Event, audit' = Append(audit, e),
             \A t \in Tests : e.action = "cable.commissioned" /\ e.test = t => Commissions(t) = {}
      PROVE  CommissionedOnce'
  <2> DEFINE n == Len(audit) + 1
  <2>1. /\ DOMAIN audit' = DOMAIN audit \cup {n}
        /\ \A i \in DOMAIN audit : audit'[i] = audit[i]
        /\ audit'[n] = e
    BY <1>0, <1>1, AppendedEvent
  <2> HIDE DEF n
  <2>2. ASSUME NEW t \in Tests, NEW i \in Commissions(t)', NEW j \in Commissions(t)'
        PROVE  i = j
    <3>1. \A k \in Commissions(t)' : k \in Commissions(t) \/ k = n
      BY <2>1 DEF Commissions
    <3>2. n \in Commissions(t)' => Commissions(t) = {}
      BY <1>1, <2>1 DEF Commissions
    <3> QED BY <3>1, <3>2 DEF CommissionedOnce
  <2> QED BY <2>2 DEF CommissionedOnce
<1>2. ASSUME NEW r \in Requests, CommitInstall(r)
      PROVE  CommissionedOnce'
  <2>1. \E e \in Event : audit' = Append(audit, e) /\ e.action = "cable.installed"
    BY <1>2, FreshInstall
  <2> QED BY <1>1, <2>1
<1>3. ASSUME NEW r \in Requests, CommitTest(r)
      PROVE  CommissionedOnce'
  <2>1. \E e \in Event : audit' = Append(audit, e) /\ e.action = "cable.tested"
    BY <1>3, FreshTest
  <2> QED BY <1>1, <2>1
<1>4. ASSUME NEW r \in Requests, CommitApproval(r)
      PROVE  CommissionedOnce'
  <2>1. /\ tests[req[r].test].status = "submitted"
        /\ \E e \in Event : /\ audit' = Append(audit, e)
                            /\ e.test = req[r].test
    BY <1>4, FreshApproval
  <2>2. req[r].test \in Tests
    BY <1>4, ApprovalWrites
  <2>3. Commissions(req[r].test) = {}
    BY <2>1, <2>2 DEF AuditNamesActors
  <2> QED BY <1>1, <2>1, <2>3
<1>5. ASSUME NEW a \in Actors, NEW w \in WorkOrders, NEW d \in Cables \cup {None},
             CreateWorkOrder(a, w, d)
      PROVE  CommissionedOnce'
  <2> DEFINE e == [action |-> "workorder.created", actor |-> a, cable |-> None,
                   test |-> None, order |-> w, before |-> None, after |-> None]
  <2>1. e \in Event /\ e.action # "cable.commissioned"
    BY DEF Event
  <2>2. audit' = Append(audit, e)
    BY <1>5 DEF CreateWorkOrder
  <2> HIDE DEF e
  <2> QED BY <1>1, <2>1, <2>2
<1>6. CASE audit' = audit
  BY <1>6 DEF CommissionedOnce, Commissions
<1> QED
  BY <1>2, <1>3, <1>4, <1>5, <1>6 DEF Next, vars, BeginInstall, BeginTest, BeginApprove,
     ReadCable, RejectFailed, ReadOrder, RejectOrder, Abort

(* The inductive invariant when one request ends before the next begins.   *)
SerialInv ==
    /\ IndInv
    /\ \A r \in Requests : Fresh(r)
    /\ OnTheWay
    /\ \A w \in WorkOrders : orders[w].status = "absent" => orders[w].version = 0
    /\ TestColumnsAgree
    /\ Histories
    /\ CommissionedOnce

LEMMA SerialInvHolds ==
    ASSUME \A r, s \in Requests : r = s
    PROVE  Spec => []SerialInv
<1>1. Init => SerialInv
  <2> SUFFICES ASSUME Init PROVE SerialInv
    OBVIOUS
  <2>1. IndInv
    BY IndInvInit
  <2>2. \A r \in Requests : Fresh(r)
    BY DEF Init, Fresh, Idle
  <2>3. \A c \in Cables : /\ cables[c].status \in {"planned", "staged"}
                          /\ cables[c].test_status = None /\ cables[c].tested_at = None
    BY DEF Init, FreshCable
  <2>4. OnTheWay /\ TestColumnsAgree
    BY <2>3 DEF Init, OnTheWay, TestColumnsAgree, NoTest, Successors
  <2>5. Histories /\ CommissionedOnce
    BY DEF Init, Histories, HistoryOf, CableEvents, CommissionedOnce, Commissions
  <2>6. \A w \in WorkOrders : orders[w].version = 0
    BY DEF Init, NoOrder
  <2> QED BY <2>1, <2>2, <2>4, <2>5, <2>6 DEF SerialInv
<1>2. SerialInv /\ AuditNamesActors /\ [Next]_vars => SerialInv'
  <2> SUFFICES ASSUME SerialInv, AuditNamesActors, [Next]_vars PROVE SerialInv'
    OBVIOUS
  <2>1. IndInv'
    BY IndInvStep DEF SerialInv
  <2>2. \A r \in Requests : Fresh(r)'
    BY FreshStep DEF SerialInv
  <2>3. OnTheWay' /\ TestColumnsAgree' /\ Histories' /\ CommissionedOnce'
    BY WayStep, ColumnsStep, HistoryStep, OnceStep DEF SerialInv
  <2>4. \A w \in WorkOrders : orders'[w].status = "absent" => orders'[w].version = 0
    BY OrderVersions DEF SerialInv
  <2> QED BY <2>1, <2>2, <2>3, <2>4 DEF SerialInv
<1> QED BY <1>1, <1>2, LogNamesActors, PTL DEF Spec

(* submit_test, when one request ends before the next begins.              *)
THEOREM TestColumnsAgreeInSeries ==
    ASSUME \A r, s \in Requests : r = s
    PROVE  Spec => []TestColumnsAgree
<1>1. SerialInv => TestColumnsAgree
  BY DEF SerialInv
<1> QED BY <1>1, SerialInvHolds, PTL

(* record_audit, when one request ends before the next begins.             *)
THEOREM HistoryInSeries ==
    ASSUME \A r, s \in Requests : r = s
    PROVE  Spec => []AuditIsAHistory
<1>1. SerialInv => AuditIsAHistory
  BY DEF SerialInv, AuditIsAHistory, Histories, HistoryOf, CommissionedOnce
<1> QED BY <1>1, SerialInvHolds, PTL

(* The status checks of the workflow, when one request ends before the     *)
(* next begins.                                                            *)
THEOREM LifecycleInSeries ==
    ASSUME \A r, s \in Requests : r = s
    PROVE  Spec => FollowsLifecycle
<1>1. SerialInv /\ [Next]_vars =>
         [\A c \in Cables :
             cables'[c].status # cables[c].status =>
                cables'[c].status \in Successors[cables[c].status]]_vars
  BY WayStep DEF SerialInv
<1> QED BY <1>1, SerialInvHolds, PTL DEF Spec, FollowsLifecycle

(* _increment_versions, when one request ends before the next begins.      *)
THEOREM VersionsCountInSeries ==
    ASSUME \A r, s \in Requests : r = s
    PROVE  Spec => VersionCountsChanges
<1>1. SerialInv /\ [Next]_vars =>
         [/\ \A c \in Cables :
                cables'[c] # cables[c] => cables'[c].version = cables[c].version + 1
          /\ \A t \in Tests :
                tests'[t] # tests[t] => tests'[t].version = tests[t].version + 1
          /\ \A w \in WorkOrders :
                orders'[w] # orders[w] => orders'[w].version = orders[w].version + 1]_vars
  BY WayStep, RecordVersions, OrderVersions DEF SerialInv
<1> QED BY <1>1, SerialInvHolds, PTL DEF Spec, VersionCountsChanges

----------------------------------------------------------------------------
(* Commissioning alone keeps its own safety properties, for any behaviour  *)
(* of its variables and not only the workflow's.                           *)

VARIABLES record, inService

Alone == INSTANCE Commissioning

(* Inductive: a record is absent, or has all of what a submission stores.  *)
WholeRecords ==
    \A t \in Tests :
        \/ record[t] = Alone!Absent
        \/ /\ record[t].cable \in Cables
           /\ record[t].tester \in Actors
           /\ record[t].result \in {"PASS", "FAIL"}

AloneInv ==
    /\ Alone!TypeOK
    /\ WholeRecords
    /\ Alone!ApprovalIsIndependent
    /\ Alone!ServiceNeedsApproval

LEMMA AloneInit == Alone!Init => AloneInv
BY DEF Alone!Init, AloneInv, Alone!TypeOK, Alone!Records, Alone!Absent, WholeRecords, Alone!ApprovalIsIndependent,
       Alone!ServiceNeedsApproval

LEMMA AloneSubmits ==
    ASSUME Alone!NoneIsNoValue, AloneInv, NEW t \in Tests, NEW c \in Cables, NEW a \in Actors,
           NEW res \in {"PASS", "FAIL"}, Alone!Submit(t, c, a, res)
    PROVE  AloneInv'
<1> DEFINE new == [cable |-> c, tester |-> a, result |-> res, approver |-> None]
<1>1. new \in Alone!Records /\ record' = [record EXCEPT ![t] = new] /\ inService' \subseteq inService
  BY DEF Alone!Submit, Alone!Records
<1>2. /\ \A u \in Tests \ {t} : record'[u] = record[u]
      /\ record'[t].cable = c /\ record'[t].tester = a
      /\ record'[t].result = res /\ record'[t].approver = None
  BY <1>1 DEF AloneInv, Alone!TypeOK
<1>3. Alone!TypeOK'
  BY <1>1 DEF AloneInv, Alone!TypeOK
<1>4. WholeRecords' /\ Alone!ApprovalIsIndependent'
  BY <1>2 DEF AloneInv, WholeRecords, Alone!ApprovalIsIndependent
<1>5. record[t] = Alone!Absent
  BY DEF Alone!NoneIsNoValue, AloneInv, WholeRecords, Alone!Submit
<1>6. Alone!ServiceNeedsApproval'
  <2>1. record[t].approver = None
    BY <1>5 DEF Alone!Absent
  <2> QED
    BY <1>1, <1>2, <2>1 DEF AloneInv, Alone!ServiceNeedsApproval, Alone!ApprovedPass
<1> QED
  BY <1>3, <1>4, <1>6 DEF AloneInv

LEMMA AloneApproves ==
    ASSUME Alone!NoneIsNoValue, AloneInv, NEW t \in Tests, NEW a \in Actors, Alone!Approve(t, a)
    PROVE  AloneInv'
<1>1. /\ record' = [record EXCEPT ![t].approver = a]
      /\ record[t].cable # None /\ record[t].result = "PASS" /\ record[t].tester # a
      /\ inService' \subseteq inService \cup {record[t].cable}
  BY DEF Alone!Approve
<1>2. /\ record[t] \in Alone!Records
      /\ record[t].cable \in Cables /\ record[t].tester \in Actors
  BY <1>1 DEF AloneInv, Alone!TypeOK, WholeRecords, Alone!Absent
<1>3. /\ \A u \in Tests \ {t} : record'[u] = record[u]
      /\ record'[t] \in Alone!Records
      /\ record'[t].cable = record[t].cable /\ record'[t].tester = record[t].tester
      /\ record'[t].result = record[t].result /\ record'[t].approver = a
  BY <1>1, <1>2 DEF AloneInv, Alone!TypeOK, Alone!Records
<1>4. Alone!TypeOK'
  BY <1>1, <1>2, <1>3 DEF AloneInv, Alone!TypeOK
<1>5. WholeRecords' /\ Alone!ApprovalIsIndependent'
  BY <1>1, <1>2, <1>3 DEF AloneInv, WholeRecords, Alone!ApprovalIsIndependent
<1>6. Alone!ServiceNeedsApproval'
  BY <1>1, <1>2, <1>3 DEF Alone!NoneIsNoValue, AloneInv, Alone!ServiceNeedsApproval, Alone!ApprovedPass
<1> QED
  BY <1>4, <1>5, <1>6 DEF AloneInv

LEMMA AloneStep == Alone!NoneIsNoValue /\ AloneInv /\ [Alone!Next]_(Alone!vars) => AloneInv'
<1> SUFFICES ASSUME Alone!NoneIsNoValue, AloneInv, [Alone!Next]_(Alone!vars)
             PROVE  AloneInv'
  OBVIOUS
<1>1. ASSUME NEW c \in Cables, Alone!Withdraw(c)
      PROVE  AloneInv'
  BY <1>1 DEF Alone!Withdraw, AloneInv, Alone!TypeOK, WholeRecords, Alone!ApprovalIsIndependent,
      Alone!ServiceNeedsApproval, Alone!ApprovedPass
<1>2. CASE UNCHANGED Alone!vars
  BY <1>2 DEF Alone!vars, AloneInv, Alone!TypeOK, WholeRecords, Alone!ApprovalIsIndependent,
      Alone!ServiceNeedsApproval, Alone!ApprovedPass
<1> QED
  BY <1>1, <1>2, AloneSubmits, AloneApproves DEF Alone!Next

(* approve_test, as promised: a cable in service has an approved passed    *)
(* test record.                                                            *)
THEOREM PromisedService == Alone!NoneIsNoValue => (Alone!Spec => []Alone!ServiceNeedsApproval)
<1> SUFFICES ASSUME Alone!NoneIsNoValue PROVE Alone!Spec => []Alone!ServiceNeedsApproval
  OBVIOUS
<1>1. AloneInv /\ [Alone!Next]_(Alone!vars) => AloneInv'
  BY AloneStep
<1>2. Alone!Spec => []AloneInv
  BY AloneInit, <1>1, PTL DEF Alone!Spec
<1>3. AloneInv => Alone!ServiceNeedsApproval
  BY DEF AloneInv
<1> QED
  BY <1>2, <1>3, PTL

(* approve_test, as promised: nobody approves a test of their own.         *)
THEOREM PromisedIndependence == Alone!NoneIsNoValue => (Alone!Spec => []Alone!ApprovalIsIndependent)
<1> SUFFICES ASSUME Alone!NoneIsNoValue PROVE Alone!Spec => []Alone!ApprovalIsIndependent
  OBVIOUS
<1>1. AloneInv /\ [Alone!Next]_(Alone!vars) => AloneInv'
  BY AloneStep
<1>2. Alone!Spec => []AloneInv
  BY AloneInit, <1>1, PTL DEF Alone!Spec
<1>3. AloneInv => Alone!ApprovalIsIndependent
  BY DEF AloneInv
<1> QED
  BY <1>2, <1>3, PTL

=============================================================================
