--------------------------- MODULE CableWorkflow ---------------------------
(***************************************************************************)
(* The installation workflow of a cable: services/workflow.py, the request *)
(* handlers of main.py that run it, the audit event each of them writes    *)
(* (audit.py) and the version hook of db.py.                               *)
(*                                                                         *)
(* A request runs in a session and a transaction of its own, in a thread   *)
(* of its own.  Under READ COMMITTED every session.get is one read of what *)
(* is committed at that moment, so each is a step; the last flush and the  *)
(* commit are one step, because rows are locked from the one to the other  *)
(* and other requests read the old rows until then.  An UPDATE writes the  *)
(* columns whose value the session changed from the value IT LOADED, and   *)
(* no others.                                                              *)
(*                                                                         *)
(* A timestamp taken by a test stands for its record (tested_at of a cable *)
(* is the record it was copied from); installed_at and approved_at always  *)
(* change together with a modelled column and are left out.                *)
(*                                                                         *)
(* An audit event takes its timestamp, the only order its table has, in    *)
(* that flush, where an UPDATE may yet wait for another request's lock.    *)
(* Timestamps and places in audit agree on requests of which one ends      *)
(* before the other begins, but may differ on those that overlap: what is  *)
(* said of overlapping requests is about which events there are.           *)
(*                                                                         *)
(* A definition that stands right before another of the same parameters,   *)
(* and whose name continues the other's, is a plausible mistake in it: the *)
(* property named for it in PROJECT.json fails when it takes the place.    *)
(***************************************************************************)
EXTENDS Naturals, Sequences

CONSTANTS
    Cables,       \* cables that create_cable or the seed has stored
    WorkOrders,   \* work orders that may be created
    Tests,        \* identities of test records
    Actors,       \* users, employees and contractors alike
    Requests,     \* request threads of all API processes
    Permissions,  \* Permissions[a]: what the resolved principal of a may do
    None          \* an SQL NULL, a Python None

ASSUME NoneIsNoCable == None \notin Cables
ASSUME NoneIsNoOrder == None \notin WorkOrders
ASSUME NoneIsNoTest  == None \notin Tests
ASSUME NoneIsNoActor == None \notin Actors

VARIABLES
    cables,    \* committed rows of table cables
    orders,    \* committed rows of table work_orders
    tests,     \* committed rows of table test_records
    audit,     \* committed rows of table audit_events, as they were committed
    req        \* req[r]: what request r has loaded and is about to do

vars == <<cables, orders, tests, audit, req>>

----------------------------------------------------------------------------
(* Rows                                                                    *)

CableStatus ==
    {"planned", "approved", "ordered", "staged", "installed", "terminated",
     "tested", "commissioned", "in_service", "spare", "abandoned", "removed"}

(* "absent" marks an identity for which no row exists.                     *)
WorkOrderStatus ==
    {"absent", "draft", "ready", "in_progress", "awaiting_test",
     "awaiting_approval", "completed", "cancelled"}

Results == {"PASS", "FAIL"}

CableRow == [status : CableStatus, installer : Actors \cup {None},
             test_status : Results \cup {None}, tested_at : Tests \cup {None},
             version : Nat]

OrderRow == [cable : Cables \cup {None}, status : WorkOrderStatus, version : Nat]

TestRow == [cable : Cables \cup {None}, order : WorkOrders \cup {None},
            tester : Actors \cup {None}, result : Results \cup {None},
            status : {"absent", "submitted", "approved"},
            approved_by : Actors \cup {None}, version : Nat]

FreshCable(s) == [status |-> s, installer |-> None, test_status |-> None,
                  tested_at |-> None, version |-> 1]
NoCable == FreshCable("planned")
NoOrder == [cable |-> None, status |-> "absent", version |-> 0]
NoTest  == [cable |-> None, order |-> None, tester |-> None, result |-> None,
            status |-> "absent", approved_by |-> None, version |-> 0]

Event == [action : {"cable.installed", "cable.tested", "cable.commissioned",
                    "workorder.created"},
          actor : Actors, cable : Cables \cup {None},
          test : Tests \cup {None}, order : WorkOrders \cup {None},
          before : CableStatus \cup {None},
          after : CableStatus \cup Results \cup {None}]

(* A session's copy of a row, and the operation that holds it.             *)
Request == [at : {"idle", "read_cable", "read_order", "commit"},
            op : {"none", "install", "test", "approve"},
            actor : Actors \cup {None}, cable : Cables \cup {None},
            order : WorkOrders \cup {None}, test : Tests \cup {None},
            result : Results \cup {None},
            seen_cable : CableRow, seen_order : OrderRow, seen_test : TestRow]

Idle == [at |-> "idle", op |-> "none", actor |-> None, cable |-> None,
         order |-> None, test |-> None, result |-> None,
         seen_cable |-> NoCable, seen_order |-> NoOrder, seen_test |-> NoTest]

TypeOK ==
    /\ cables \in [Cables -> CableRow]
    /\ orders \in [WorkOrders -> OrderRow]
    /\ tests \in [Tests -> TestRow]
    /\ audit \in Seq(Event)
    /\ req \in [Requests -> Request]

----------------------------------------------------------------------------
(* What the ORM writes.  stored is the committed row, seen the row as the  *)
(* session loaded it, dirty the row as the session leaves it.              *)

Column(stored, seen, dirty) == IF dirty = seen THEN stored ELSE dirty

NextVersionKept(seen) == seen.version
NextVersion(seen) == seen.version + 1

UpdatedCable(stored, seen, dirty) ==
    IF dirty = seen THEN stored
    ELSE [status      |-> Column(stored.status, seen.status, dirty.status),
          installer   |-> Column(stored.installer, seen.installer, dirty.installer),
          test_status |-> Column(stored.test_status, seen.test_status, dirty.test_status),
          tested_at   |-> Column(stored.tested_at, seen.tested_at, dirty.tested_at),
          version     |-> NextVersion(seen)]

UpdatedOrder(stored, seen, status) ==
    IF status = seen.status THEN stored
    ELSE [cable |-> stored.cable, status |-> status, version |-> NextVersion(seen)]

UpdatedTest(stored, seen, dirty) ==
    IF dirty = seen THEN stored
    ELSE [cable       |-> stored.cable,
          order       |-> stored.order,
          tester      |-> stored.tester,
          result      |-> stored.result,
          status      |-> Column(stored.status, seen.status, dirty.status),
          approved_by |-> Column(stored.approved_by, seen.approved_by, dirty.approved_by),
          version     |-> NextVersion(seen)]

CableEventLate(action, r, before, after) ==
    [action |-> action, actor |-> req[r].actor, cable |-> req[r].cable,
     test |-> req[r].test, order |-> None, before |-> after, after |-> after]

CableEvent(action, r, before, after) ==
    [action |-> action, actor |-> req[r].actor, cable |-> req[r].cable,
     test |-> req[r].test, order |-> None, before |-> before, after |-> after]

----------------------------------------------------------------------------
Init ==
    /\ cables \in [Cables -> {FreshCable("planned"), FreshCable("staged")}]
    /\ orders = [w \in WorkOrders |-> NoOrder]
    /\ tests = [t \in Tests |-> NoTest]
    /\ audit = <<>>
    /\ req = [r \in Requests |-> Idle]

Can(a, permission) ==
    \/ "*" \in Permissions[a]
    \/ permission \in Permissions[a]

(* The request ends: its session is closed.                                *)
Finish(r) == req' = [req EXCEPT ![r] = Idle]

(* POST /work-orders: insert, audit and commit, with nothing read.         *)
CreateWorkOrder(a, w, c) ==
    /\ Can(a, "work_order:create")
    /\ orders[w].status = "absent"
    /\ orders' = [orders EXCEPT ![w] = [cable |-> c, status |-> "ready", version |-> 1]]
    /\ audit' = Append(audit,
            [action |-> "workorder.created", actor |-> a, cable |-> None,
             test |-> None, order |-> w, before |-> None, after |-> None])
    /\ UNCHANGED <<cables, tests, req>>

----------------------------------------------------------------------------
(* POST /cables/{id}/install                                               *)

Installable == {"planned", "approved", "ordered", "staged", "terminated"}

AfterCable(w) == IF w = None THEN "commit" ELSE "read_order"

BeginInstall(r, a, c, w) ==
    /\ req[r].at = "idle"
    /\ Can(a, "cable:install")
    /\ cables[c].status \in Installable
    /\ req' = [req EXCEPT ![r] =
            [Idle EXCEPT !.at = AfterCable(w), !.op = "install", !.actor = a,
                         !.cable = c, !.order = w, !.seen_cable = cables[c]]]
    /\ UNCHANGED <<cables, orders, tests, audit>>

InstalledCable(r) ==
    [req[r].seen_cable EXCEPT !.status = "installed", !.installer = req[r].actor]

(* A request without a work order leaves every work order as it is.        *)
OrdersAfter(r, status) ==
    [w \in WorkOrders |->
        IF w = req[r].order
        THEN UpdatedOrder(orders[w], req[r].seen_order, status)
        ELSE orders[w]]

CommitInstall(r) ==
    LET c == req[r].cable
        seen == req[r].seen_cable
        dirty == InstalledCable(r)
    IN  /\ req[r].at = "commit"
        /\ req[r].op = "install"
        /\ cables' = [cables EXCEPT ![c] = UpdatedCable(@, seen, dirty)]
        /\ orders' = OrdersAfter(r, "awaiting_test")
        /\ audit' = Append(audit,
                CableEvent("cable.installed", r, seen.status, dirty.status))
        /\ Finish(r)
        /\ UNCHANGED tests

----------------------------------------------------------------------------
(* POST /cables/{id}/tests.  The record is inserted by the first flush and *)
(* stays invisible to others until the commit.                             *)

TestableInService == {"installed", "terminated", "tested", "in_service"}

Testable == {"installed", "terminated", "tested"}

Unused(t) ==
    /\ tests[t].status = "absent"
    /\ \A r \in Requests : req[r].op = "test" => req[r].test # t

BeginTest(r, a, c, result, w, t) ==
    /\ req[r].at = "idle"
    /\ Can(a, "cable:test")
    /\ cables[c].status \in Testable
    /\ Unused(t)
    /\ req' = [req EXCEPT ![r] =
            [Idle EXCEPT !.at = AfterCable(w), !.op = "test", !.actor = a,
                         !.cable = c, !.order = w, !.test = t,
                         !.result = result, !.seen_cable = cables[c]]]
    /\ UNCHANGED <<cables, orders, tests, audit>>

TestedCableUndated(r) ==
    [req[r].seen_cable EXCEPT !.status = "tested", !.test_status = req[r].result]
TestedCableInService(r) ==
    [req[r].seen_cable EXCEPT !.status = "in_service", !.test_status = req[r].result,
                              !.tested_at = req[r].test]

TestedCable(r) ==
    [req[r].seen_cable EXCEPT !.status = "tested", !.test_status = req[r].result,
                              !.tested_at = req[r].test]

SubmittedTestWithoutOrder(r) ==
    [cable |-> req[r].cable, order |-> None, tester |-> req[r].actor,
     result |-> req[r].result, status |-> "submitted", approved_by |-> None,
     version |-> 1]

SubmittedTest(r) ==
    [cable |-> req[r].cable, order |-> req[r].order, tester |-> req[r].actor,
     result |-> req[r].result, status |-> "submitted", approved_by |-> None,
     version |-> 1]

CommitTest(r) ==
    LET c == req[r].cable
    IN  /\ req[r].at = "commit"
        /\ req[r].op = "test"
        /\ tests' = [tests EXCEPT ![req[r].test] = SubmittedTest(r)]
        /\ cables' = [cables EXCEPT ![c] =
                UpdatedCable(@, req[r].seen_cable, TestedCable(r))]
        /\ orders' = OrdersAfter(r, "awaiting_approval")
        /\ audit' = Append(audit,
                CableEvent("cable.tested", r, None, req[r].result))
        /\ Finish(r)

----------------------------------------------------------------------------
(* POST /tests/{id}/approve.  A record found approved is returned as it    *)
(* is: nothing is written.                                                 *)

ApprovableByTester(a, t) == tests[t].status = "submitted"
Approvable(a, t) ==
    /\ tests[t].status # "absent"
    /\ tests[t].tester # a
    /\ tests[t].status # "approved"

BeginApprove(r, a, t) ==
    /\ req[r].at = "idle"
    /\ Can(a, "cable:approve")
    /\ Approvable(a, t)
    /\ req' = [req EXCEPT ![r] =
            [Idle EXCEPT !.at = "read_cable", !.op = "approve", !.actor = a,
                         !.cable = tests[t].cable, !.order = tests[t].order,
                         !.test = t, !.seen_test = tests[t]]]
    /\ UNCHANGED <<cables, orders, tests, audit>>

ReadCable(r) ==
    /\ req[r].at = "read_cable"
    /\ req[r].seen_test.result = "PASS"
    /\ req' = [req EXCEPT ![r].at = AfterCable(req[r].order),
                          ![r].seen_cable = cables[req[r].cable]]
    /\ UNCHANGED <<cables, orders, tests, audit>>

(* A failed record cannot commission a cable.                              *)
RejectFailed(r) ==
    /\ req[r].at = "read_cable"
    /\ req[r].seen_test.result # "PASS"
    /\ Finish(r)
    /\ UNCHANGED <<cables, orders, tests, audit>>

CommissionedCable(r) == [req[r].seen_cable EXCEPT !.status = "in_service"]

ApprovedTestUnmarked(r) == [req[r].seen_test EXCEPT !.approved_by = req[r].actor]

ApprovedTest(r) ==
    [req[r].seen_test EXCEPT !.status = "approved", !.approved_by = req[r].actor]

Commissioned(r) ==
    CableEvent("cable.commissioned", r, req[r].seen_cable.status, "in_service")

LogApprovalOfChange(r) ==
    audit' = IF req[r].seen_cable.status = "in_service" THEN audit
             ELSE Append(audit, Commissioned(r))
LogApproval(r) == audit' = Append(audit, Commissioned(r))

CommitApproval(r) ==
    LET c == req[r].cable
        seen == req[r].seen_cable
    IN  /\ req[r].at = "commit"
        /\ req[r].op = "approve"
        /\ tests' = [tests EXCEPT ![req[r].test] =
                UpdatedTest(@, req[r].seen_test, ApprovedTest(r))]
        /\ cables' = [cables EXCEPT ![c] =
                UpdatedCable(@, seen, CommissionedCable(r))]
        /\ orders' = OrdersAfter(r, "completed")
        /\ LogApproval(r)
        /\ Finish(r)

----------------------------------------------------------------------------
(* The work order is read last.  An installation or a test needs one that  *)
(* exists and is for this cable or for none; an approval takes the one its *)
(* record names.                                                           *)

OrderFits(r) ==
    LET order == orders[req[r].order]
    IN  /\ order.status # "absent"
        /\ req[r].op # "approve" => order.cable \in {None, req[r].cable}

ReadOrder(r) ==
    /\ req[r].at = "read_order"
    /\ OrderFits(r)
    /\ req' = [req EXCEPT ![r].at = "commit", ![r].seen_order = orders[req[r].order]]
    /\ UNCHANGED <<cables, orders, tests, audit>>

(* NotFoundError after the cable, and for a test the inserted record, were *)
(* already changed in the session: all of it is rolled back.               *)
RejectOrder(r) ==
    /\ req[r].at = "read_order"
    /\ ~ OrderFits(r)
    /\ Finish(r)
    /\ UNCHANGED <<cables, orders, tests, audit>>

(* The process or its database connection is lost before the commit.       *)
Abort(r) ==
    /\ req[r].at # "idle"
    /\ Finish(r)
    /\ UNCHANGED <<cables, orders, tests, audit>>

Next ==
    \/ \E a \in Actors, w \in WorkOrders, c \in Cables \cup {None} :
          CreateWorkOrder(a, w, c)
    \/ \E r \in Requests, a \in Actors, c \in Cables, w \in WorkOrders \cup {None} :
          BeginInstall(r, a, c, w)
    \/ \E r \in Requests, a \in Actors, c \in Cables, result \in Results,
          w \in WorkOrders \cup {None}, t \in Tests :
          BeginTest(r, a, c, result, w, t)
    \/ \E r \in Requests, a \in Actors, t \in Tests : BeginApprove(r, a, t)
    \/ \E r \in Requests :
          \/ ReadCable(r)
          \/ RejectFailed(r)
          \/ ReadOrder(r)
          \/ RejectOrder(r)
          \/ CommitInstall(r)
          \/ CommitTest(r)
          \/ CommitApproval(r)
          \/ Abort(r)

Spec == Init /\ [][Next]_vars

----------------------------------------------------------------------------
(* Properties that hold however requests overlap                           *)

(* mark_installed, submit_test and approve_test: an approved test record   *)
(* passed, and its approver is not its tester, also when two supervisors   *)
(* approve it at the same time.                                            *)
SeparationOfDuties ==
    \A t \in Tests :
        tests[t].status = "approved" =>
            /\ tests[t].result = "PASS"
            /\ tests[t].approved_by \in Actors \ {tests[t].tester}

ApprovedPass(t, c) ==
    /\ tests[t].cable = c
    /\ tests[t].result = "PASS"
    /\ tests[t].status = "approved"

(* approve_test: a cable is in service only if a passed test record of     *)
(* this very cable was approved.                                           *)
InServiceHasApprovedPass ==
    \A c \in Cables :
        cables[c].status = "in_service" => \E t \in Tests : ApprovedPass(t, c)

Commissions(t) ==
    {i \in DOMAIN audit : audit[i].action = "cable.commissioned" /\ audit[i].test = t}

Installs(c) ==
    {i \in DOMAIN audit : audit[i].action = "cable.installed" /\ audit[i].cable = c}

(* record_audit in approve_test and mark_installed: the log names who did  *)
(* it, however the requests overlap.  A record is approved exactly when    *)
(* the log says so; whoever its row names as the approver is among those   *)
(* who logged its approval, and its tester never is, also when a second    *)
(* approval finds the cable in service and writes over the first.  A cable *)
(* has an installer exactly when an installation is logged, and one of     *)
(* them is by the installer that its row names.                            *)
AuditNamesActors ==
    /\ \A t \in Tests :
          /\ tests[t].status = "approved" <=> Commissions(t) # {}
          /\ tests[t].status = "approved" =>
                \E i \in Commissions(t) : audit[i].actor = tests[t].approved_by
          /\ \A i \in Commissions(t) : audit[i].actor # tests[t].tester
    /\ \A c \in Cables :
          /\ cables[c].installer = None <=> Installs(c) = {}
          /\ cables[c].installer # None =>
                \E i \in Installs(c) : audit[i].actor = cables[c].installer

(* submit_test and approve_test on a work order that several cables may    *)
(* share: it waits for approval, or is complete, only on the evidence of a *)
(* stored, or approved, test record that names it.                         *)
OrderStatusHasEvidence ==
    \A w \in WorkOrders :
        /\ orders[w].status = "awaiting_approval" =>
              \E t \in Tests : tests[t].order = w
        /\ orders[w].status = "completed" =>
              \E t \in Tests : tests[t].order = w /\ tests[t].status = "approved"

(* What CableWorkflow promises at a higher level: Commissioning, with the  *)
(* records and the set of cables in service read off the committed rows.   *)
StoredRecords ==
    [t \in Tests |-> [cable |-> tests[t].cable, tester |-> tests[t].tester,
                      result |-> tests[t].result, approver |-> tests[t].approved_by]]

InService == {c \in Cables : cables[c].status = "in_service"}

Promise == INSTANCE Commissioning WITH record <- StoredRecords, inService <- InService

(* Every step of every interleaving is a step of the promise.              *)
ImplementsPromise == Promise!Spec

----------------------------------------------------------------------------
(* Why the first group holds: what every request has loaded is still true  *)
(* of the rows it will write, because the columns it relies on never       *)
(* change once they are stored.                                            *)

RecordsWellFormed ==
    \A t \in Tests :
        \/ tests[t] = NoTest
        \/ /\ tests[t].status = "submitted"
           /\ tests[t].approved_by = None
           /\ tests[t].cable \in Cables
           /\ tests[t].tester \in Actors
           /\ tests[t].result \in Results
        \/ /\ tests[t].status = "approved"
           /\ tests[t].approved_by \in Actors \ {tests[t].tester}
           /\ tests[t].cable \in Cables
           /\ tests[t].tester \in Actors
           /\ tests[t].result = "PASS"

PendingTest(r) ==
    /\ req[r].test \in Tests
    /\ req[r].result \in Results
    /\ tests[req[r].test] = NoTest
    /\ \A q \in Requests :
          q # r /\ req[q].op = "test" => req[q].test # req[r].test

PendingApproval(r) ==
    LET t == req[r].test
    IN  /\ t \in Tests
        /\ tests[t].status # "absent"
        /\ req[r].cable = tests[t].cable
        /\ req[r].order = tests[t].order
        /\ req[r].seen_test.status = "submitted"
        /\ req[r].seen_test.approved_by = None
        /\ req[r].seen_test.result = tests[t].result
        /\ tests[t].tester # req[r].actor
        /\ req[r].at # "read_cable" => tests[t].result = "PASS"

RequestWellFormed(r) ==
    /\ req[r].at = "idle" => req[r].op = "none"
    /\ req[r].at # "idle" =>
          /\ req[r].op # "none"
          /\ req[r].actor \in Actors
          /\ req[r].cable \in Cables
    /\ req[r].at = "read_cable" => req[r].op = "approve"
    /\ req[r].at = "read_order" => req[r].order # None
    /\ req[r].op = "test" => PendingTest(r)
    /\ req[r].op = "approve" => PendingApproval(r)

RequestsWellFormed == \A r \in Requests : RequestWellFormed(r)

(* The inductive invariant: types, well-formed records and requests, and   *)
(* an approved passed record behind every cable in service.                *)
IndInv ==
    /\ TypeOK
    /\ RecordsWellFormed
    /\ RequestsWellFormed
    /\ InServiceHasApprovedPass

----------------------------------------------------------------------------
(* Properties that need one request to finish before the next begins       *)

(* docs/WORK_PROGRESS.md: STAGED -> INSTALLED -> TESTED -> IN_SERVICE.     *)
(* A cable moves along the workflow only; once in service it stays there.  *)
Successors == [planned |-> {"installed"}, staged |-> {"installed"},
               installed |-> {"tested"}, tested |-> {"in_service"},
               in_service |-> {}]

FollowsLifecycle ==
    [][\A c \in Cables :
         cables'[c].status # cables[c].status =>
            cables'[c].status \in Successors[cables[c].status]]_vars

(* _increment_versions: every committed change of a row has the next       *)
(* version, so that two states of a row never share one.                   *)
VersionCountsChanges ==
    [][/\ \A c \in Cables :
            cables'[c] # cables[c] => cables'[c].version = cables[c].version + 1
       /\ \A t \in Tests :
            tests'[t] # tests[t] => tests'[t].version = tests[t].version + 1
       /\ \A w \in WorkOrders :
            orders'[w] # orders[w] => orders'[w].version = orders[w].version + 1]_vars

(* submit_test writes test_status and tested_at of a cable together: the   *)
(* two columns always describe one and the same test record of the cable.  *)
TestColumnsAgree ==
    \A c \in Cables :
        LET t == cables[c].tested_at
        IN  IF t = None THEN cables[c].test_status = None
            ELSE tests[t].cable = c /\ tests[t].result = cables[c].test_status

IsLast(i, places) == i \in places /\ \A j \in places : j <= i

StatusAfter(e) == IF e.action = "cable.tested" THEN "tested" ELSE e.after

CableEvents(c) == {i \in DOMAIN audit : audit[i].cable = c}

(* record_audit: the log of a cable reads as one history, in the order of  *)
(* the timestamps, which in series is that of the commits.  Each event     *)
(* starts from the status the event before it left, the last one left the  *)
(* cable in the status its row has, and no record commissions its cable    *)
(* twice, since approve_test returns an approved record as it is.          *)
AuditIsAHistory ==
    /\ \A c \in Cables : \A i \in CableEvents(c) :
          /\ \A j \in CableEvents(c) :
                IsLast(i, {k \in CableEvents(c) : k < j}) =>
                   audit[j].before \in {None, StatusAfter(audit[i])}
          /\ IsLast(i, CableEvents(c)) => cables[c].status = StatusAfter(audit[i])
    /\ \A t \in Tests : \A i, j \in Commissions(t) : i = j

=============================================================================
