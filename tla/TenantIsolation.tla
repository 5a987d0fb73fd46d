---------------------------- MODULE TenantIsolation ----------------------------
(***************************************************************************)
(* Sessions: how a request of the API gets a worker thread and a database  *)
(* connection, works for one tenant on it, and gives both back (db.py,     *)
(* api/deps.py); and what keeps the rows of tenants apart meanwhile: the   *)
(* filter on selects and the guard on flushes of SQLAlchemy sessions, and  *)
(* on PostgreSQL the row policies of migration 200000000002.               *)
(*                                                                         *)
(* The clients are requests of a tenant, requests of the platform, and the *)
(* script postgres_rls_attack_matrix.py, which has a connection of its own *)
(* and issues plain SQL.  The functions get_db, get_principal and the      *)
(* handler of a request each occupy a thread of the server while they run; *)
(* the connection is held from the first statement until the transaction   *)
(* ends.  Rows of the tables tenants, user_identities and organizations    *)
(* are no part of the model.                                               *)
(*                                                                         *)
(* A definition that stands right before another of the same parameters,   *)
(* and whose name continues the other's, is a plausible mistake in it.     *)
(***************************************************************************)
EXTENDS Naturals, FiniteSets

CONSTANTS
    Requests,      \* of the API
    Scripts,       \* runs of postgres_rls_attack_matrix.py
    Tenants,
    Connections,   \* what the pool of the application's engine may open
    MaxThreads,    \* worker threads of the server
    None           \* an SQL NULL, a Python None, an empty setting

Clients == Requests \cup Scripts

ASSUME ClientsDiffer == Requests \cap Scripts = {}
ASSUME ClientsAreFinite == IsFiniteSet(Clients)
ASSUME ConnectionsAreFinite == IsFiniteSet(Connections)
ASSUME MaxThreadsAssumption == MaxThreads \in Nat \ {0}
ASSUME NoneIsNoValue == None \notin Clients \cup Tenants \cup Connections

VARIABLES
    dialect,   \* of the database the program runs on
    rows,      \* committed rows
    setting,   \* setting[c]: app.current_tenant in the transaction of connection c
    client

vars == <<dialect, rows, setting, client>>

----------------------------------------------------------------------------
(* by is no part of the code: the client that wrote the row last.          *)
Row == [kind : {"owned", "audit", "profile"}, tenant : Tenants \cup {None},
        by : Clients \cup {None}]

InThread == {"connecting", "authenticating", "handling"}
AwaitingThread == {"arrived", "opened", "authenticated"}

(* tenant is session.info["tenant_id"], None in a session with the bypass; *)
(* old and new are rows as they were before and after what is flushed.     *)
Client == [kind : {"none", "tenant", "platform", "script"},
           at : {"new", "scoped", "ended", "done"} \cup AwaitingThread \cup InThread,
           tenant : Tenants \cup {None}, holds : Connections \cup {None},
           old : SUBSET Row, new : SUBSET Row]

TypeOK ==
    /\ dialect \in {"postgresql", "sqlite"}
    /\ rows \subseteq Row
    /\ setting \in [Connections -> Tenants \cup {None}]
    /\ client \in [Clients -> Client]

New == [kind |-> "none", at |-> "new", tenant |-> None, holds |-> None,
        old |-> {}, new |-> {}]

Fresh(kind, t) == [kind |-> kind, tenant |-> t, by |-> None]

Init ==
    /\ dialect \in {"postgresql", "sqlite"}
    /\ rows = { Fresh(kind, t) : kind \in {"owned", "audit"}, t \in Tenants }
                \cup { Fresh("profile", None) }
    /\ setting = [c \in Connections |-> None]
    /\ client = [x \in Clients |-> New]

----------------------------------------------------------------------------
(* What keeps tenants apart                                                *)

(* The criteria _tenant_filter adds to every select of a session.  No code *)
(* sets deleted_at.                                                        *)
FilterShows(x, row) ==
    \/ client[x].kind = "platform"
    \/ row.tenant = client[x].tenant
    \/ row.kind = "profile" /\ row.tenant = None

(* What current_setting('app.current_tenant') is in a statement of x.      *)
CurrentTenant(x) ==
    IF client[x].kind = "script" THEN client[x].tenant
    ELSE IF client[x].holds = None THEN None
    ELSE setting[client[x].holds]

(* USING of the policies, which the role of the platform bypasses.         *)
PolicyShows(x, row) ==
    \/ client[x].kind = "platform"
    \/ row.tenant = CurrentTenant(x) /\ row.tenant # None
    \/ row.kind = "profile" /\ row.tenant = None

(* WITH CHECK of the policies for rows written.                            *)
PolicyAccepts(x, row) ==
    \/ client[x].kind = "platform"
    \/ row.tenant = CurrentTenant(x) /\ row.tenant # None

(* _tenant_write_guard on what a session flushes: old is loaded and        *)
(* changed, new is added or what old has become.                           *)
GuardAcceptsEvents(x, old, new) ==
    client[x].kind = "tenant" =>
        \A row \in new : row.tenant \in {None, client[x].tenant}
GuardAccepts(x, old, new) ==
    /\ \A row \in old : row.kind # "audit"
    /\ client[x].kind = "tenant" =>
         \A row \in new : row.tenant \in {None, client[x].tenant}

(* The policies and the trigger audit_events_append_only.                  *)
DatabaseAccepts(x, old, new) ==
    dialect = "postgresql" =>
        /\ \A row \in new : PolicyAccepts(x, row)
        /\ \A row \in old : row.kind # "audit"

----------------------------------------------------------------------------
(* A request gets a thread and a connection                                *)

Set(x, at, holds, old, new) ==
    client' = [client EXCEPT ![x] =
                 [kind |-> client[x].kind, at |-> at, tenant |-> client[x].tenant,
                  holds |-> holds, old |-> old, new |-> new]]

Go(x, at) == Set(x, at, client[x].holds, client[x].old, client[x].new)

Begin(x, kind, at, t) ==
    /\ client[x].at = "new"
    /\ client' = [client EXCEPT ![x] =
                    [kind |-> kind, at |-> at, tenant |-> t, holds |-> None,
                     old |-> {}, new |-> {}]]
    /\ UNCHANGED <<dialect, rows, setting>>

Arrive(x, t) == Begin(x, "tenant", "arrived", t)
ArrivePlatform(x) == Begin(x, "platform", "arrived", None)

(* The tenants of the script and their locations stand in Init.            *)
StartScript(x, t) ==
    /\ dialect = "postgresql"
    /\ Begin(x, "script", "scoped", t)

ThreadIsFree == Cardinality({ x \in Clients : client[x].at \in InThread }) < MaxThreads

(* get_platform_db opens a session and issues no statement.                *)
Enter(x) ==
    /\ client[x].at \in AwaitingThread
    /\ ThreadIsFree
    /\ Go(x, IF client[x].kind = "platform" \/ client[x].at = "authenticated" THEN "handling"
              ELSE IF client[x].at = "arrived" THEN "connecting"
              ELSE "authenticating")
    /\ UNCHANGED <<dialect, rows, setting>>

Idle(c) == \A x \in Clients : client[x].holds # c

(* The first statement of a session is set_config in get_db, and where     *)
(* there is no such setting one of get_principal.                          *)
NeedsConnection(x) ==
    /\ client[x].holds = None
    /\ client[x].at = IF dialect = "postgresql" THEN "connecting" ELSE "authenticating"

Connect(x, c) ==
    /\ NeedsConnection(x)
    /\ Idle(c)
    /\ Set(x, IF dialect = "postgresql" THEN "opened" ELSE "authenticating", c,
           client[x].old, client[x].new)
    /\ setting' = IF dialect = "postgresql"
                  THEN [setting EXCEPT ![c] = client[x].tenant] ELSE setting
    /\ UNCHANGED <<dialect, rows>>

OpenWithoutSetting(x) ==
    /\ client[x].at = "connecting" /\ dialect = "sqlite"
    /\ Go(x, "opened")
    /\ UNCHANGED <<dialect, rows, setting>>

(* The pool gives up after its timeout.  In get_db no session is returned. *)
TimeOutNever(x) ==
    /\ FALSE
    /\ UNCHANGED vars
TimeOut(x) ==
    /\ NeedsConnection(x)
    /\ Go(x, IF client[x].at = "connecting" THEN "done" ELSE "ended")
    /\ UNCHANGED <<dialect, rows, setting>>

Authenticate(x) ==
    /\ client[x].at = "authenticating" /\ client[x].holds # None
    /\ Go(x, "authenticated")
    /\ UNCHANGED <<dialect, rows, setting>>

----------------------------------------------------------------------------
(* Its handler, and the end of its session                                 *)

Visible(x) ==
    { row \in rows : /\ client[x].kind # "script" => FilterShows(x, row)
                     /\ dialect = "postgresql" => PolicyShows(x, row) }

Locked(row) == \E y \in Clients : row \in client[y].old

(* x flushes.  Handlers write rows of their own tenant and change no audit *)
(* event; the tests of the guard do both.  The exception of a flush that   *)
(* is refused ends the request.                                            *)
Flush(x, old, new) ==
    /\ client[x].at = "handling" /\ client[x].old \cup client[x].new = {}
    /\ IF GuardAccepts(x, old, new) /\ DatabaseAccepts(x, old, new)
       THEN Set(x, "handling", client[x].holds, old, new)
       ELSE Go(x, "ended")
    /\ UNCHANGED <<dialect, rows, setting>>

Entry(x, kind, t) == [kind |-> kind, tenant |-> t, by |-> x]

Add(x, t) == Flush(x, {}, { Entry(x, "owned", t), Entry(x, "audit", t) })

(* The UPDATE waits for a row that another transaction has written.        *)
Change(x, row, t) ==
    /\ row \in Visible(x) /\ row.kind # "profile" /\ ~Locked(row)
    /\ Flush(x, {row}, { Entry(x, row.kind, t) })

(* The setting is of the transaction only, and the connection goes back to *)
(* the pool with it.  No handler issues a statement after its commit.      *)
Released(x) ==
    [c \in Connections |-> IF c = client[x].holds THEN None ELSE setting[c]]

CommitAndRefresh(x) ==
    /\ client[x].at = "handling"
    /\ rows' = (rows \ client[x].old) \cup client[x].new
    /\ setting' = Released(x)
    /\ Set(x, "handling", None, {}, {})
    /\ UNCHANGED dialect
Commit(x) ==
    /\ client[x].at = "handling"
    /\ rows' = (rows \ client[x].old) \cup client[x].new
    /\ setting' = Released(x)
    /\ Set(x, "ended", None, {}, {})
    /\ UNCHANGED dialect

(* The handler of a read returns, or one of the functions raises.          *)
Return(x) ==
    /\ client[x].at \in {"authenticating", "handling"}
    /\ Go(x, "ended")
    /\ UNCHANGED <<dialect, rows, setting>>

(* session.close() in get_db rolls back.  It runs without a worker thread  *)
(* of the server's number.                                                 *)
Close(x) ==
    /\ client[x].at = "ended"
    /\ setting' = Released(x)
    /\ Set(x, "done", None, {}, {})
    /\ UNCHANGED <<dialect, rows>>

----------------------------------------------------------------------------
(* The script: a statement is a transaction.  That the platform removes    *)
(* its tenants in the end is left out.                                     *)

ScriptInsert(x, t) ==
    /\ client[x].at = "scoped"
    /\ DatabaseAccepts(x, {}, { Entry(x, "owned", t) })
    /\ rows' = rows \cup { Entry(x, "owned", t) }
    /\ UNCHANGED <<dialect, setting, client>>

(* An UPDATE or DELETE by id: aimed at a row that is not visible it counts *)
(* none.  (The script aims at such a row only.)                            *)
ScriptChange(x, row) ==
    /\ client[x].at = "scoped"
    /\ row \in Visible(x) /\ row.kind = "owned" /\ ~Locked(row)
    /\ \E after \in {{}, { Entry(x, "owned", row.tenant) }} :
         rows' = (rows \ {row}) \cup after
    /\ UNCHANGED <<dialect, setting, client>>

EndScript(x) ==
    /\ client[x].at = "scoped"
    /\ Set(x, "done", None, {}, {})
    /\ UNCHANGED <<dialect, rows, setting>>

----------------------------------------------------------------------------
Proceed(x) == \/ Authenticate(x)
              \/ client[x].at = "handling" /\ (Commit(x) \/ Return(x))

ConnectAny(x) == \E c \in Connections : Connect(x, c)

Next ==
    \/ \E x \in Requests : (\E t \in Tenants : Arrive(x, t)) \/ ArrivePlatform(x)
    \/ \E x \in Scripts, t \in Tenants : StartScript(x, t)
    \/ \E x \in Clients :
       \/ Enter(x) \/ ConnectAny(x) \/ OpenWithoutSetting(x) \/ TimeOut(x)
       \/ Authenticate(x)
       \/ \E t \in Tenants : Add(x, t)
       \/ \E row \in rows, t \in Tenants : Change(x, row, t)
       \/ Commit(x) \/ Return(x) \/ Close(x)
       \/ \E t \in Tenants : ScriptInsert(x, t)
       \/ \E row \in rows : ScriptChange(x, row)
       \/ EndScript(x)

Spec == Init /\ [][Next]_vars

(* Threads and connections are given to someone as long as any are free,   *)
(* code that runs goes on, and the pool's timeout passes.                  *)
Fairness ==
    \A x \in Clients :
       /\ WF_vars(Enter(x))
       /\ WF_vars(ConnectAny(x))
       /\ WF_vars(OpenWithoutSetting(x))
       /\ WF_vars(TimeOut(x))
       /\ WF_vars(Proceed(x))
       /\ WF_vars(Close(x))
       /\ WF_vars(EndScript(x))

FairSpec == Spec /\ Fairness

----------------------------------------------------------------------------
(* Properties                                                              *)

OwnRows(x) == { row \in rows : \/ row.tenant = client[x].tenant
                               \/ row.kind = "profile" /\ row.tenant = None }

IssuesStatements(x) ==
    \/ client[x].kind = "tenant" /\ client[x].at = "handling"
    \/ client[x].kind = "tenant" /\ client[x].at = "authenticating" /\ client[x].holds # None
    \/ client[x].at = "scoped"

(* Whenever a handler, or get_principal, may issue a statement, it sees    *)
(* the rows of its tenant and the global profiles, all of them and no      *)
(* others, and on PostgreSQL it sees them by the policies alone: the       *)
(* setting is that of its tenant, through every wait for a thread.  No two *)
(* sessions share a connection, and an idle one carries no setting.        *)
ContextIsExact ==
    /\ \A x \in Clients : IssuesStatements(x) =>
          /\ Visible(x) = OwnRows(x)
          /\ dialect = "postgresql" => { row \in rows : PolicyShows(x, row) } = OwnRows(x)
    /\ \A c \in Connections : Idle(c) => setting[c] = None
    /\ \A x, y \in Clients : x # y /\ client[x].holds # None => client[x].holds # client[y].holds

Acts(x) == \/ client'[x] # client[x]
           \/ client' = client /\ client[x].at = "scoped"

Owns(x, row) == client[x].kind = "platform" \/ row.tenant = client[x].tenant

(* A step of a session adds, changes and removes rows of its own tenant    *)
(* only, unless it is the platform's, and none changes or removes an audit *)
(* event; on SQLite the guard alone sees to it (_tenant_write_guard).      *)
RowsStayPut ==
    [][\E x \in Clients : /\ Acts(x)
                          /\ \A row \in rows' \ rows : Owns(x, row)
                          /\ \A row \in rows \ rows' : Owns(x, row) /\ row.kind # "audit"
      ]_rows

(* Every request ends.  Those that hold a connection may all need a thread *)
(* for their next function while those in the threads all wait for a       *)
(* connection; it is the timeout of the pool that ends such a circle.      *)
EveryRequestEnds ==
    \A x \in Clients : client[x].at # "new" ~> client[x].at = "done"

=============================================================================
