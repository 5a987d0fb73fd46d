------------------------ MODULE TenantIsolationProofs ------------------------
(***************************************************************************)
(* Proofs about TenantIsolation, for any clients, tenants, connections and *)
(* threads.                                                                *)
(***************************************************************************)
EXTENDS TenantIsolation, FiniteSetTheorems, TLAPS

(* How far a client of each kind can be.                                   *)
PhasesOK ==
    \A x \in Clients :
       /\ client[x].kind = "none" <=> client[x].at = "new"
       /\ client[x].kind = "script" => /\ client[x].at \in {"scoped", "done"}
                                       /\ dialect = "postgresql"
       /\ client[x].at = "scoped" => client[x].kind = "script"
       /\ client[x].kind = "platform" =>
            client[x].at \in {"arrived", "handling", "ended", "done"}
       /\ client[x].kind \in {"tenant", "script"} => client[x].tenant \in Tenants

(* Who holds a connection, and that it is set to the tenant of the holder. *)
HoldsOK ==
    \A x \in Clients :
       /\ client[x].holds # None =>
            /\ client[x].kind = "tenant"
            /\ client[x].at \in {"opened", "authenticating", "authenticated", "handling", "ended"}
            /\ setting[client[x].holds] =
                 IF dialect = "postgresql" THEN client[x].tenant ELSE None
       /\ /\ client[x].kind = "tenant"
          /\ \/ client[x].at \in {"authenticated", "handling"}
             \/ client[x].at \in {"opened", "authenticating"} /\ dialect = "postgresql"
          => client[x].holds # None

HoldsAlone ==
    \A x, y \in Clients : x # y /\ client[x].holds # None => client[x].holds # client[y].holds

IdleUnset == \A c \in Connections : Idle(c) => setting[c] = None

(* What has been flushed.                                                  *)
FlushedOK ==
    \A x \in Clients :
       /\ \A row \in client[x].old : row.kind # "audit"
       /\ client[x].kind = "tenant" =>
            \A row \in client[x].old \cup client[x].new : row.tenant = client[x].tenant

IInv == TypeOK /\ PhasesOK /\ HoldsOK /\ HoldsAlone /\ IdleUnset /\ FlushedOK

----------------------------------------------------------------------------
(* What Set does to a client and to the others.                            *)
LEMMA SetFacts ==
    ASSUME TypeOK, NEW x \in Clients,
           NEW at \in {"new", "scoped", "ended", "done"} \cup AwaitingThread \cup InThread,
           NEW holds \in Connections \cup {None},
           NEW old \in SUBSET Row, NEW new \in SUBSET Row,
           Set(x, at, holds, old, new)
    PROVE  /\ client' \in [Clients -> Client]
           /\ client'[x].kind = client[x].kind
           /\ client'[x].at = at
           /\ client'[x].tenant = client[x].tenant
           /\ client'[x].holds = holds
           /\ client'[x].old = old
           /\ client'[x].new = new
           /\ \A y \in Clients \ {x} : client'[y] = client[y]
<1> DEFINE r == [kind |-> client[x].kind, at |-> at, tenant |-> client[x].tenant,
                 holds |-> holds, old |-> old, new |-> new]
<1>1. r \in Client
  BY DEF TypeOK, Client
<1>2. client' = [client EXCEPT ![x] = r]
  BY DEF Set
<1>3. client \in [Clients -> Client]
  BY DEF TypeOK
<1>4. client'[x] = r /\ \A y \in Clients \ {x} : client'[y] = client[y]
  BY <1>2, <1>3
<1>5. client' \in [Clients -> Client]
  BY <1>1, <1>2, <1>3
<1> QED
  BY <1>4, <1>5

(* A client moves on, and keeps what it holds and has flushed.             *)
LEMMA GoFacts ==
    ASSUME TypeOK, NEW x \in Clients,
           NEW at \in {"new", "scoped", "ended", "done"} \cup AwaitingThread \cup InThread,
           Go(x, at)
    PROVE  /\ client' \in [Clients -> Client]
           /\ client'[x].kind = client[x].kind
           /\ client'[x].at = at
           /\ client'[x].tenant = client[x].tenant
           /\ client'[x].holds = client[x].holds
           /\ client'[x].old = client[x].old
           /\ client'[x].new = client[x].new
           /\ \A y \in Clients \ {x} : client'[y] = client[y]
<1>1. /\ client[x].holds \in Connections \cup {None}
      /\ client[x].old \in SUBSET Row
      /\ client[x].new \in SUBSET Row
  BY DEF TypeOK, Client
<1> QED
  BY <1>1, SetFacts DEF Go

(* Going on where the new place asks for no connection more than is held.  *)
LEMMA GoKeeps ==
    ASSUME IInv, NEW x \in Clients,
           NEW at \in {"ended", "done"} \cup AwaitingThread \cup InThread,
           Go(x, at), UNCHANGED <<dialect, rows, setting>>,
           client[x].kind \in {"tenant", "platform"},
           client[x].kind = "platform" => at \in {"arrived", "handling", "ended", "done"},
           client[x].holds # None =>
              at \in {"opened", "authenticating", "authenticated", "handling", "ended"},
           /\ client[x].kind = "tenant"
           /\ \/ at \in {"authenticated", "handling"}
              \/ at \in {"opened", "authenticating"} /\ dialect = "postgresql"
           => client[x].holds # None
    PROVE  IInv'
<1>1. /\ client' \in [Clients -> Client]
      /\ client'[x].kind = client[x].kind
      /\ client'[x].at = at
      /\ client'[x].tenant = client[x].tenant
      /\ client'[x].holds = client[x].holds
      /\ client'[x].old = client[x].old
      /\ client'[x].new = client[x].new
      /\ \A y \in Clients \ {x} : client'[y] = client[y]
  BY GoFacts DEF IInv
<1>2. /\ TypeOK /\ PhasesOK /\ HoldsOK /\ HoldsAlone /\ IdleUnset /\ FlushedOK
  BY DEF IInv
<1>3. TypeOK'
  BY <1>1, <1>2 DEF TypeOK
<1>4. PhasesOK'
  BY <1>1, <1>2 DEF PhasesOK, AwaitingThread, InThread
<1>5. HoldsOK'
  BY <1>1, <1>2 DEF HoldsOK
<1>6. HoldsAlone'
  BY <1>1, <1>2 DEF HoldsAlone
<1>7. IdleUnset'
  BY <1>1, <1>2 DEF IdleUnset, Idle
<1>8. FlushedOK'
  BY <1>1, <1>2 DEF FlushedOK
<1> QED
  BY <1>3, <1>4, <1>5, <1>6, <1>7, <1>8 DEF IInv

----------------------------------------------------------------------------
(* The actions                                                             *)

LEMMA InitIInv == Init => IInv
<1> SUFFICES ASSUME Init PROVE IInv
  OBVIOUS
<1>1. \A x \in Clients : client[x] = New
  BY DEF Init
<1>2. TypeOK
  <2>1. New \in Client
    BY DEF New, Client
  <2>2. rows \subseteq Row
    BY DEF Init, Fresh, Row
  <2> QED
    BY <2>1, <2>2 DEF Init, TypeOK
<1>3. PhasesOK
  BY <1>1 DEF PhasesOK, New
<1>4. HoldsOK
  BY <1>1 DEF HoldsOK, New
<1>5. HoldsAlone
  BY <1>1 DEF HoldsAlone, New
<1>6. IdleUnset
  BY DEF Init, IdleUnset
<1>7. FlushedOK
  BY <1>1 DEF FlushedOK, New
<1> QED
  BY <1>2, <1>3, <1>4, <1>5, <1>6, <1>7 DEF IInv

(* A client arrives, with nothing held and nothing flushed.                *)
LEMMA BeginKeeps ==
    ASSUME IInv, NEW x \in Clients,
           NEW kind \in {"tenant", "platform", "script"},
           NEW at \in {"arrived", "scoped"}, NEW t \in Tenants \cup {None},
           kind = "script" <=> at = "scoped",
           kind = "script" => dialect = "postgresql",
           kind \in {"tenant", "script"} => t \in Tenants,
           Begin(x, kind, at, t)
    PROVE  IInv'
<1> DEFINE r == [kind |-> kind, at |-> at, tenant |-> t, holds |-> None,
                 old |-> {}, new |-> {}]
<1>1. r \in Client
  BY DEF Client, AwaitingThread
<1>2. client' = [client EXCEPT ![x] = r] /\ UNCHANGED <<dialect, rows, setting>>
  BY DEF Begin
<1>3. /\ TypeOK /\ PhasesOK /\ HoldsOK /\ HoldsAlone /\ IdleUnset /\ FlushedOK
  BY DEF IInv
<1>4. client \in [Clients -> Client]
  BY <1>3 DEF TypeOK
<1>5. client'[x] = r /\ \A y \in Clients \ {x} : client'[y] = client[y]
  BY <1>2, <1>4
<1>6. client[x].holds = None
  BY <1>3 DEF Begin, HoldsOK
<1>7. /\ client'[x].kind = kind /\ client'[x].at = at /\ client'[x].tenant = t
      /\ client'[x].holds = None /\ client'[x].old = {} /\ client'[x].new = {}
  BY <1>5
<1> HIDE DEF r
<1>8. TypeOK'
  BY <1>1, <1>2, <1>3 DEF TypeOK
<1>9. PhasesOK'
  BY <1>2, <1>3, <1>5, <1>7 DEF PhasesOK
<1>10. HoldsOK'
  BY <1>2, <1>3, <1>5, <1>7 DEF HoldsOK
<1>11. HoldsAlone'
  BY <1>3, <1>5, <1>6, <1>7 DEF HoldsAlone
<1>12. IdleUnset'
  BY <1>2, <1>3, <1>5, <1>6, <1>7 DEF IdleUnset, Idle
<1>13. FlushedOK'
  BY <1>3, <1>5, <1>7 DEF FlushedOK
<1> QED
  BY <1>8, <1>9, <1>10, <1>11, <1>12, <1>13 DEF IInv

(* Going on in a thread, and leaving one.                                  *)
LEMMA EnterKeeps ==
    ASSUME IInv, NEW x \in Clients, Enter(x)
    PROVE  IInv'
<1> DEFINE at == IF client[x].kind = "platform" \/ client[x].at = "authenticated"
                 THEN "handling"
                 ELSE IF client[x].at = "arrived" THEN "connecting" ELSE "authenticating"
<1>1. Go(x, at) /\ UNCHANGED <<dialect, rows, setting>>
  BY DEF Enter
<1>2. PhasesOK /\ HoldsOK /\ TypeOK
  BY DEF IInv
<1>3. client[x].kind \in {"tenant", "platform"}
  BY <1>2 DEF Enter, PhasesOK, TypeOK, Client, AwaitingThread
<1>4. /\ at \in {"ended", "done"} \cup AwaitingThread \cup InThread
      /\ client[x].kind = "platform" => at \in {"arrived", "handling", "ended", "done"}
  BY DEF InThread
<1>5. client[x].holds # None => at \in {"opened", "authenticating", "authenticated", "handling", "ended"}
  BY <1>2 DEF HoldsOK
<1>6. /\ client[x].kind = "tenant"
      /\ \/ at \in {"authenticated", "handling"}
         \/ at \in {"opened", "authenticating"} /\ dialect = "postgresql"
      => client[x].holds # None
  BY <1>2 DEF HoldsOK, Enter, AwaitingThread
<1> HIDE DEF at
<1> QED
  BY <1>1, <1>3, <1>4, <1>5, <1>6, GoKeeps

LEMMA LeaveKeeps ==
    ASSUME IInv, NEW x \in Clients,
           OpenWithoutSetting(x) \/ TimeOut(x) \/ Authenticate(x) \/ Return(x)
    PROVE  IInv'
<1>1. PhasesOK /\ HoldsOK /\ TypeOK
  BY DEF IInv
<1>2. client[x].kind \in {"tenant", "platform"}
  BY <1>1 DEF PhasesOK, TypeOK, Client, OpenWithoutSetting, TimeOut, NeedsConnection,
              Authenticate, Return
<1>3. CASE OpenWithoutSetting(x)
  <2>1. client[x].kind = "tenant" /\ client[x].holds = None /\ dialect # "postgresql"
    BY <1>1, <1>2, <1>3 DEF PhasesOK, HoldsOK, OpenWithoutSetting
  <2> QED
    BY <1>3, <2>1, GoKeeps DEF OpenWithoutSetting, AwaitingThread
<1>4. CASE TimeOut(x)
  <2> DEFINE at == IF client[x].at = "connecting" THEN "done" ELSE "ended"
  <2>1. Go(x, at) /\ UNCHANGED <<dialect, rows, setting>> /\ client[x].holds = None
    BY <1>4 DEF TimeOut, NeedsConnection
  <2>2. at \in {"ended", "done"}
    OBVIOUS
  <2> HIDE DEF at
  <2> QED
    BY <1>2, <2>1, <2>2, GoKeeps
<1>5. CASE Authenticate(x)
  <2>1. client[x].kind = "tenant"
    BY <1>1, <1>2, <1>5 DEF PhasesOK, Authenticate
  <2> QED
    BY <1>5, <2>1, GoKeeps DEF Authenticate, AwaitingThread
<1>6. CASE Return(x)
  BY <1>2, <1>6, GoKeeps DEF Return
<1> QED
  BY <1>3, <1>4, <1>5, <1>6

(* A connection is taken, and on PostgreSQL set to the tenant of the taker. *)
LEMMA ConnectKeeps ==
    ASSUME IInv, NEW x \in Clients, NEW c \in Connections, Connect(x, c)
    PROVE  IInv'
<1> DEFINE at == IF dialect = "postgresql" THEN "opened" ELSE "authenticating"
<1>1. /\ TypeOK /\ PhasesOK /\ HoldsOK /\ HoldsAlone /\ IdleUnset /\ FlushedOK
  BY DEF IInv
<1>2. client[x] \in Client
  BY <1>1 DEF TypeOK
<1>3. at \in {"opened", "authenticating"} /\ (at = "opened" => dialect = "postgresql")
  OBVIOUS
<1>4. /\ Set(x, at, c, client[x].old, client[x].new)
      /\ NeedsConnection(x) /\ Idle(c)
      /\ setting' = IF dialect = "postgresql"
                    THEN [setting EXCEPT ![c] = client[x].tenant] ELSE setting
      /\ UNCHANGED <<dialect, rows>>
  BY DEF Connect
<1> HIDE DEF at
<1>5. at \in {"new", "scoped", "ended", "done"} \cup AwaitingThread \cup InThread
  BY <1>3 DEF AwaitingThread, InThread
<1>6. /\ client' \in [Clients -> Client]
      /\ client'[x].kind = client[x].kind
      /\ client'[x].at = at
      /\ client'[x].tenant = client[x].tenant
      /\ client'[x].holds = c
      /\ client'[x].old = client[x].old
      /\ client'[x].new = client[x].new
      /\ \A y \in Clients \ {x} : client'[y] = client[y]
  <2>1. client[x].old \in SUBSET Row /\ client[x].new \in SUBSET Row
    BY <1>2 DEF Client
  <2> QED
    BY <1>1, <1>4, <1>5, <2>1, SetFacts
<1>7. /\ client[x].kind = "tenant" /\ client[x].tenant \in Tenants
      /\ client[x].at \in {"connecting", "authenticating"}
  BY <1>1, <1>2, <1>4 DEF NeedsConnection, PhasesOK, Client
<1>8. /\ setting' \in [Connections -> Tenants \cup {None}]
      /\ setting'[c] = IF dialect = "postgresql" THEN client[x].tenant ELSE setting[c]
      /\ \A d \in Connections \ {c} : setting'[d] = setting[d]
  BY <1>1, <1>4, <1>7 DEF TypeOK
<1>9. setting[c] = None /\ c # None
  BY <1>1, <1>4, NoneIsNoValue DEF IdleUnset
<1>10. \A y \in Clients : client[y].holds # c
  BY <1>4 DEF Idle
<1>11. TypeOK'
  BY <1>1, <1>4, <1>6, <1>8 DEF TypeOK
<1>12. PhasesOK'
  BY <1>1, <1>3, <1>4, <1>6, <1>7 DEF PhasesOK
<1>13. HoldsOK'
  <2> SUFFICES ASSUME NEW y \in Clients
               PROVE  /\ client'[y].holds # None =>
                           /\ client'[y].kind = "tenant"
                           /\ client'[y].at \in {"opened", "authenticating", "authenticated",
                                                 "handling", "ended"}
                           /\ setting'[client'[y].holds] =
                                IF dialect' = "postgresql" THEN client'[y].tenant ELSE None
                      /\ /\ client'[y].kind = "tenant"
                         /\ \/ client'[y].at \in {"authenticated", "handling"}
                            \/ client'[y].at \in {"opened", "authenticating"}
                               /\ dialect' = "postgresql"
                         => client'[y].holds # None
    BY DEF HoldsOK
  <2>1. CASE y = x
    BY <1>3, <1>4, <1>6, <1>7, <1>8, <1>9, <2>1
  <2>2. CASE y # x
    <3>1. client'[y] = client[y]
      BY <1>6, <2>2
    <3>2. client[y].holds \in Connections \cup {None}
      BY <1>1 DEF TypeOK, Client
    <3>3. client[y].holds # None => setting'[client[y].holds] = setting[client[y].holds]
      BY <1>8, <1>10, <3>2
    <3> QED
      BY <1>1, <1>4, <3>1, <3>3 DEF HoldsOK
  <2> QED
    BY <2>1, <2>2
<1>14. HoldsAlone'
  BY <1>1, <1>6, <1>9, <1>10 DEF HoldsAlone
<1>15. IdleUnset'
  <2>1. client[x].holds = None
    BY <1>4 DEF NeedsConnection
  <2>2. ASSUME NEW d \in Connections, \A y \in Clients : client'[y].holds # d
        PROVE  setting'[d] = None
    <3>1. d # c /\ d # None
      BY <1>6, <2>2, NoneIsNoValue
    <3>2. \A y \in Clients : client[y].holds # d
      BY <1>6, <2>1, <2>2, <3>1
    <3>3. setting[d] = None
      BY <1>1, <3>2 DEF IdleUnset, Idle
    <3> QED
      BY <1>8, <3>1, <3>3
  <2> QED
    BY <2>2 DEF IdleUnset, Idle
<1>16. FlushedOK'
  BY <1>1, <1>6 DEF FlushedOK
<1> QED
  BY <1>11, <1>12, <1>13, <1>14, <1>15, <1>16 DEF IInv

----------------------------------------------------------------------------
(* What is flushed passed the guard, and is of the tenant of the session.  *)
LEMMA FlushKeeps ==
    ASSUME IInv, NEW x \in Clients, NEW old \in SUBSET Row, NEW new \in SUBSET Row,
           client[x].kind = "tenant" =>
              /\ \A row \in old : row.tenant = client[x].tenant
              /\ \A row \in new : row.tenant # None,
           Flush(x, old, new)
    PROVE  IInv'
<1>1. /\ TypeOK /\ PhasesOK /\ HoldsOK /\ HoldsAlone /\ IdleUnset /\ FlushedOK
  BY DEF IInv
<1>2. client[x] \in Client
  BY <1>1 DEF TypeOK
<1>3. client[x].at = "handling" /\ client[x].kind \in {"tenant", "platform"}
  BY <1>1, <1>2 DEF Flush, PhasesOK, Client
<1>4. UNCHANGED <<dialect, rows, setting>>
  BY DEF Flush
<1>5. ASSUME ~(GuardAccepts(x, old, new) /\ DatabaseAccepts(x, old, new))
      PROVE  IInv'
  <2>1. Go(x, "ended")
    BY <1>5 DEF Flush
  <2> QED
    BY <1>3, <1>4, <2>1, GoKeeps
<1>6. ASSUME GuardAccepts(x, old, new), DatabaseAccepts(x, old, new)
      PROVE  IInv'
  <2>1. Set(x, "handling", client[x].holds, old, new)
    BY <1>6 DEF Flush
  <2>2. client[x].holds \in Connections \cup {None}
    BY <1>2 DEF Client
  <2>3. "handling" \in {"new", "scoped", "ended", "done"} \cup AwaitingThread \cup InThread
    BY DEF InThread
  <2>4. /\ client' \in [Clients -> Client]
        /\ client'[x].kind = client[x].kind
        /\ client'[x].at = "handling"
        /\ client'[x].tenant = client[x].tenant
        /\ client'[x].holds = client[x].holds
        /\ client'[x].old = old
        /\ client'[x].new = new
        /\ \A y \in Clients \ {x} : client'[y] = client[y]
    BY <1>1, <2>1, <2>2, <2>3, SetFacts
  <2>5. TypeOK'
    BY <1>1, <1>4, <2>4 DEF TypeOK
  <2>6. PhasesOK'
    BY <1>1, <1>3, <1>4, <2>4 DEF PhasesOK
  <2>7. HoldsOK'
    BY <1>1, <1>3, <1>4, <2>4 DEF HoldsOK
  <2>8. HoldsAlone'
    BY <1>1, <2>4 DEF HoldsAlone
  <2>9. IdleUnset'
    BY <1>1, <1>4, <2>4 DEF IdleUnset, Idle
  <2>10. \A row \in old : row.kind # "audit"
    BY <1>6 DEF GuardAccepts
  <2>11. client[x].kind = "tenant" => \A row \in new : row.tenant = client[x].tenant
    BY <1>6 DEF GuardAccepts
  <2>12. FlushedOK'
    BY <1>1, <2>4, <2>10, <2>11 DEF FlushedOK
  <2> QED
    BY <2>5, <2>6, <2>7, <2>8, <2>9, <2>12 DEF IInv
<1> QED
  BY <1>5, <1>6

LEMMA WriteKeeps ==
    ASSUME IInv, NEW x \in Clients, NEW t \in Tenants,
           Add(x, t) \/ \E row \in rows : Change(x, row, t)
    PROVE  IInv'
<1>1. rows \subseteq Row /\ t # None
  BY NoneIsNoValue DEF IInv, TypeOK
<1>2. ASSUME Add(x, t) PROVE IInv'
  <2> DEFINE new == { Entry(x, "owned", t), Entry(x, "audit", t) }
  <2>1. new \in SUBSET Row /\ \A row \in new : row.tenant # None
    BY <1>1 DEF Entry, Row
  <2>2. Flush(x, {}, new)
    BY <1>2 DEF Add
  <2> HIDE DEF new
  <2> QED
    BY <2>1, <2>2, FlushKeeps
<1>3. ASSUME NEW row \in rows, Change(x, row, t) PROVE IInv'
  <2> DEFINE new == { Entry(x, row.kind, t) }
  <2>1. row \in Row
    BY <1>1, <1>3
  <2>2. new \in SUBSET Row /\ \A w \in new : w.tenant # None
    BY <1>1, <2>1 DEF Entry, Row
  <2>3. client[x].kind = "tenant" => row.tenant = client[x].tenant
    BY <1>3 DEF Change, Visible, FilterShows
  <2>4. Flush(x, {row}, new)
    BY <1>3 DEF Change
  <2>5. {row} \in SUBSET Row
    BY <2>1
  <2> HIDE DEF new
  <2> QED
    BY <2>2, <2>3, <2>4, <2>5, FlushKeeps
<1> QED
  BY <1>2, <1>3

(* The transaction ends: the connection is idle again and has no setting.  *)
LEMMA ReleaseKeeps ==
    ASSUME IInv, NEW x \in Clients, NEW at \in {"ended", "done"},
           client[x].kind = "script" => at = "done",
           client[x].kind # "none",
           rows' \subseteq Row, dialect' = dialect,
           setting' = Released(x), Set(x, at, None, {}, {})
    PROVE  IInv'
<1>1. /\ TypeOK /\ PhasesOK /\ HoldsOK /\ HoldsAlone /\ IdleUnset /\ FlushedOK
  BY DEF IInv
<1>2. /\ client' \in [Clients -> Client]
      /\ client'[x].kind = client[x].kind
      /\ client'[x].at = at
      /\ client'[x].tenant = client[x].tenant
      /\ client'[x].holds = None
      /\ client'[x].old = {}
      /\ client'[x].new = {}
      /\ \A y \in Clients \ {x} : client'[y] = client[y]
  BY <1>1, SetFacts
<1>3. /\ setting' \in [Connections -> Tenants \cup {None}]
      /\ \A c \in Connections : setting'[c] = IF c = client[x].holds THEN None ELSE setting[c]
  BY <1>1 DEF Released, TypeOK
<1>4. \A y \in Clients : client[y].holds \in Connections \cup {None}
  BY <1>1 DEF TypeOK, Client
<1>5. TypeOK'
  BY <1>1, <1>2, <1>3 DEF TypeOK
<1>6. PhasesOK'
  BY <1>1, <1>2 DEF PhasesOK
<1>7. HoldsOK'
  BY <1>1, <1>2, <1>3, <1>4 DEF HoldsOK, HoldsAlone
<1>8. HoldsAlone'
  BY <1>1, <1>2 DEF HoldsAlone
<1>9. IdleUnset'
  BY <1>1, <1>2, <1>3, <1>4, NoneIsNoValue DEF IdleUnset, Idle
<1>10. FlushedOK'
  BY <1>1, <1>2 DEF FlushedOK
<1> QED
  BY <1>5, <1>6, <1>7, <1>8, <1>9, <1>10 DEF IInv

LEMMA EndKeeps ==
    ASSUME IInv, NEW x \in Clients, Commit(x) \/ Close(x)
    PROVE  IInv'
<1>1. TypeOK /\ PhasesOK /\ client[x] \in Client
  BY DEF IInv, TypeOK
<1>2. client[x].kind \in {"tenant", "platform"}
  BY <1>1 DEF PhasesOK, Commit, Close, Client
<1>3. (rows \ client[x].old) \cup client[x].new \subseteq Row
  BY <1>1 DEF TypeOK, Client
<1>4. CASE Commit(x)
  BY <1>2, <1>3, <1>4, ReleaseKeeps DEF Commit
<1>5. CASE Close(x)
  BY <1>1, <1>2, <1>5, ReleaseKeeps DEF Close, TypeOK
<1> QED
  BY <1>4, <1>5

(* A script changes rows that no session has flushed.                      *)
LEMMA ScriptKeeps ==
    ASSUME IInv, NEW x \in Clients,
           \/ \E t \in Tenants : ScriptInsert(x, t)
           \/ \E row \in rows : ScriptChange(x, row)
           \/ EndScript(x)
    PROVE  IInv'
<1>1. /\ TypeOK /\ PhasesOK /\ HoldsOK /\ HoldsAlone /\ IdleUnset /\ FlushedOK
  BY DEF IInv
<1>2. ASSUME rows' \subseteq Row, UNCHANGED <<dialect, setting, client>> PROVE IInv'
  BY <1>1, <1>2 DEF IInv, TypeOK, PhasesOK, HoldsOK, HoldsAlone, IdleUnset, Idle, FlushedOK
<1>3. ASSUME NEW t \in Tenants, ScriptInsert(x, t) PROVE IInv'
  <2>1. rows' \subseteq Row
    BY <1>1, <1>3 DEF ScriptInsert, Entry, Row, TypeOK
  <2> QED
    BY <1>2, <1>3, <2>1 DEF ScriptInsert
<1>4. ASSUME NEW row \in rows, ScriptChange(x, row) PROVE IInv'
  <2>1. rows \subseteq Row /\ row \in Row
    BY <1>1 DEF TypeOK
  <2>2. Entry(x, "owned", row.tenant) \in Row
    BY <2>1 DEF Entry, Row
  <2>3. rows' \subseteq Row
    BY <1>4, <2>1, <2>2 DEF ScriptChange
  <2> QED
    BY <1>2, <1>4, <2>3 DEF ScriptChange
<1>5. CASE EndScript(x)
  <2>1. client[x].kind = "script" /\ client[x].holds = None
    BY <1>1, <1>5 DEF EndScript, PhasesOK, HoldsOK
  <2>2. setting' = Released(x)
    <3>1. setting' = setting /\ setting = [c \in Connections |-> setting[c]]
      BY <1>1, <1>5 DEF EndScript, TypeOK
    <3> QED
      BY <2>1, <3>1, NoneIsNoValue DEF Released
  <2> QED
    BY <1>1, <1>5, <2>1, <2>2, ReleaseKeeps DEF EndScript, TypeOK
<1> QED
  BY <1>3, <1>4, <1>5

LEMMA NextIInv == IInv /\ [Next]_vars => IInv'
<1> SUFFICES ASSUME IInv, [Next]_vars PROVE IInv'
  OBVIOUS
<1>1. CASE UNCHANGED vars
  BY <1>1 DEF vars, IInv, TypeOK, PhasesOK, HoldsOK, HoldsAlone, IdleUnset, Idle, FlushedOK
<1>2. ASSUME NEW x \in Requests, NEW t \in Tenants, Arrive(x, t) PROVE IInv'
  BY <1>2, BeginKeeps DEF Arrive, Clients
<1>3. ASSUME NEW x \in Requests, ArrivePlatform(x) PROVE IInv'
  BY <1>3, BeginKeeps DEF ArrivePlatform, Clients
<1>4. ASSUME NEW x \in Scripts, NEW t \in Tenants, StartScript(x, t) PROVE IInv'
  BY <1>4, BeginKeeps DEF StartScript, Clients
<1>5. ASSUME NEW x \in Clients, Enter(x) PROVE IInv'
  BY <1>5, EnterKeeps
<1>6. ASSUME NEW x \in Clients, ConnectAny(x) PROVE IInv'
  BY <1>6, ConnectKeeps DEF ConnectAny
<1>7. ASSUME NEW x \in Clients,
             OpenWithoutSetting(x) \/ TimeOut(x) \/ Authenticate(x) \/ Return(x)
      PROVE  IInv'
  BY <1>7, LeaveKeeps
<1>8. ASSUME NEW x \in Clients, NEW t \in Tenants,
             Add(x, t) \/ \E row \in rows : Change(x, row, t)
      PROVE  IInv'
  BY <1>8, WriteKeeps
<1>9. ASSUME NEW x \in Clients, Commit(x) \/ Close(x) PROVE IInv'
  BY <1>9, EndKeeps
<1>10. ASSUME NEW x \in Clients,
              \/ \E t \in Tenants : ScriptInsert(x, t)
              \/ \E row \in rows : ScriptChange(x, row)
              \/ EndScript(x)
       PROVE  IInv'
  BY <1>10, ScriptKeeps
<1> QED
  BY <1>1, <1>2, <1>3, <1>4, <1>5, <1>6, <1>7, <1>8, <1>9, <1>10 DEF Next

THEOREM Inductive == Spec => []IInv
<1> QED
  BY InitIInv, NextIInv, PTL DEF Spec

----------------------------------------------------------------------------
(* Whoever may issue a statement sees the rows of its tenant, all of them  *)
(* and no others, by the policies alone where there are any (get_db, the   *)
(* filter of db.py and the policies of migration 200000000002).            *)
THEOREM ContextStaysExact == Spec => []ContextIsExact
<1>1. IInv => ContextIsExact
  <2> SUFFICES ASSUME IInv PROVE ContextIsExact
    OBVIOUS
  <2>1. /\ TypeOK /\ PhasesOK /\ HoldsOK /\ HoldsAlone /\ IdleUnset
    BY DEF IInv
  <2>2. ASSUME NEW x \in Clients, IssuesStatements(x)
        PROVE  /\ client[x].kind \in {"tenant", "script"}
               /\ client[x].tenant \in Tenants /\ client[x].tenant # None
               /\ dialect = "postgresql" => CurrentTenant(x) = client[x].tenant
               /\ client[x].kind = "script" => dialect = "postgresql"
    <3>1. client[x].kind \in {"tenant", "script"}
      BY <2>1, <2>2 DEF IssuesStatements, PhasesOK
    <3>2. client[x].tenant \in Tenants /\ client[x].tenant # None
      BY <2>1, <3>1, NoneIsNoValue DEF PhasesOK
    <3>3. client[x].kind = "tenant" => client[x].holds # None
      BY <2>1, <2>2 DEF IssuesStatements, HoldsOK, PhasesOK
    <3> QED
      BY <2>1, <3>1, <3>2, <3>3 DEF CurrentTenant, HoldsOK, PhasesOK
  <2>3. ASSUME NEW x \in Clients, IssuesStatements(x), dialect = "postgresql"
        PROVE  { row \in rows : PolicyShows(x, row) } = OwnRows(x)
    BY <2>2, <2>3 DEF PolicyShows, OwnRows
  <2>4. ASSUME NEW x \in Clients, IssuesStatements(x) PROVE Visible(x) = OwnRows(x)
    <3>1. client[x].kind = "tenant" =>
            { row \in rows : FilterShows(x, row) } = OwnRows(x)
      BY DEF FilterShows, OwnRows
    <3>2. client[x].kind = "script" => dialect = "postgresql"
      BY <2>2, <2>4
    <3>3. client[x].kind = "script" \/ client[x].kind = "tenant"
      BY <2>2, <2>4
    <3> QED
      BY <2>3, <2>4, <3>1, <3>2, <3>3 DEF Visible
  <2> QED
    BY <2>1, <2>3, <2>4 DEF ContextIsExact, HoldsAlone, IdleUnset
<1> QED
  BY <1>1, Inductive, PTL

(* No step of a session reaches into another tenant's rows or into the     *)
(* audit log, by the guard and the policies of db.py and the migration.    *)
THEOREM RowsAlwaysStayPut == Spec => RowsStayPut
<1>1. IInv /\ [Next]_vars =>
        [\E x \in Clients : /\ Acts(x)
                            /\ \A row \in rows' \ rows : Owns(x, row)
                            /\ \A row \in rows \ rows' : Owns(x, row) /\ row.kind # "audit"
        ]_rows
  <2> SUFFICES ASSUME IInv, [Next]_vars, rows' # rows
               PROVE  \E x \in Clients :
                        /\ Acts(x)
                        /\ \A row \in rows' \ rows : Owns(x, row)
                        /\ \A row \in rows \ rows' : Owns(x, row) /\ row.kind # "audit"
    OBVIOUS
  <2>1. TypeOK /\ PhasesOK /\ HoldsOK /\ FlushedOK
    BY DEF IInv
  <2>2. \/ \E x \in Clients : Commit(x)
        \/ \E x \in Clients, t \in Tenants : ScriptInsert(x, t)
        \/ \E x \in Clients, row \in rows : ScriptChange(x, row)
    BY DEF Next, vars, Arrive, ArrivePlatform, StartScript, Begin, Enter, ConnectAny, Connect,
           OpenWithoutSetting, TimeOut, Authenticate, Add, Change, Flush, Return, Close, EndScript
  <2>3. ASSUME NEW x \in Clients, client[x].at = "scoped"
        PROVE  client[x].tenant # None /\ CurrentTenant(x) = client[x].tenant
               /\ client[x].kind = "script" /\ dialect = "postgresql"
    BY <2>1, <2>3, NoneIsNoValue DEF PhasesOK, CurrentTenant
  <2>4. ASSUME NEW x \in Clients, Commit(x)
        PROVE  /\ Acts(x)
               /\ \A row \in rows' \ rows : Owns(x, row)
               /\ \A row \in rows \ rows' : Owns(x, row) /\ row.kind # "audit"
    <3>1. client[x].kind \in {"tenant", "platform"} /\ client[x].at = "handling"
      BY <2>1, <2>4 DEF Commit, PhasesOK, TypeOK, Client
    <3>2. client'[x].at = "ended"
      <4>1. Set(x, "ended", None, {}, {})
        BY <2>4 DEF Commit
      <4>2. client \in [Clients -> Client]
        BY <2>1 DEF TypeOK
      <4> QED
        BY <4>1, <4>2 DEF Set
    <3>3. rows' = (rows \ client[x].old) \cup client[x].new
      BY <2>4 DEF Commit
    <3>4. \A row \in client[x].old \cup client[x].new : Owns(x, row)
      BY <2>1, <3>1 DEF FlushedOK, Owns
    <3>5. \A row \in client[x].old : row.kind # "audit"
      BY <2>1 DEF FlushedOK
    <3> QED
      BY <3>1, <3>2, <3>3, <3>4, <3>5 DEF Acts
  <2>5. ASSUME NEW x \in Clients, NEW t \in Tenants, ScriptInsert(x, t)
        PROVE  /\ Acts(x)
               /\ \A row \in rows' \ rows : Owns(x, row)
               /\ \A row \in rows \ rows' : Owns(x, row) /\ row.kind # "audit"
    <3>1. client[x].at = "scoped"
      BY <2>5 DEF ScriptInsert
    <3>2. Owns(x, Entry(x, "owned", t))
      BY <2>3, <2>5, <3>1 DEF ScriptInsert, DatabaseAccepts, PolicyAccepts, Owns
    <3> QED
      BY <2>5, <3>1, <3>2 DEF ScriptInsert, Acts
  <2>6. ASSUME NEW x \in Clients, NEW row \in rows, ScriptChange(x, row)
        PROVE  /\ Acts(x)
               /\ \A r \in rows' \ rows : Owns(x, r)
               /\ \A r \in rows \ rows' : Owns(x, r) /\ r.kind # "audit"
    <3>1. client[x].at = "scoped" /\ row \in Visible(x) /\ row.kind = "owned"
      BY <2>6 DEF ScriptChange
    <3>2. row.tenant = client[x].tenant
      BY <2>3, <3>1 DEF Visible, PolicyShows
    <3>3. Owns(x, row) /\ Owns(x, Entry(x, "owned", row.tenant))
      BY <3>2 DEF Owns, Entry
    <3>4. PICK after \in {{}, { Entry(x, "owned", row.tenant) }} :
            rows' = (rows \ {row}) \cup after
      BY <2>6 DEF ScriptChange
    <3> QED
      BY <2>6, <3>1, <3>3, <3>4 DEF ScriptChange, Acts
  <2> QED
    BY <2>2, <2>4, <2>5, <2>6
<1> QED
  BY <1>1, Inductive, PTL DEF Spec, RowsStayPut
----------------------------------------------------------------------------
(* The circle in which the holders of all connections need a thread while  *)
(* what runs in the threads needs a connection.                            *)
Stalled ==
    /\ ~ThreadIsFree
    /\ \A x \in Clients : client[x].at \in InThread => NeedsConnection(x)
    /\ \A c \in Connections : ~Idle(c)

UnderWay == { x \in Clients : client[x].at \notin {"new", "done"} }

StallNeedsACrowd ==
    Stalled => Cardinality(UnderWay) >= MaxThreads + Cardinality(Connections)

(* The server comes to stand still, until the timeout of its pool, only    *)
(* under as many requests as it has threads and connections together: with *)
(* the defaults that db.py leaves in force, 40 and 15.                     *)
THEOREM NoStallInALull == Spec => []StallNeedsACrowd
<1>1. IInv => StallNeedsACrowd
  <2> SUFFICES ASSUME IInv, Stalled
               PROVE  Cardinality(UnderWay) >= MaxThreads + Cardinality(Connections)
    BY DEF StallNeedsACrowd
  <2> DEFINE Running == { x \in Clients : client[x].at \in InThread }
             Holders == { x \in Clients : client[x].holds # None }
             holder == [c \in Connections |-> CHOOSE x \in Clients : client[x].holds = c]
  <2>1. TypeOK /\ PhasesOK /\ HoldsOK /\ HoldsAlone
    BY DEF IInv
  <2>2. Running \in SUBSET Clients /\ Holders \in SUBSET Clients /\ UnderWay \in SUBSET Clients
    BY DEF UnderWay
  <2>3. /\ IsFiniteSet(Running) /\ Cardinality(Running) \in Nat
        /\ IsFiniteSet(Holders) /\ Cardinality(Holders) \in Nat
        /\ IsFiniteSet(UnderWay) /\ Cardinality(UnderWay) \in Nat
        /\ Cardinality(Connections) \in Nat
    BY <2>2, ClientsAreFinite, ConnectionsAreFinite, FS_Subset, FS_CardinalityType
  <2>4. Cardinality(Running) >= MaxThreads
    BY <2>3, MaxThreadsAssumption DEF Stalled, ThreadIsFree
  <2>5. Cardinality(Holders) >= Cardinality(Connections)
    <3>1. \A c \in Connections : holder[c] \in Clients /\ client[holder[c]].holds = c
      BY DEF Stalled, Idle
    <3> HIDE DEF holder
    <3>2. holder \in [Connections -> Holders]
      <4>1. \A c \in Connections : holder[c] \in Holders
        BY <3>1, NoneIsNoValue
      <4>2. holder = [c \in Connections |-> holder[c]]
        BY DEF holder
      <4> QED
        BY <4>1, <4>2
    <3>3. holder \in Injection(Connections, Holders)
      BY <3>1, <3>2 DEF Injection, IsInjective
    <3> QED
      BY <2>3, <3>3, FS_Injection
  <2>6. Running \cap Holders = {}
    BY DEF Stalled, NeedsConnection
  <2>7. /\ IsFiniteSet(Running \cup Holders)
        /\ Cardinality(Running \cup Holders) = Cardinality(Running) + Cardinality(Holders)
    <3> HIDE DEF Running, Holders
    <3>1. Cardinality(Running \cap Holders) = 0
      BY <2>6, FS_EmptySet
    <3>2. /\ IsFiniteSet(Running \cup Holders)
          /\ Cardinality(Running \cup Holders) =
               Cardinality(Running) + Cardinality(Holders) - Cardinality(Running \cap Holders)
      BY <2>3, FS_Union
    <3> QED
      BY <2>3, <3>1, <3>2
  <2>8. Running \cup Holders \in SUBSET UnderWay
    BY <2>1 DEF UnderWay, HoldsOK, InThread
  <2>9. Cardinality(Running \cup Holders) <= Cardinality(UnderWay)
    BY <2>3, <2>8, FS_Subset
  <2> QED
    BY <2>3, <2>4, <2>5, <2>7, <2>9, MaxThreadsAssumption
<1> QED
  BY <1>1, Inductive, PTL
=============================================================================
