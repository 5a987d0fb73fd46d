---------------------------- MODULE AccessProofs ----------------------------
(***************************************************************************)
(* Proofs about Access: types, one identity for each linked subject,       *)
(* authority that comes from members, what the walk up the locations       *)
(* finds, grants in the log, links that stay and acts that are authorised. *)
(***************************************************************************)
EXTENDS Access, FiniteSetTheorems, WellFoundedInduction, TLAPS

----------------------------------------------------------------------------
(* Types                                                                   *)

(* What a request holds at each of its steps.                              *)
Phases ==
    \A r \in Requests :
        /\ req[r].at # "idle" => req[r].by.actor \in Identities /\ req[r].by.tenant \in Tenants
        /\ req[r].at \in {"idle", "email", "link"} => req[r].link = None
        /\ req[r].at \in {"email", "link"} => req[r].subject \in Subjects
        /\ req[r].link # None => req[r].subject \in Subjects
        /\ req[r].at = "revoke" =>
             /\ req[r].grant \in Grants
             /\ grants[req[r].grant].status # "absent"
             /\ grants[req[r].grant].tenant = req[r].by.tenant

(* What a stored grant has.                                                *)
Stored ==
    \A g \in Grants : grants[g].status # "absent" =>
        /\ grants[g].tenant \in Tenants
        /\ grants[g].terms \in Payload
        /\ grants[g].approver \in Identities

TypeInv == TypeOK /\ Phases /\ Stored

LEMMA BecomeType ==
    ASSUME TypeInv, NEW r \in Requests, NEW s \in Subjects \cup {None},
           NEW at \in {"idle", "email", "link", "resolve", "handle"},
           NEW link \in Identities \cup {None}, NEW read \in Nat, NEW by \in Authority,
           Become(r, at, s, link, read, by),
           at # "idle" => by.actor \in Identities /\ by.tenant \in Tenants,
           at \in {"idle", "email", "link"} => link = None,
           at \in {"email", "link"} => s \in Subjects,
           link # None => s \in Subjects
    PROVE  TypeInv'
<1> DEFINE x == [at |-> at, subject |-> s, link |-> link, read |-> read,
                 by |-> by, grant |-> None, revoker |-> None]
<1>1. x \in Request
  BY DEF Request
<1>2. /\ req' = [req EXCEPT ![r] = x]
      /\ UNCHANGED <<subject, grants, audit, now>>
  BY DEF Become
<1>3. /\ x.at = at /\ x.by = by /\ x.link = link /\ x.subject = s
  OBVIOUS
<1> HIDE DEF x
<1>4. TypeOK'
  BY <1>1, <1>2 DEF TypeInv, TypeOK
<1>5. Phases'
  <2> SUFFICES ASSUME NEW q \in Requests PROVE
        /\ req'[q].at # "idle" => req'[q].by.actor \in Identities /\ req'[q].by.tenant \in Tenants
        /\ req'[q].at \in {"idle", "email", "link"} => req'[q].link = None
        /\ req'[q].at \in {"email", "link"} => req'[q].subject \in Subjects
        /\ req'[q].link # None => req'[q].subject \in Subjects
        /\ req'[q].at = "revoke" =>
             /\ req'[q].grant \in Grants
             /\ grants'[req'[q].grant].status # "absent"
             /\ grants'[req'[q].grant].tenant = req'[q].by.tenant
    BY DEF Phases
  <2>1. CASE q = r
    <3>1. req'[q] = x
      BY <1>2, <2>1 DEF TypeInv, TypeOK
    <3> QED BY <3>1, <1>3
  <2>2. CASE q # r
    <3>1. req'[q] = req[q]
      BY <1>2, <2>2 DEF TypeInv, TypeOK
    <3> QED BY <3>1, <1>2 DEF TypeInv, Phases
  <2> QED BY <2>1, <2>2
<1>6. Stored'
  BY <1>2 DEF TypeInv, Stored
<1> QED BY <1>4, <1>5, <1>6 DEF TypeInv

LEMMA AsType ==
    ASSUME NEW i \in Identities \cup {None}, NEW t \in Tenants \cup {None},
           NEW permissions \in SUBSET Permissions
    PROVE  /\ As(i, t, permissions) \in Authority
           /\ As(i, t, permissions).actor = i
           /\ As(i, t, permissions).tenant = t
BY BoundsAreNumbers DEF As, Authority, Times

LEMMA FailType == ASSUME TypeInv, NEW r \in Requests, Fail(r) PROVE TypeInv'
<1>1. Nobody \in Authority
  BY AsType DEF Nobody
<1>2. Become(r, "idle", None, None, 0, Nobody)
  BY DEF Fail
<1> QED BY <1>1, <1>2, BecomeType

LEMMA PrincipalType ==
    ASSUME TypeInv, NEW r \in Requests, NEW s \in Subjects \cup {None},
           NEW link \in Identities \cup {None}, NEW read \in Nat, NEW t \in Tenants,
           NEW i \in Identities, NEW scope \in Scopes,
           link # None => s \in Subjects, Principal(r, s, link, read, t, i, scope)
    PROVE  TypeInv'
<1> DEFINE granted == Applicable(t, i, scope)
           delegation == Delegation(t, i, scope, granted)
           member == As(i, t, Memberships[t][i])
<1>1. /\ delegation \in Authority
      /\ delegation.actor = i
      /\ delegation.tenant = t
  <2>1. \A g \in granted : grants[g].terms.permissions \in SUBSET Permissions
    BY DEF TypeInv, Stored, Applicable, Payload
  <2>2. UNION { grants[g].terms.permissions : g \in granted } \in SUBSET Permissions
    BY <2>1
  <2>3. scope.project \in Projects \cup {None} /\ scope.location \in Locations \cup {None}
    BY ScopesAreScopes
  <2>4. Len(audit) \in Nat /\ now \in Times
    BY DEF TypeInv, TypeOK
  <2> HIDE DEF granted
  <2> QED BY <2>2, <2>3, <2>4 DEF Delegation, Authority
<1>2. Member(t, i) => /\ member \in Authority
                      /\ member.actor = i
                      /\ member.tenant = t
  BY MembersAreActors, AsType DEF Member
<1>3. \/ Member(t, i) /\ Become(r, "handle", s, link, read, member)
      \/ Become(r, "handle", s, link, read, delegation)
      \/ Fail(r)
  BY DEF Principal
<1> HIDE DEF granted, delegation, member
<1>4. CASE Member(t, i) /\ Become(r, "handle", s, link, read, member)
  BY <1>2, <1>4, BecomeType
<1>5. CASE Become(r, "handle", s, link, read, delegation)
  BY <1>1, <1>5, BecomeType
<1>6. CASE Fail(r)
  BY <1>6, FailType
<1> QED BY <1>3, <1>4, <1>5, <1>6

LEMMA AuthenticateType ==
    ASSUME TypeInv, NEW r \in Requests, Authenticate(r) PROVE TypeInv'
<1> DEFINE x == req[r]
<1>1. /\ x \in Request
      /\ x.at # "idle" => x.by.actor \in Identities /\ x.by.tenant \in Tenants
      /\ x.at \in {"idle", "email", "link"} => x.link = None
      /\ x.at \in {"email", "link"} => x.subject \in Subjects
      /\ x.link # None => x.subject \in Subjects
  BY DEF TypeInv, TypeOK, Phases
<1>2. /\ x.subject \in Subjects \cup {None} /\ x.link \in Identities \cup {None}
      /\ x.read \in Nat /\ x.by \in Authority
  BY <1>1 DEF Request
<1>3. Len(audit) \in Nat
  BY DEF TypeInv, TypeOK
<1> HIDE DEF x
<1>4. ASSUME NEW t \in Tenants, NEW i \in Identities, NEW scope \in Scopes,
             BeginHeader(r, t, i, scope)
      PROVE  TypeInv'
  BY <1>4, PrincipalType DEF BeginHeader
<1>5. ASSUME NEW t \in Tenants, NEW token \in Tokens, BeginToken(r, t, token)
      PROVE  TypeInv'
  <2>1. token.subject \in Subjects /\ token.email \in Identities \cup {None}
    BY TokensAreTokens
  <2>2. CASE \E i \in Identities : Become(r, "resolve", token.subject, None, 0, As(i, t, {}))
    <3>1. PICK i \in Identities : Become(r, "resolve", token.subject, None, 0, As(i, t, {}))
      BY <2>2
    <3> QED BY <2>1, <3>1, AsType, BecomeType
  <2>3. CASE /\ token.email # None
             /\ Become(r, "email", token.subject, None, 0, As(token.email, t, {}))
    BY <2>1, <2>3, AsType, BecomeType
  <2> QED BY <1>5, <2>2, <2>3 DEF BeginToken, LinkedTo
<1>6. CASE ReadByEmail(r)
  <2>1. x.at = "email"
    BY <1>6 DEF ReadByEmail, x
  <2>2. \/ Become(r, "link", x.subject, None, Len(audit), x.by)
        \/ Become(r, "resolve", x.subject, None, 0, x.by)
        \/ Fail(r)
    BY <1>6 DEF ReadByEmail, Continue, x
  <2> QED BY <1>1, <1>2, <1>3, <2>1, <2>2, BecomeType, FailType
<1>7. CASE Link(r)
  <2>1. x.at = "link"
    BY <1>7 DEF Link, x
  <2>2. \/ Become(r, "resolve", x.subject, x.by.actor, x.read, x.by)
        \/ Fail(r)
    BY <1>7 DEF Link, Continue, x
  <2> QED BY <1>1, <1>2, <2>1, <2>2, BecomeType, FailType
<1>8. ASSUME NEW scope \in Scopes, Resolve(r, scope) PROVE TypeInv'
  <2>1. /\ x.at = "resolve"
        /\ Principal(r, x.subject, x.link, x.read, x.by.tenant, x.by.actor, scope)
    BY <1>8 DEF Resolve, x
  <2> QED BY <1>1, <1>2, <2>1, PrincipalType
<1> QED BY <1>4, <1>5, <1>6, <1>7, <1>8 DEF Authenticate

(* A stored grant stays what it is, but for its revocation.                *)
GrantsKeep ==
    \A g \in Grants : grants[g].status # "absent" =>
        /\ grants'[g].status # "absent"
        /\ grants'[g].tenant = grants[g].tenant
        /\ grants'[g].terms = grants[g].terms
        /\ grants'[g].approver = grants[g].approver

LEMMA CommitType ==
    ASSUME TypeInv, NEW r \in Requests, NEW permission \in Permissions,
           NEW g \in Grants \cup {None}, req[r].at # "idle",
           Commit(r, permission, g),
           grants' \in [Grants -> GrantRow], Stored', GrantsKeep
    PROVE  TypeInv'
<1>1. /\ req[r].by \in Authority /\ req[r].link \in Identities \cup {None}
      /\ req[r].link # None => req[r].subject \in Subjects
  <2>1. req[r] \in Request
    BY DEF TypeInv, TypeOK
  <2> QED BY <2>1 DEF Request, TypeInv, Phases
<1>2. [action |-> permission, grant |-> g, by |-> req[r].by, link |-> req[r].link] \in Event
  BY <1>1 DEF Event
<1>3. /\ Idle \in Request
      /\ Idle.at = "idle" /\ Idle.link = None
  <2>1. Nobody \in Authority
    BY AsType DEF Nobody
  <2> QED BY <2>1 DEF Idle, Request
<1>4. TypeOK'
  <2>1. audit' \in Seq(Event)
    BY <1>2 DEF Commit, TypeInv, TypeOK
  <2>2. subject' \in [Identities -> Subjects \cup {None}]
    BY <1>1, NoneIsNothing DEF Commit, TypeInv, TypeOK
  <2>3. req' \in [Requests -> Request]
    BY <1>3 DEF Commit, TypeInv, TypeOK
  <2> QED BY <2>1, <2>2, <2>3 DEF Commit, TypeInv, TypeOK
<1>5. Phases'
  <2> SUFFICES ASSUME NEW q \in Requests PROVE
        /\ req'[q].at # "idle" => req'[q].by.actor \in Identities /\ req'[q].by.tenant \in Tenants
        /\ req'[q].at \in {"idle", "email", "link"} => req'[q].link = None
        /\ req'[q].at \in {"email", "link"} => req'[q].subject \in Subjects
        /\ req'[q].link # None => req'[q].subject \in Subjects
        /\ req'[q].at = "revoke" =>
             /\ req'[q].grant \in Grants
             /\ grants'[req'[q].grant].status # "absent"
             /\ grants'[req'[q].grant].tenant = req'[q].by.tenant
    BY DEF Phases
  <2>1. CASE q = r
    <3>1. req'[q] = Idle
      BY <2>1 DEF Commit, TypeInv, TypeOK
    <3> QED BY <3>1, <1>3
  <2>2. CASE q # r
    <3>1. req'[q] = req[q]
      BY <2>2 DEF Commit, TypeInv, TypeOK
    <3>2. req[q].at = "revoke" =>
            /\ req[q].grant \in Grants
            /\ grants'[req[q].grant].status # "absent"
            /\ grants'[req[q].grant].tenant = req[q].by.tenant
      BY DEF TypeInv, Phases, GrantsKeep
    <3> QED BY <3>1, <3>2 DEF TypeInv, Phases
  <2> QED BY <2>1, <2>2
<1> QED BY <1>4, <1>5 DEF TypeInv

(* What the handlers do to the grants.                                     *)
LEMMA CreateGrantKeeps ==
    ASSUME TypeInv, NEW r \in Requests, NEW g \in Grants, NEW terms \in Payloads,
           CreateGrant(r, g, terms)
    PROVE  grants' \in [Grants -> GrantRow] /\ Stored' /\ GrantsKeep
<1> DEFINE row == [status |-> "active", tenant |-> req[r].by.tenant, terms |-> terms,
                   approver |-> req[r].by.actor, revoker |-> None]
<1>1. /\ req[r].by.actor \in Identities /\ req[r].by.tenant \in Tenants
  BY DEF CreateGrant, TypeInv, Phases
<1>2. /\ row \in GrantRow /\ row.status # "absent" /\ row.tenant \in Tenants
      /\ row.terms \in Payload /\ row.approver \in Identities
  BY <1>1, PayloadsArePayloads DEF GrantRow
<1>3. grants' = [grants EXCEPT ![g] = row] /\ grants[g].status = "absent"
  BY DEF CreateGrant
<1> HIDE DEF row
<1>4. grants' \in [Grants -> GrantRow] /\ \A h \in Grants : grants'[h] = IF h = g THEN row ELSE grants[h]
  BY <1>2, <1>3 DEF TypeInv, TypeOK
<1> QED BY <1>2, <1>3, <1>4 DEF TypeInv, Stored, GrantsKeep

LEMMA RevokeKeeps ==
    ASSUME TypeInv, NEW r \in Requests, CommitRevoke(r)
    PROVE  grants' \in [Grants -> GrantRow] /\ Stored' /\ GrantsKeep
<1> DEFINE g == req[r].grant
           row == [status |-> "revoked", tenant |-> grants[g].tenant, terms |-> grants[g].terms,
                   approver |-> grants[g].approver, revoker |-> RevokerWritten(r)]
<1>1. /\ req[r].by.actor \in Identities
      /\ g \in Grants
      /\ grants[g].status # "absent"
      /\ grants[g] \in GrantRow
  <2>1. req[r].at = "revoke"
    BY DEF CommitRevoke, RevokeTo
  <2>2. /\ req[r].by.actor \in Identities /\ g \in Grants /\ grants[g].status # "absent"
    BY <2>1 DEF TypeInv, Phases
  <2> QED BY <2>2 DEF TypeInv, TypeOK
<1>2. RevokerWritten(r) \in Identities \cup {None}
  BY <1>1 DEF RevokerWritten, GrantRow
<1>3. /\ row \in GrantRow /\ row.status # "absent" /\ row.tenant = grants[g].tenant
      /\ row.terms = grants[g].terms /\ row.approver = grants[g].approver
  BY <1>1, <1>2 DEF GrantRow
<1>4. grants' = [grants EXCEPT ![g] = row]
  BY DEF CommitRevoke, RevokeTo
<1> HIDE DEF row
<1>5. grants' \in [Grants -> GrantRow] /\ \A h \in Grants : grants'[h] = IF h = g THEN row ELSE grants[h]
  BY <1>3, <1>4 DEF TypeInv, TypeOK
<1> QED BY <1>1, <1>3, <1>5 DEF TypeInv, Stored, GrantsKeep

LEMMA HandleType == ASSUME TypeInv, NEW r \in Requests, Handle(r) PROVE TypeInv'
<1>1. ASSUME NEW g \in Grants, NEW terms \in Payloads, CreateGrant(r, g, terms) PROVE TypeInv'
  <2>1. req[r].at # "idle" /\ Commit(r, "access_grant:create", g)
    BY <1>1 DEF CreateGrant
  <2> QED BY <1>1, <2>1, PermissionsAreListed, CreateGrantKeeps, CommitType
<1>2. ASSUME NEW g \in Grants, LoadGrant(r, g) PROVE TypeInv'
  <2> DEFINE x == [at |-> "revoke", subject |-> req[r].subject, link |-> req[r].link,
                   read |-> req[r].read, by |-> req[r].by, grant |-> g,
                   revoker |-> grants[g].revoker]
  <2>1. /\ req[r] \in Request /\ grants[g] \in GrantRow
    BY DEF TypeInv, TypeOK
  <2>2. x \in Request
    BY <2>1 DEF Request, GrantRow
  <2>3. /\ req[r].at = "handle" /\ grants[g].status # "absent"
        /\ grants[g].tenant = req[r].by.tenant
        /\ req' = [req EXCEPT ![r] = x] /\ UNCHANGED <<subject, grants, audit, now>>
    BY <1>2 DEF LoadGrant, Sees
  <2>4. /\ x.at = "revoke" /\ x.by = req[r].by /\ x.link = req[r].link
        /\ x.subject = req[r].subject /\ x.grant = g
    OBVIOUS
  <2> HIDE DEF x
  <2>5. req' \in [Requests -> Request] /\ \A q \in Requests : req'[q] = IF q = r THEN x ELSE req[q]
    BY <2>2, <2>3 DEF TypeInv, TypeOK
  <2>6. TypeOK' /\ Stored'
    BY <2>3, <2>5 DEF TypeInv, TypeOK, Stored
  <2>7. Phases'
    BY <2>3, <2>4, <2>5 DEF TypeInv, Phases
  <2> QED BY <2>6, <2>7 DEF TypeInv
<1>3. CASE CommitRevoke(r)
  <2>1. /\ req[r].at = "revoke" /\ Commit(r, "access_grant:revoke", req[r].grant)
    BY <1>3 DEF CommitRevoke, RevokeTo
  <2>2. req[r].grant \in Grants \cup {None}
    BY <2>1 DEF TypeInv, Phases
  <2> QED BY <1>3, <2>1, <2>2, PermissionsAreListed, RevokeKeeps, CommitType
<1>4. ASSUME NEW permission \in Work, CommitWork(r, permission) PROVE TypeInv'
  <2>1. /\ req[r].at # "idle" /\ Commit(r, permission, None) /\ grants' = grants
    BY <1>4 DEF CommitWork
  <2>2. grants' \in [Grants -> GrantRow] /\ Stored' /\ GrantsKeep
    BY <2>1 DEF TypeInv, TypeOK, Stored, GrantsKeep
  <2> QED BY <2>1, <2>2, PermissionsAreListed, CommitType
<1>5. CASE End(r)
  BY <1>5, FailType DEF End
<1> QED BY <1>1, <1>2, <1>3, <1>4, <1>5 DEF Handle

LEMMA TypeInvInit == Init => TypeInv
<1> SUFFICES ASSUME Init PROVE TypeInv
  OBVIOUS
<1>1. Nobody \in Authority
  BY AsType DEF Nobody
<1>2. Idle \in Request /\ Idle.at = "idle" /\ Idle.link = None
  BY <1>1 DEF Idle, Request
<1>3. NoGrant \in GrantRow /\ NoGrant.status = "absent"
  BY DEF NoGrant, GrantRow
<1>4. TypeOK
  BY <1>2, <1>3, BoundsAreNumbers DEF Init, TypeOK, Times
<1>5. Phases /\ Stored
  BY <1>2, <1>3 DEF Init, Phases, Stored
<1> QED BY <1>4, <1>5 DEF TypeInv

LEMMA TypeInvNext == TypeInv /\ [Next]_vars => TypeInv'
<1> SUFFICES ASSUME TypeInv, [Next]_vars PROVE TypeInv'
  OBVIOUS
<1>1. ASSUME NEW r \in Requests, Authenticate(r) PROVE TypeInv'
  BY <1>1, AuthenticateType
<1>2. ASSUME NEW r \in Requests, Handle(r) PROVE TypeInv'
  BY <1>2, HandleType
<1>3. CASE Tick
  BY <1>3, BoundsAreNumbers DEF Tick, Times, TypeInv, TypeOK, Phases, Stored
<1>4. CASE UNCHANGED vars
  BY <1>4 DEF vars, TypeInv, TypeOK, Phases, Stored
<1> QED BY <1>1, <1>2, <1>3, <1>4 DEF Next

LEMMA TypeInvHolds == Spec => []TypeInv
BY TypeInvInit, TypeInvNext, PTL DEF Spec

(* Identities, grants, the log and requests have their types.              *)
THEOREM TypeCorrect == Spec => []TypeOK
<1>1. TypeInv => TypeOK
  BY DEF TypeInv
<1> QED BY <1>1, TypeInvHolds, PTL

----------------------------------------------------------------------------
(* Linked subjects                                                         *)

(* A link that was flushed, and not committed, holds its identity and its  *)
(* subject: no other request has linked either, and no other identity has  *)
(* the subject.                                                            *)
LinkInv ==
    /\ LinksAreUnique
    /\ \A r \in Requests : req[r].link # None => LinkedTo(req[r].subject) \subseteq {req[r].link}
    /\ \A r, q \in Requests : r # q /\ req[r].link # None /\ req[q].link # None
         => req[r].link # req[q].link /\ req[r].subject # req[q].subject

(* No step but Link and a commit concerns links.                           *)
LEMMA QuietLinks ==
    ASSUME LinkInv, subject' = subject,
           \A q \in Requests :
               \/ req'[q].link = None
               \/ req'[q].link = req[q].link /\ req'[q].subject = req[q].subject
    PROVE  LinkInv'
BY DEF LinkInv, LinksAreUnique, LinkedTo

LEMMA FailLinks ==
    ASSUME TypeInv, LinkInv, NEW r \in Requests, Fail(r) PROVE LinkInv'
BY QuietLinks DEF Fail, Become, TypeInv, TypeOK

LEMMA LinkLinks ==
    ASSUME TypeInv, LinkInv, NEW r \in Requests, Link(r) PROVE LinkInv'
<1>1. CASE Fail(r)
  BY <1>1, FailLinks
<1>2. CASE ~Fail(r)
  <2> DEFINE i == req[r].by.actor
             s == req[r].subject
             x == [at |-> "resolve", subject |-> s, link |-> i, read |-> req[r].read,
                   by |-> req[r].by, grant |-> None, revoker |-> None]
  <2>1. /\ LinkedTo(s) \subseteq {i}
        /\ \A q \in Requests \ {r} : req[q].link # None => req[q].link # i /\ req[q].subject # s
        /\ req' = [req EXCEPT ![r] = x]
        /\ subject' = subject
    BY <1>2 DEF Link, Continue, Become, Waiting
  <2>2. x.link = i /\ x.subject = s
    OBVIOUS
  <2> HIDE DEF x
  <2>3. \A q \in Requests : req'[q] = IF q = r THEN x ELSE req[q]
    BY <2>1 DEF TypeInv, TypeOK
  <2> QED BY <2>1, <2>2, <2>3 DEF LinkInv, LinksAreUnique, LinkedTo
<1> QED BY <1>1, <1>2

LEMMA CommitLinks ==
    ASSUME TypeInv, LinkInv, NEW r \in Requests, NEW permission, NEW g,
           Commit(r, permission, g)
    PROVE  LinkInv'
<1>1. Idle.link = None
  BY DEF Idle
<1>2. \A q \in Requests : req'[q] = IF q = r THEN Idle ELSE req[q]
  BY DEF Commit, TypeInv, TypeOK
<1>3. CASE req[r].link = None
  <2>1. subject' = subject
    BY <1>3, NoneIsNothing DEF Commit, TypeInv, TypeOK
  <2> QED BY <1>1, <1>2, <2>1, QuietLinks
<1>4. CASE req[r].link # None
  <2>1. \A i \in Identities : subject'[i] = IF i = req[r].link THEN req[r].subject ELSE subject[i]
    BY DEF Commit
  <2>2. LinksAreUnique'
    BY <1>4, <2>1 DEF LinkInv, LinksAreUnique, LinkedTo
  <2>3. \A q \in Requests : req'[q].link # None
          => { i \in Identities : subject'[i] = req'[q].subject } \subseteq {req'[q].link}
    BY <1>1, <1>2, <1>4, <2>1 DEF LinkInv, LinkedTo
  <2>4. \A p, q \in Requests : p # q /\ req'[p].link # None /\ req'[q].link # None
          => req'[p].link # req'[q].link /\ req'[p].subject # req'[q].subject
    BY <1>1, <1>2 DEF LinkInv
  <2> QED BY <2>2, <2>3, <2>4 DEF LinkInv, LinkedTo
<1> QED BY <1>3, <1>4

LEMMA LinkInvNext == TypeInv /\ LinkInv /\ [Next]_vars => LinkInv'
<1> SUFFICES ASSUME TypeInv, LinkInv, [Next]_vars PROVE LinkInv'
  OBVIOUS
<1>1. ASSUME NEW r \in Requests, Authenticate(r) PROVE LinkInv'
  <2>1. CASE Link(r)
    BY <1>1, <2>1, LinkLinks
  <2>3. ASSUME NEW t \in Tenants, NEW i \in Identities, NEW scope \in Scopes,
               BeginHeader(r, t, i, scope)
        PROVE  LinkInv'
    <3>1. \/ Fail(r)
          \/ \E by : Become(r, "handle", None, None, 0, by)
      BY <1>1, <2>3 DEF BeginHeader, Principal
    <3>2. ASSUME NEW by, Become(r, "handle", None, None, 0, by) PROVE LinkInv'
      BY <1>1, <3>2, QuietLinks DEF Become, TypeInv, TypeOK
    <3> QED BY <1>1, <3>1, <3>2, FailLinks
  <2>4. ASSUME NEW t \in Tenants, NEW token \in Tokens, BeginToken(r, t, token)
        PROVE  LinkInv'
    <3>1. \E at, s, read, by : Become(r, at, s, None, read, by)
      BY <1>1, <2>4 DEF BeginToken
    <3>2. ASSUME NEW at, NEW s, NEW read, NEW by, Become(r, at, s, None, read, by) PROVE LinkInv'
      BY <1>1, <3>2, QuietLinks DEF Become, TypeInv, TypeOK
    <3> QED BY <1>1, <3>1, <3>2
  <2>5. CASE ReadByEmail(r)
    <3>1. \/ Fail(r)
          \/ \E at, s, read, by : Become(r, at, s, None, read, by)
      BY <1>1, <2>5 DEF ReadByEmail, Continue
    <3>2. ASSUME NEW at, NEW s, NEW read, NEW by, Become(r, at, s, None, read, by) PROVE LinkInv'
      BY <1>1, <3>2, QuietLinks DEF Become, TypeInv, TypeOK
    <3> QED BY <1>1, <3>1, <3>2, FailLinks
  <2>6. ASSUME NEW scope \in Scopes, Resolve(r, scope) PROVE LinkInv'
    <3>1. \/ Fail(r)
          \/ \E by : Become(r, "handle", req[r].subject, req[r].link, req[r].read, by)
      BY <1>1, <2>6 DEF Resolve, Principal
    <3>2. ASSUME NEW by, Become(r, "handle", req[r].subject, req[r].link, req[r].read, by)
          PROVE  LinkInv'
      BY <1>1, <3>2, QuietLinks DEF Become, TypeInv, TypeOK
    <3> QED BY <1>1, <3>1, <3>2, FailLinks
  <2> QED BY <1>1, <2>1, <2>3, <2>4, <2>5, <2>6 DEF Authenticate
<1>2. ASSUME NEW r \in Requests, Handle(r) PROVE LinkInv'
  <2>1. ASSUME NEW g \in Grants, LoadGrant(r, g) PROVE LinkInv'
    <3> DEFINE x == [at |-> "revoke", subject |-> req[r].subject, link |-> req[r].link,
                     read |-> req[r].read, by |-> req[r].by, grant |-> g,
                     revoker |-> grants[g].revoker]
    <3>1. x.link = req[r].link /\ x.subject = req[r].subject
      OBVIOUS
    <3>2. subject' = subject /\ req' = [req EXCEPT ![r] = x]
      BY <1>2, <2>1 DEF LoadGrant
    <3> HIDE DEF x
    <3>3. \A q \in Requests : req'[q] = IF q = r THEN x ELSE req[q]
      BY <1>2, <3>2 DEF TypeInv, TypeOK
    <3> QED BY <1>2, <3>1, <3>2, <3>3, QuietLinks
  <2>2. CASE End(r)
    BY <1>2, <2>2, FailLinks DEF End
  <2> QED BY <1>2, <2>1, <2>2, CommitLinks DEF Handle, CreateGrant, CommitRevoke, RevokeTo, CommitWork
<1>3. CASE Tick
  BY <1>3, QuietLinks DEF Tick
<1>4. CASE UNCHANGED vars
  BY <1>4, QuietLinks DEF vars
<1> QED BY <1>1, <1>2, <1>3, <1>4 DEF Next

(* Whatever requests overlap, a subject is linked to one identity at most. *)
THEOREM LinksStayUnique == Spec => []LinksAreUnique
<1>1. Init => LinkInv
  <2>1. Idle.link = None
    BY DEF Idle
  <2> QED BY <2>1 DEF Init, LinkInv, LinksAreUnique
<1>2. LinkInv => LinksAreUnique
  BY DEF LinkInv
<1> QED BY <1>1, <1>2, LinkInvNext, TypeInvHolds, PTL DEF Spec

----------------------------------------------------------------------------
(* Authority that comes from members                                       *)

(* Identity i has its authority in tenant t from members.                  *)
Rooted(t, i) == \A S \in SUBSET Identities : Entrusted(t, S) => i \in S

(* So has whoever a request was resolved for, and whoever made a grant.    *)
RootInv ==
    /\ TrustIsRooted
    /\ \A r \in Requests : req[r].at \in {"handle", "revoke"} => Rooted(req[r].by.tenant, req[r].by.actor)
    /\ \A g \in Grants : grants[g].status # "absent" => Rooted(grants[g].tenant, grants[g].approver)

(* More grants entrust more people.                                        *)
LEMMA RootedStays ==
    ASSUME GrantsKeep, NEW t, NEW i, Rooted(t, i)
    PROVE  \A S \in SUBSET Identities : Entrusted(t, S)' => i \in S
<1>1. ASSUME NEW S \in SUBSET Identities, Entrusted(t, S)' PROVE Entrusted(t, S)
  BY <1>1 DEF Entrusted, GrantsKeep, Member
<1> QED BY <1>1 DEF Rooted

LEMMA MembersAreRooted == ASSUME NEW t, NEW i \in Identities, Member(t, i) PROVE Rooted(t, i)
BY DEF Rooted, Entrusted

LEMMA GranteesAreRooted ==
    ASSUME TypeInv, RootInv, NEW t, NEW i \in Identities, NEW scope, Applicable(t, i, scope) # {}
    PROVE  Rooted(t, i)
<1>1. PICK g \in Grants : grants[g].status # "absent" /\ grants[g].tenant = t /\ grants[g].terms.subject = i
  BY DEF Applicable, Covers
<1>2. Rooted(t, grants[g].approver)
  BY <1>1 DEF RootInv
<1>3. i # None
  BY NoneIsNothing
<1> QED BY <1>1, <1>2, <1>3 DEF Rooted, Entrusted

(* A step that keeps the log, and leaves only rooted requests behind.      *)
LEMMA QuietRoots ==
    ASSUME RootInv, audit' = audit, grants' = grants,
           \A r \in Requests : req'[r].at \in {"handle", "revoke"} =>
               Rooted(req'[r].by.tenant, req'[r].by.actor)
    PROVE  RootInv'
<1>1. \A t, S : Entrusted(t, S) <=> Entrusted(t, S)'
  BY DEF Entrusted, Member
<1> QED BY <1>1 DEF RootInv, TrustIsRooted, Rooted

LEMMA FailRoots ==
    ASSUME TypeInv, RootInv, NEW r \in Requests, Fail(r) PROVE RootInv'
BY QuietRoots DEF Fail, Become, TypeInv, TypeOK, RootInv

LEMMA PrincipalRoots ==
    ASSUME TypeInv, RootInv, NEW r \in Requests, NEW s, NEW link, NEW read, NEW t,
           NEW i \in Identities, NEW scope, Principal(r, s, link, read, t, i, scope)
    PROVE  RootInv'
<1>1. ASSUME NEW by, Become(r, "handle", s, link, read, by), by.tenant = t, by.actor = i, Rooted(t, i)
      PROVE  RootInv'
  BY <1>1, QuietRoots DEF Become, TypeInv, TypeOK, RootInv
<1>2. CASE Fail(r)
  BY <1>2, FailRoots
<1>3. CASE Member(t, i) /\ Become(r, "handle", s, link, read, As(i, t, Memberships[t][i]))
  <2>1. As(i, t, Memberships[t][i]).tenant = t /\ As(i, t, Memberships[t][i]).actor = i
    BY DEF As
  <2> QED BY <1>1, <1>3, <2>1, MembersAreRooted
<1>4. CASE /\ Applicable(t, i, scope) # {}
           /\ Become(r, "handle", s, link, read, Delegation(t, i, scope, Applicable(t, i, scope)))
  <2> DEFINE by == Delegation(t, i, scope, Applicable(t, i, scope))
  <2>1. by.tenant = t /\ by.actor = i
    BY DEF Delegation
  <2>2. Become(r, "handle", s, link, read, by)
    BY <1>4
  <2>3. Rooted(t, i)
    BY <1>4, GranteesAreRooted
  <2> HIDE DEF by
  <2> QED BY <1>1, <2>1, <2>2, <2>3
<1> QED BY <1>2, <1>3, <1>4 DEF Principal

LEMMA CommitRoots ==
    ASSUME TypeInv, RootInv, NEW r \in Requests, NEW permission, NEW h,
           req[r].at \in {"handle", "revoke"}, Commit(r, permission, h), GrantsKeep,
           \A g \in Grants : grants'[g].status # "absent" =>
               \/ grants[g].status # "absent"
               \/ grants'[g].tenant = req[r].by.tenant /\ grants'[g].approver = req[r].by.actor
    PROVE  RootInv'
<1> DEFINE e == [action |-> permission, grant |-> h, by |-> req[r].by, link |-> req[r].link]
<1>1. e.by = req[r].by
  OBVIOUS
<1>2. audit' = Append(audit, e) /\ audit \in Seq(Event)
  BY DEF Commit, TypeInv, TypeOK
<1> HIDE DEF e
<1>3. \A n \in DOMAIN audit' : (n \in DOMAIN audit /\ audit'[n] = audit[n]) \/ audit'[n] = e
  BY <1>2
<1>4. Rooted(req[r].by.tenant, req[r].by.actor)
  BY DEF RootInv
<1>5. TrustIsRooted'
  <2>1. ASSUME NEW n \in DOMAIN audit'
        PROVE  (\A S \in SUBSET Identities :
                  Entrusted(audit[n].by.tenant, S) => audit[n].by.actor \in S)'
    <3>1. PICK by : by = audit'[n].by /\ Rooted(by.tenant, by.actor)
      BY <1>1, <1>3, <1>4, <2>1 DEF RootInv, TrustIsRooted, Rooted
    <3>2. \A S \in SUBSET Identities : Entrusted(by.tenant, S)' => by.actor \in S
      BY <3>1, RootedStays
    <3> QED BY <3>1, <3>2 DEF Entrusted
  <2> QED BY <2>1 DEF TrustIsRooted
<1>6. \A q \in Requests : req'[q].at \in {"handle", "revoke"} =>
        q # r /\ req'[q] = req[q]
  <2>1. Idle.at = "idle"
    BY DEF Idle
  <2> QED BY <2>1 DEF Commit, TypeInv, TypeOK
<1>7. ASSUME NEW q \in Requests, req'[q].at \in {"handle", "revoke"}
      PROVE  Rooted(req[q].by.tenant, req[q].by.actor)'
  <2>1. PICK by : by = req[q].by /\ by = req'[q].by /\ Rooted(by.tenant, by.actor)
    BY <1>6, <1>7 DEF RootInv
  <2>2. \A S \in SUBSET Identities : Entrusted(by.tenant, S)' => by.actor \in S
    BY <2>1, RootedStays
  <2> QED BY <2>1, <2>2 DEF Rooted, Entrusted
<1>8. ASSUME NEW g \in Grants, grants'[g].status # "absent"
      PROVE  Rooted(grants[g].tenant, grants[g].approver)'
  <2>1. PICK t, i : t = grants'[g].tenant /\ i = grants'[g].approver /\ Rooted(t, i)
    BY <1>4, <1>8 DEF RootInv, GrantsKeep
  <2>2. \A S \in SUBSET Identities : Entrusted(t, S)' => i \in S
    BY <2>1, RootedStays
  <2> QED BY <2>1, <2>2 DEF Rooted, Entrusted
<1> QED BY <1>5, <1>7, <1>8 DEF RootInv

LEMMA AuthenticateRoots ==
    ASSUME TypeInv, RootInv, NEW r \in Requests, Authenticate(r) PROVE RootInv'
<1> DEFINE early == {"email", "link", "resolve"}
<1>1. ASSUME NEW at \in early, NEW s, NEW link, NEW read, NEW by, Become(r, at, s, link, read, by)
      PROVE  RootInv'
  BY <1>1, QuietRoots DEF Become, TypeInv, TypeOK, RootInv
<1>2. ASSUME NEW t \in Tenants, NEW i \in Identities, NEW scope \in Scopes,
             BeginHeader(r, t, i, scope)
      PROVE  RootInv'
  BY <1>2, PrincipalRoots DEF BeginHeader
<1>3. ASSUME NEW t \in Tenants, NEW token \in Tokens, BeginToken(r, t, token)
      PROVE  RootInv'
  <2>1. \E at \in early : \E s, link, read, by : Become(r, at, s, link, read, by)
    BY <1>3 DEF BeginToken
  <2> QED BY <1>1, <2>1
<1>4. CASE ReadByEmail(r) \/ Link(r)
  <2>1. \/ Fail(r)
        \/ \E at \in early : \E s, link, read, by : Become(r, at, s, link, read, by)
    BY <1>4 DEF ReadByEmail, Link, Continue
  <2> QED BY <1>1, <2>1, FailRoots
<1>5. ASSUME NEW scope \in Scopes, Resolve(r, scope) PROVE RootInv'
  <2>1. req[r].by.actor \in Identities
    BY <1>5 DEF Resolve, TypeInv, Phases
  <2> QED BY <1>5, <2>1, PrincipalRoots DEF Resolve
<1> QED BY <1>2, <1>3, <1>4, <1>5 DEF Authenticate

LEMMA HandleRoots ==
    ASSUME TypeInv, RootInv, NEW r \in Requests, Handle(r) PROVE RootInv'
<1>1. ASSUME NEW g \in Grants, NEW terms \in Payloads, CreateGrant(r, g, terms) PROVE RootInv'
  <2> DEFINE row == [status |-> "active", tenant |-> req[r].by.tenant, terms |-> terms,
                     approver |-> req[r].by.actor, revoker |-> None]
  <2>1. row.tenant = req[r].by.tenant /\ row.approver = req[r].by.actor
    OBVIOUS
  <2>2. /\ req[r].at = "handle" /\ grants' = [grants EXCEPT ![g] = row]
        /\ Commit(r, "access_grant:create", g)
    BY <1>1 DEF CreateGrant
  <2> HIDE DEF row
  <2>3. \A h \in Grants : grants'[h].status # "absent" =>
          \/ grants[h].status # "absent"
          \/ grants'[h].tenant = req[r].by.tenant /\ grants'[h].approver = req[r].by.actor
    BY <2>1, <2>2 DEF TypeInv, TypeOK
  <2> QED BY <1>1, <2>2, <2>3, CreateGrantKeeps, CommitRoots
<1>2. ASSUME NEW g \in Grants, LoadGrant(r, g) PROVE RootInv'
  <2> DEFINE x == [at |-> "revoke", subject |-> req[r].subject, link |-> req[r].link,
                   read |-> req[r].read, by |-> req[r].by, grant |-> g,
                   revoker |-> grants[g].revoker]
  <2>1. x.by = req[r].by
    OBVIOUS
  <2>2. /\ req[r].at = "handle" /\ audit' = audit /\ grants' = grants
        /\ req' = [req EXCEPT ![r] = x]
    BY <1>2 DEF LoadGrant
  <2> HIDE DEF x
  <2>3. \A q \in Requests : req'[q] = IF q = r THEN x ELSE req[q]
    BY <2>2 DEF TypeInv, TypeOK
  <2> QED BY <2>1, <2>2, <2>3, QuietRoots DEF RootInv
<1>3. CASE CommitRevoke(r)
  <2>1. req[r].at = "revoke" /\ Commit(r, "access_grant:revoke", req[r].grant)
    BY <1>3 DEF CommitRevoke, RevokeTo
  <2>2. grants[req[r].grant].status # "absent"
    BY <2>1 DEF TypeInv, Phases
  <2>3. \A h \in Grants : grants'[h].status # "absent" => grants[h].status # "absent"
    BY <1>3, <2>2 DEF CommitRevoke, RevokeTo, TypeInv, TypeOK
  <2> QED BY <1>3, <2>1, <2>3, RevokeKeeps, CommitRoots
<1>4. ASSUME NEW permission \in Work, CommitWork(r, permission) PROVE RootInv'
  <2>1. /\ req[r].at = "handle" /\ Commit(r, permission, None) /\ grants' = grants
    BY <1>4 DEF CommitWork
  <2>2. GrantsKeep
    BY <2>1 DEF GrantsKeep
  <2> QED BY <2>1, <2>2, CommitRoots
<1>5. CASE End(r)
  BY <1>5, FailRoots DEF End
<1> QED BY <1>1, <1>2, <1>3, <1>4, <1>5 DEF Handle

LEMMA RootInvNext == TypeInv /\ RootInv /\ [Next]_vars => RootInv'
<1> SUFFICES ASSUME TypeInv, RootInv, [Next]_vars PROVE RootInv'
  OBVIOUS
<1>1. ASSUME NEW r \in Requests, Authenticate(r) PROVE RootInv'
  BY <1>1, AuthenticateRoots
<1>2. ASSUME NEW r \in Requests, Handle(r) PROVE RootInv'
  BY <1>2, HandleRoots
<1>3. CASE Tick
  BY <1>3, QuietRoots DEF Tick, RootInv
<1>4. CASE UNCHANGED vars
  BY <1>4, QuietRoots DEF vars, RootInv
<1> QED BY <1>1, <1>2, <1>3, <1>4 DEF Next

(* Through however many grants and revocations, whoever acts in a tenant   *)
(* has that authority from a member of it.                                 *)
THEOREM TrustStaysRooted == Spec => []TrustIsRooted
<1>1. Init => RootInv
  <2>1. Idle.at = "idle" /\ NoGrant.status = "absent"
    BY DEF Idle, NoGrant
  <2> QED BY <2>1 DEF Init, RootInv, TrustIsRooted
<1>2. RootInv => TrustIsRooted
  BY DEF RootInv
<1> QED BY <1>1, <1>2, RootInvNext, TypeInvHolds, PTL DEF Spec

----------------------------------------------------------------------------
(* The walk up the parents                                                 *)

Places == (Locations \cup {None}) \X SUBSET Locations

(* One step of the walk of Descends: what it answers at a location with    *)
(* some visited, given its answers f.                                      *)
Up(f, scope) ==
    [at \in Places |->
        /\ at[1] # None /\ at[1] \notin at[2]
        /\ at[1] = scope \/ f[<<Parent[at[1]], at[2] \cup {at[1]}>>]]

Walk(scope) == CHOOSE f : f = Up(f, scope)

LEMMA DescendsWalks ==
    ASSUME NEW l \in Locations \cup {None}, NEW scope
    PROVE  Descends(l, scope) = Walk(scope)[<<l, {}>>]
BY DEF Descends, Walk, Up, Places

(* The recursion has a solution: the least set of places from which the    *)
(* walk arrives.                                                           *)
Arrives(X, scope, l, v) ==
    /\ l # None /\ l \notin v
    /\ l = scope \/ <<Parent[l], v \cup {l}>> \in X

Closed(X, scope) ==
    \A l \in Locations \cup {None} : \A v \in SUBSET Locations :
        Arrives(X, scope, l, v) => <<l, v>> \in X

Least(scope) == { p \in Places : \A X \in SUBSET Places : Closed(X, scope) => p \in X }

LEMMA LeastIsClosed == ASSUME NEW scope PROVE Closed(Least(scope), scope)
<1> SUFFICES ASSUME NEW l \in Locations \cup {None}, NEW v \in SUBSET Locations,
                    Arrives(Least(scope), scope, l, v),
                    NEW X \in SUBSET Places, Closed(X, scope)
             PROVE  <<l, v>> \in X
  BY DEF Closed, Least, Places
<1>1. Arrives(X, scope, l, v)
  BY DEF Arrives, Least
<1> QED BY <1>1 DEF Closed

LEMMA LeastArrives ==
    ASSUME NEW scope, NEW l \in Locations \cup {None}, NEW v \in SUBSET Locations,
           <<l, v>> \in Least(scope)
    PROVE  Arrives(Least(scope), scope, l, v)
<1> DEFINE X == { p \in Least(scope) : Arrives(Least(scope), scope, p[1], p[2]) }
<1>1. X \in SUBSET Places
  BY DEF Least
<1>2. Closed(X, scope)
  <2> SUFFICES ASSUME NEW k \in Locations \cup {None}, NEW w \in SUBSET Locations,
                      Arrives(X, scope, k, w)
               PROVE  <<k, w>> \in X
    BY DEF Closed
  <2>1. Arrives(Least(scope), scope, k, w)
    BY DEF Arrives
  <2>2. <<k, w>> \in Least(scope)
    BY <2>1, LeastIsClosed DEF Closed
  <2> QED BY <2>1, <2>2
<1>3. <<l, v>> \in X
  BY <1>1, <1>2 DEF Least
<1> QED BY <1>3

LEMMA WalkIsUp ==
    ASSUME NEW scope
    PROVE  Walk(scope) = Up(Walk(scope), scope)
<1> DEFINE f == [at \in Places |-> at \in Least(scope)]
<1>1. ASSUME NEW at \in Places
      PROVE  f[at] = (/\ at[1] # None /\ at[1] \notin at[2]
                      /\ at[1] = scope \/ f[<<Parent[at[1]], at[2] \cup {at[1]}>>])
  <2>1. PICK l \in Locations \cup {None}, v \in SUBSET Locations : at = <<l, v>>
    BY DEF Places
  <2>2. f[at] = Arrives(Least(scope), scope, l, v)
    <3>1. f[at] = (at \in Least(scope))
      OBVIOUS
    <3>2. at \in Least(scope) <=> Arrives(Least(scope), scope, l, v)
      BY <2>1, LeastIsClosed, LeastArrives DEF Closed
    <3>3. Arrives(Least(scope), scope, l, v) \in BOOLEAN
      BY DEF Arrives
    <3> HIDE DEF f
    <3> QED BY <3>1, <3>2, <3>3
  <2>3. CASE l = None
    BY <2>1, <2>2, <2>3 DEF Arrives
  <2>4. CASE l # None
    <3>1. <<Parent[l], v \cup {l}>> \in Places
      BY <2>4, ParentsAreLocations DEF Places
    <3>2. f[<<Parent[l], v \cup {l}>>] = (<<Parent[l], v \cup {l}>> \in Least(scope))
      BY <3>1
    <3> QED BY <2>1, <2>2, <2>4, <3>2 DEF Arrives
  <2> QED BY <2>3, <2>4
<1>2. f = Up(f, scope)
  BY <1>1 DEF Up
<1> HIDE DEF f
<1> QED BY <1>2 DEF Walk

LEMMA LeastNumber ==
    ASSUME NEW T \in SUBSET Nat, T # {}
    PROVE  \E n \in T : \A m \in T : ~(m < n)
<1> DEFINE R == OpToRel(<, Nat)
<1>1. IsWellFoundedOn(R, Nat)
  BY NatLessThanWellFounded
<1>2. \A m, n \in Nat : m < n => <<m, n>> \in R
  BY DEF OpToRel
<1> HIDE DEF R
<1>3. PICK n \in T : \A m \in T : ~(<<m, n>> \in R)
  BY <1>1, WFMin
<1> QED BY <1>2, <1>3

(* is_descendant_or_self: whatever the walk finds above a location is in   *)
(* every set that has the location and the parents of its members.  The    *)
(* visited locations bound the walk: were there places outside the set     *)
(* that it arrives from, one would have fewest locations left to visit.    *)
THEOREM WalkGoesUp ==
    ASSUME NEW l \in Locations \cup {None}, NEW scope \in Locations, Descends(l, scope)
    PROVE  Within(l, scope)
<1> DEFINE Reaches(k, v) == Walk(scope)[<<k, v>>] = TRUE
<1>1. ASSUME NEW k \in Locations \cup {None}, NEW v \in SUBSET Locations, Reaches(k, v)
      PROVE  /\ k \in Locations /\ k \notin v
             /\ k = scope \/ Reaches(Parent[k], v \cup {k})
  <2>1. PICK W : W = Walk(scope)
    OBVIOUS
  <2>2. W = Up(W, scope)
    BY <2>1, WalkIsUp
  <2>3. W[<<k, v>>] = (/\ k # None /\ k \notin v
                       /\ k = scope \/ W[<<Parent[k], v \cup {k}>>])
    <3>1. Up(W, scope)[<<k, v>>] = (/\ k # None /\ k \notin v
                                    /\ k = scope \/ W[<<Parent[k], v \cup {k}>>])
      BY DEF Up, Places
    <3>2. W[<<k, v>>] = Up(W, scope)[<<k, v>>]
      BY <2>2, Zenon
    <3> QED BY <3>1, <3>2
  <2>4. W[<<k, v>>] = TRUE
    BY <1>1, <2>1
  <2>5. /\ k # None /\ k \notin v
        /\ k = scope \/ W[<<Parent[k], v \cup {k}>>]
    BY <2>3, <2>4
  <2>6. W[<<Parent[k], v \cup {k}>>] => W[<<Parent[k], v \cup {k}>>] = TRUE
    OBVIOUS
  <2>7. k \in Locations
    BY <2>5
  <2> QED BY <2>1, <2>5, <2>6, <2>7
<1>2. Reaches(l, {})
  <2>1. Descends(l, scope) = TRUE
    OBVIOUS
  <2> QED BY <2>1, DescendsWalks
<1> HIDE DEF Reaches
<1>3. l \in Locations
  BY <1>1, <1>2
<1> SUFFICES ASSUME NEW S \in SUBSET Locations, l \in S,
                    \A k \in S : Parent[k] \in S \cup {None}, scope \notin S
             PROVE  FALSE
  BY <1>3, NoneIsNothing DEF Within
<1> DEFINE Left(v) == Cardinality(Locations \ v)
           T == { n \in Nat : \E k \in S, v \in SUBSET Locations : n = Left(v) /\ Reaches(k, v) }
<1>4. \A v \in SUBSET Locations : Left(v) \in Nat /\ IsFiniteSet(Locations \ v)
  BY ParentsAreLocations, FS_Difference, FS_CardinalityType
<1>5. T # {}
  <2>1. Left({}) \in T
    BY <1>2, <1>4
  <2> QED BY <2>1
<1>6. PICK n \in T : \A m \in T : ~(m < n)
  <2> HIDE DEF T
  <2>1. T \in SUBSET Nat
    BY DEF T
  <2> QED BY <1>5, <2>1, LeastNumber
<1>8. PICK k \in S, v \in SUBSET Locations : n = Left(v) /\ Reaches(k, v)
  OBVIOUS
<1>9. k \notin v /\ Reaches(Parent[k], v \cup {k}) /\ Parent[k] \in S \cup {None}
  <2>1. k # scope /\ k \in Locations
    OBVIOUS
  <2> QED BY <1>1, <1>8, <2>1
<1>10. Parent[k] \in S
  <2>1. v \cup {k} \in SUBSET Locations /\ Parent[k] \in Locations \cup {None}
    BY <1>9
  <2>2. Parent[k] \in Locations
    BY <1>1, <1>9, <2>1
  <2> QED BY <1>9, <2>2, NoneIsNothing
<1>11. Left(v \cup {k}) = Left(v) - 1
  <2>1. Locations \ (v \cup {k}) = (Locations \ v) \ {k}
    OBVIOUS
  <2> QED BY <1>4, <1>8, <1>9, <2>1, FS_RemoveElement
<1>12. Left(v \cup {k}) \in T
  BY <1>4, <1>9, <1>10
<1> QED BY <1>4, <1>6, <1>8, <1>11, <1>12

----------------------------------------------------------------------------
(* The log                                                                 *)

(* e is the event that a step puts in place n of the log.                  *)
Appends(n, e) ==
    /\ n = Len(audit) + 1 /\ n \notin DOMAIN audit
    /\ DOMAIN audit' = DOMAIN audit \cup {n}
    /\ \A m \in DOMAIN audit : audit'[m] = audit[m] /\ m <= Len(audit)
    /\ audit'[n] = e

(* What a commit appends.                                                  *)
LEMMA CommitAppends ==
    ASSUME TypeInv, NEW r \in Requests, NEW permission, NEW g, Commit(r, permission, g)
    PROVE  \E n, e : /\ Appends(n, e)
                     /\ e.action = permission /\ e.grant = g
                     /\ e.by = req[r].by /\ e.link = req[r].link
<1> DEFINE e == [action |-> permission, grant |-> g, by |-> req[r].by, link |-> req[r].link]
<1>1. /\ e.action = permission /\ e.grant = g
      /\ e.by = req[r].by /\ e.link = req[r].link
  OBVIOUS
<1>2. audit' = Append(audit, e) /\ audit \in Seq(Event)
  BY DEF Commit, TypeInv, TypeOK
<1> HIDE DEF e
<1>3. /\ Len(audit) + 1 \notin DOMAIN audit
      /\ DOMAIN audit' = DOMAIN audit \cup {Len(audit) + 1}
      /\ \A m \in DOMAIN audit : audit'[m] = audit[m] /\ m <= Len(audit)
      /\ audit'[Len(audit) + 1] = e
  BY <1>2
<1> QED BY <1>1, <1>3 DEF Appends

(* No other step concerns the grants or the log.                           *)
LEMMA StepsOfTheLog ==
    ASSUME [Next]_vars
    PROVE  \/ audit' = audit /\ grants' = grants
           \/ \E r \in Requests, g \in Grants, terms \in Payloads : CreateGrant(r, g, terms)
           \/ \E r \in Requests : CommitRevoke(r)
           \/ \E r \in Requests, permission \in Work : CommitWork(r, permission)
<1>1. ASSUME NEW r \in Requests, Authenticate(r) PROVE audit' = audit /\ grants' = grants
  BY <1>1 DEF Authenticate, BeginHeader, BeginToken, ReadByEmail, Link, Resolve, Principal,
      Continue, Fail, Become
<1>2. ASSUME NEW r \in Requests, End(r) \/ \E g \in Grants : LoadGrant(r, g)
      PROVE  audit' = audit /\ grants' = grants
  BY <1>2 DEF End, Fail, Become, LoadGrant
<1> QED BY <1>1, <1>2 DEF Next, Handle, Tick, vars

(* What the log tells of a grant, with counts replaced by sets.            *)
GrantLogged(g) ==
    /\ grants[g].status = "revoked" <=> Revoked(g) # {}
    /\ grants[g].revoker # None => \E n \in Revoked(g) : audit[n].by.actor = grants[g].revoker
    /\ \A n \in Created(g) \cup Revoked(g) : audit[n].by.tenant = grants[g].tenant
    /\ grants[g].status = "absent" => Created(g) = {}
    /\ grants[g].status # "absent" => \E n : Created(g) = {n}

LogInv == \A g \in Grants : GrantLogged(g)

LEMMA GrantStaysLogged ==
    ASSUME NEW g, GrantLogged(g), grants'[g] = grants[g],
           Created(g)' = Created(g), Revoked(g)' = Revoked(g),
           \A m \in DOMAIN audit : audit'[m] = audit[m]
    PROVE  GrantLogged(g)'
<1>1. \A m \in Created(g) \cup Revoked(g) : audit'[m] = audit[m]
  BY DEF Created, Revoked
<1> QED BY <1>1 DEF GrantLogged

(* An event adds its place to what the log tells of its own grant only.    *)
LEMMA EventAddsPlace ==
    ASSUME NEW n, NEW e, NEW h, Appends(n, e)
    PROVE  /\ Created(h)' = IF e.action = "access_grant:create" /\ e.grant = h
                            THEN Created(h) \cup {n} ELSE Created(h)
           /\ Revoked(h)' = IF e.action = "access_grant:revoke" /\ e.grant = h
                            THEN Revoked(h) \cup {n} ELSE Revoked(h)
<1>1. Created(h)' = { m \in DOMAIN audit' : audit'[m].action = "access_grant:create" /\ audit'[m].grant = h }
  BY DEF Created
<1>2. Revoked(h)' = { m \in DOMAIN audit' : audit'[m].action = "access_grant:revoke" /\ audit'[m].grant = h }
  BY DEF Revoked
<1>3. CASE e.action = "access_grant:create" /\ e.grant = h
  BY <1>1, <1>2, <1>3 DEF Appends, Created, Revoked
<1>4. CASE e.action = "access_grant:revoke" /\ e.grant = h
  BY <1>1, <1>2, <1>4 DEF Appends, Created, Revoked
<1>5. CASE ~(e.action \in {"access_grant:create", "access_grant:revoke"} /\ e.grant = h)
  BY <1>1, <1>2, <1>5 DEF Appends, Created, Revoked
<1> QED BY <1>3, <1>4, <1>5

LEMMA LogStep ==
    ASSUME TypeInv, LogInv, [Next]_vars PROVE LogInv'
<1>1. CASE audit' = audit /\ grants' = grants
  <2>1. \A g \in Grants : Created(g)' = Created(g) /\ Revoked(g)' = Revoked(g)
    BY <1>1 DEF Created, Revoked
  <2> QED BY <1>1, <2>1, GrantStaysLogged DEF LogInv
<1>2. ASSUME NEW r \in Requests, NEW g \in Grants, NEW terms \in Payloads, CreateGrant(r, g, terms)
      PROVE  LogInv'
  <2> DEFINE row == [status |-> "active", tenant |-> req[r].by.tenant, terms |-> terms,
                     approver |-> req[r].by.actor, revoker |-> None]
  <2>1. row.status = "active" /\ row.tenant = req[r].by.tenant /\ row.revoker = None
    OBVIOUS
  <2>2. /\ Commit(r, "access_grant:create", g) /\ grants[g].status = "absent"
        /\ grants' = [grants EXCEPT ![g] = row]
    BY <1>2 DEF CreateGrant
  <2> HIDE DEF row
  <2>3. \A h \in Grants : grants'[h] = IF h = g THEN row ELSE grants[h]
    BY <2>2 DEF TypeInv, TypeOK
  <2>4. PICK n, e : Appends(n, e) /\ e.action = "access_grant:create" /\ e.grant = g /\ e.by = req[r].by
    BY <2>2, CommitAppends
  <2>5. \A h \in Grants : /\ Revoked(h)' = Revoked(h)
                          /\ Created(h)' = IF h = g THEN Created(h) \cup {n} ELSE Created(h)
    BY <2>4, EventAddsPlace
  <2>6. ASSUME NEW h \in Grants \ {g} PROVE GrantLogged(h)'
    BY <2>3, <2>4, <2>5, GrantStaysLogged DEF LogInv, Appends
  <2>7. Created(g) = {} /\ Revoked(g) = {}
    BY <2>2 DEF LogInv, GrantLogged
  <2>8. /\ Created(g)' = {n} /\ Revoked(g)' = {}
    BY <2>5, <2>7
  <2>9. GrantLogged(g)'
    BY <2>1, <2>3, <2>4, <2>8 DEF GrantLogged, Appends
  <2> QED BY <2>6, <2>9 DEF LogInv
<1>3. ASSUME NEW r \in Requests, CommitRevoke(r) PROVE LogInv'
  <2>1. PICK g : g = req[r].grant
    OBVIOUS
  <2>2. /\ req[r].at = "revoke" /\ Commit(r, "access_grant:revoke", g)
        /\ grants' = [grants EXCEPT ![g] =
              [status |-> "revoked", tenant |-> grants[g].tenant, terms |-> grants[g].terms,
               approver |-> grants[g].approver, revoker |-> RevokerWritten(r)]]
    BY <1>3, <2>1 DEF CommitRevoke, RevokeTo
  <2>3. /\ g \in Grants /\ grants[g].status # "absent"
        /\ grants[g].tenant = req[r].by.tenant
    BY <2>1, <2>2 DEF TypeInv, Phases
  <2>4. /\ grants'[g].status = "revoked" /\ grants'[g].tenant = grants[g].tenant
        /\ grants'[g].revoker \in {grants[g].revoker, req[r].by.actor}
        /\ \A h \in Grants \ {g} : grants'[h] = grants[h]
    BY <2>1, <2>2, <2>3 DEF TypeInv, TypeOK, RevokerWritten
  <2>5. PICK n, e : Appends(n, e) /\ e.action = "access_grant:revoke" /\ e.grant = g /\ e.by = req[r].by
    BY <2>2, CommitAppends
  <2>6. \A h \in Grants : /\ Created(h)' = Created(h)
                          /\ Revoked(h)' = IF h = g THEN Revoked(h) \cup {n} ELSE Revoked(h)
    BY <2>5, EventAddsPlace
  <2>7. ASSUME NEW h \in Grants \ {g} PROVE GrantLogged(h)'
    BY <2>4, <2>5, <2>6, GrantStaysLogged DEF LogInv, Appends
  <2>8. /\ Created(g)' = Created(g) /\ Revoked(g)' = Revoked(g) \cup {n}
        /\ \A m \in Created(g) \cup Revoked(g) : audit'[m] = audit[m]
        /\ audit'[n].by = req[r].by
    <3>1. \A m \in Created(g) \cup Revoked(g) : m \in DOMAIN audit
      BY DEF Created, Revoked
    <3> QED BY <2>3, <2>5, <2>6, <3>1 DEF Appends
  <2>9. GrantLogged(g)
    BY <2>3 DEF LogInv
  <2>10. GrantLogged(g)'
    <3>1. grants'[g].revoker # None =>
            \E m \in Revoked(g)' : audit'[m].by.actor = grants'[g].revoker
      <4>1. CASE grants'[g].revoker = req[r].by.actor
        BY <2>8, <4>1
      <4>2. CASE grants'[g].revoker = grants[g].revoker
        BY <2>8, <2>9, <4>2 DEF GrantLogged
      <4> QED BY <2>4, <4>1, <4>2
    <3>2. \A m \in Created(g)' \cup Revoked(g)' : audit'[m].by.tenant = grants'[g].tenant
      BY <2>3, <2>4, <2>8, <2>9 DEF GrantLogged
    <3>3. Revoked(g)' # {} /\ \E m : Created(g)' = {m}
      BY <2>3, <2>8, <2>9 DEF GrantLogged
    <3> QED BY <2>4, <3>1, <3>2, <3>3 DEF GrantLogged
  <2> QED BY <2>7, <2>10 DEF LogInv
<1>4. ASSUME NEW r \in Requests, NEW permission \in Work, CommitWork(r, permission) PROVE LogInv'
  <2>1. Commit(r, permission, None) /\ grants' = grants
    BY <1>4 DEF CommitWork
  <2>2. PICK n, e : Appends(n, e) /\ e.grant = None
    BY <2>1, CommitAppends
  <2>3. \A h \in Grants : Created(h)' = Created(h) /\ Revoked(h)' = Revoked(h)
    BY <2>2, NoneIsNothing, EventAddsPlace
  <2> QED BY <2>1, <2>2, <2>3, GrantStaysLogged DEF LogInv, Appends
<1> QED BY <1>1, <1>2, <1>3, <1>4, StepsOfTheLog

LEMMA LogInvHolds == Spec => []LogInv
<1>1. Init => LogInv
  BY DEF Init, LogInv, GrantLogged, Created, Revoked, NoGrant
<1> QED BY <1>1, LogStep, TypeInvHolds, PTL DEF Spec

(* create_access_grant and revoke_access_grant: the rows and the log agree *)
(* on who granted and who revoked, however many revoke at once.            *)
THEOREM GrantsAreLogged == Spec => []RevocationsAreLogged
<1>1. LogInv => RevocationsAreLogged
  <2> SUFFICES ASSUME LogInv, NEW g \in Grants
               PROVE  Cardinality(Created(g)) = (IF grants[g].status = "absent" THEN 0 ELSE 1)
    BY DEF LogInv, GrantLogged, RevocationsAreLogged
  <2>1. CASE grants[g].status = "absent"
    BY <2>1, FS_EmptySet DEF LogInv, GrantLogged
  <2>2. CASE grants[g].status # "absent"
    <3>1. PICK n : Created(g) = {n}
      BY <2>2 DEF LogInv, GrantLogged
    <3> QED BY <2>2, <3>1, FS_Singleton
  <2> QED BY <2>1, <2>2
<1> QED BY <1>1, LogInvHolds, PTL

----------------------------------------------------------------------------
(* Links that give way                                                     *)

(* The identity that a request is about to link, or has linked.            *)
Linking(r) == IF req[r].at = "link" THEN req[r].by.actor ELSE req[r].link

(* It had no subject when the request read it; if it has one now, the log  *)
(* shows a later commit that linked it.                                    *)
ReadUnlinked ==
    \A r \in Requests :
        /\ req[r].read <= Len(audit)
        /\ Linking(r) # None => \/ subject[Linking(r)] = None
                                \/ \E n \in DOMAIN audit :
                                      n > req[r].read /\ audit[n].link = Linking(r)

(* What a request that became x has read, when nothing was committed.      *)
LEMMA QuietReads ==
    ASSUME TypeInv, ReadUnlinked, NEW r \in Requests, NEW x,
           req' = [req EXCEPT ![r] = x], UNCHANGED <<subject, audit>>,
           x.read <= Len(audit),
           \/ x.at # "link" /\ x.link = None
           \/ /\ x.read = req[r].read
              /\ (IF x.at = "link" THEN x.by.actor ELSE x.link) = Linking(r)
           \/ x.at = "link" /\ subject[x.by.actor] = None
    PROVE  ReadUnlinked'
<1> SUFFICES ASSUME NEW q \in Requests
             PROVE  /\ req'[q].read <= Len(audit)
                    /\ Linking(q)' # None =>
                          \/ subject[Linking(q)'] = None
                          \/ \E n \in DOMAIN audit :
                                n > req'[q].read /\ audit[n].link = Linking(q)'
  BY DEF ReadUnlinked
<1>1. CASE q # r
  <2>1. req'[q] = req[q]
    BY <1>1 DEF TypeInv, TypeOK
  <2>2. Linking(q)' = Linking(q)
    BY <2>1 DEF Linking
  <2> QED BY <2>1, <2>2 DEF ReadUnlinked
<1>2. CASE q = r
  <2>1. req'[q] = x
    BY <1>2 DEF TypeInv, TypeOK
  <2>2. Linking(q)' = IF x.at = "link" THEN x.by.actor ELSE x.link
    BY <2>1 DEF Linking
  <2> QED BY <1>2, <2>1, <2>2 DEF ReadUnlinked
<1> QED BY <1>1, <1>2

LEMMA BecomeReads ==
    ASSUME TypeInv, ReadUnlinked, NEW r \in Requests, NEW at, NEW s, NEW link, NEW read, NEW by,
           Become(r, at, s, link, read, by), read <= Len(audit),
           \/ at # "link" /\ link = None
           \/ /\ read = req[r].read
              /\ (IF at = "link" THEN by.actor ELSE link) = Linking(r)
           \/ at = "link" /\ subject[by.actor] = None
    PROVE  ReadUnlinked'
<1> DEFINE x == [at |-> at, subject |-> s, link |-> link, read |-> read,
                 by |-> by, grant |-> None, revoker |-> None]
<1>1. x.at = at /\ x.link = link /\ x.read = read /\ x.by = by
  OBVIOUS
<1>2. req' = [req EXCEPT ![r] = x] /\ UNCHANGED <<subject, audit>>
  BY DEF Become
<1> HIDE DEF x
<1> QED BY <1>1, <1>2, QuietReads

LEMMA AuthenticateReads ==
    ASSUME TypeInv, ReadUnlinked, NEW r \in Requests, Authenticate(r) PROVE ReadUnlinked'
<1>1. /\ Len(audit) \in Nat /\ req[r] \in Request
      /\ req[r].read <= Len(audit)
      /\ req[r].at \in {"email", "link"} => req[r].link = None
  BY DEF TypeInv, TypeOK, Phases, ReadUnlinked
<1>2. ASSUME Fail(r) PROVE ReadUnlinked'
  BY <1>1, <1>2, BecomeReads DEF Fail
<1>3. ASSUME NEW t \in Tenants, NEW i \in Identities, NEW scope \in Scopes,
             BeginHeader(r, t, i, scope)
      PROVE  ReadUnlinked'
  <2>1. Fail(r) \/ \E by : Become(r, "handle", None, None, 0, by)
    BY <1>3 DEF BeginHeader, Principal
  <2> QED BY <1>1, <1>2, <2>1, BecomeReads
<1>4. ASSUME NEW t \in Tenants, NEW token \in Tokens, BeginToken(r, t, token)
      PROVE  ReadUnlinked'
  <2>1. \E at \in {"resolve", "email"} : \E s, by : Become(r, at, s, None, 0, by)
    BY <1>4 DEF BeginToken
  <2> QED BY <1>1, <2>1, BecomeReads
<1>5. CASE ReadByEmail(r)
  <2>1. \/ Fail(r)
        \/ Become(r, "resolve", req[r].subject, None, 0, req[r].by)
        \/ /\ subject[req[r].by.actor] = None
           /\ Become(r, "link", req[r].subject, None, Len(audit), req[r].by)
    BY <1>5 DEF ReadByEmail, Continue
  <2> QED BY <1>1, <1>2, <2>1, BecomeReads
<1>6. CASE Link(r)
  <2>1. \/ Fail(r)
        \/ Become(r, "resolve", req[r].subject, req[r].by.actor, req[r].read, req[r].by)
    BY <1>6 DEF Link, Continue
  <2>2. Linking(r) = req[r].by.actor
    BY <1>6 DEF Link, Linking
  <2> QED BY <1>1, <1>2, <2>1, <2>2, BecomeReads
<1>7. ASSUME NEW scope \in Scopes, Resolve(r, scope) PROVE ReadUnlinked'
  <2>1. Fail(r) \/ \E by : Become(r, "handle", req[r].subject, req[r].link, req[r].read, by)
    BY <1>7 DEF Resolve, Principal
  <2>2. Linking(r) = req[r].link
    BY <1>7 DEF Resolve, Linking
  <2> QED BY <1>1, <1>2, <2>1, <2>2, BecomeReads
<1> QED BY <1>3, <1>4, <1>5, <1>6, <1>7 DEF Authenticate

(* A commit that links an identity is in the log for those who read it     *)
(* before.                                                                 *)
LEMMA CommitReads ==
    ASSUME TypeInv, ReadUnlinked, NEW r \in Requests, NEW permission, NEW g,
           Commit(r, permission, g)
    PROVE  ReadUnlinked'
<1>1. PICK n, e : Appends(n, e) /\ e.link = req[r].link
  BY CommitAppends
<1>2. /\ Len(audit) \in Nat /\ Len(audit') = Len(audit) + 1
  BY DEF Commit, TypeInv, TypeOK
<1> SUFFICES ASSUME NEW q \in Requests
             PROVE  /\ req'[q].read <= Len(audit')
                    /\ Linking(q)' # None =>
                          \/ subject'[Linking(q)'] = None
                          \/ \E m \in DOMAIN audit' :
                                m > req'[q].read /\ audit'[m].link = Linking(q)'
  BY DEF ReadUnlinked
<1>3. CASE q = r
  <2>1. req'[q] = Idle
    BY <1>3 DEF Commit, TypeInv, TypeOK
  <2>2. Linking(q)' = None /\ req'[q].read = 0
    BY <2>1 DEF Linking, Idle
  <2> QED BY <1>2, <2>2
<1>4. CASE q # r
  <2>1. req'[q] = req[q] /\ req[q].read \in Nat /\ req[q].read <= Len(audit)
    BY <1>4 DEF Commit, TypeInv, TypeOK, Request, ReadUnlinked
  <2>2. PICK i : i = Linking(q) /\ i = Linking(q)'
    BY <2>1 DEF Linking
  <2>3. i # None => i \in Identities
    BY <2>2 DEF Linking, TypeInv, TypeOK, Phases, Request
  <2>4. CASE i = req[r].link /\ i # None
    BY <1>1, <1>2, <2>1, <2>2, <2>4 DEF Appends
  <2>5. CASE i # req[r].link /\ i # None
    <3>1. subject'[i] = subject[i]
      BY <2>3, <2>5 DEF Commit
    <3>2. \/ subject[i] = None
          \/ \E m \in DOMAIN audit : m > req[q].read /\ audit[m].link = i
      BY <2>2, <2>5 DEF ReadUnlinked
    <3> QED BY <1>1, <1>2, <2>1, <2>2, <3>1, <3>2 DEF Appends
  <2> QED BY <1>2, <2>1, <2>2, <2>4, <2>5
<1> QED BY <1>3, <1>4

LEMMA ReadsStep == ASSUME TypeInv, ReadUnlinked, [Next]_vars PROVE ReadUnlinked'
<1>1. ASSUME NEW r \in Requests, Authenticate(r) PROVE ReadUnlinked'
  BY <1>1, AuthenticateReads
<1>2. ASSUME NEW r \in Requests, Handle(r) PROVE ReadUnlinked'
  <2>1. ASSUME NEW g \in Grants, LoadGrant(r, g) PROVE ReadUnlinked'
    <3> DEFINE x == [at |-> "revoke", subject |-> req[r].subject, link |-> req[r].link,
                     read |-> req[r].read, by |-> req[r].by, grant |-> g,
                     revoker |-> grants[g].revoker]
    <3>1. x.at = "revoke" /\ x.link = req[r].link /\ x.read = req[r].read
      OBVIOUS
    <3>2. /\ req' = [req EXCEPT ![r] = x] /\ UNCHANGED <<subject, audit>>
          /\ req[r].at = "handle"
      BY <2>1 DEF LoadGrant
    <3>3. Linking(r) = req[r].link /\ req[r].read <= Len(audit)
      BY <1>2, <3>2 DEF Linking, ReadUnlinked
    <3> HIDE DEF x
    <3> QED BY <1>2, <3>1, <3>2, <3>3, QuietReads
  <2>2. CASE End(r)
    <3>1. Len(audit) \in Nat
      BY DEF TypeInv, TypeOK
    <3> QED BY <1>2, <2>2, <3>1, BecomeReads DEF End, Fail
  <2>3. CASE \E permission, g : Commit(r, permission, g)
    BY <1>2, <2>3, CommitReads
  <2> QED
    BY <1>2, <2>1, <2>2, <2>3 DEF Handle, CreateGrant, CommitRevoke, RevokeTo, CommitWork
<1>3. ASSUME UNCHANGED <<subject, audit, req>> PROVE ReadUnlinked'
  BY <1>3 DEF ReadUnlinked, Linking
<1> QED BY <1>1, <1>2, <1>3 DEF Next, Tick, vars

(* resolve_oidc_actor: a committed link is overwritten only by a request   *)
(* that read the identity before the commit that made it.                  *)
THEOREM LinksGiveWayToOverlapsOnly == Spec => LinksStay
<1>1. Init => ReadUnlinked
  BY DEF Init, ReadUnlinked, Linking, Idle
<1>2. TypeInv /\ ReadUnlinked => \A r \in Requests :
        LET i == req[r].link
        IN  i # None /\ subject[i] # None =>
                \E n \in DOMAIN audit : n > req[r].read /\ audit[n].link = i
  <2> SUFFICES ASSUME TypeInv, ReadUnlinked, NEW r \in Requests,
                      req[r].link # None, subject[req[r].link] # None
               PROVE  \E n \in DOMAIN audit : n > req[r].read /\ audit[n].link = req[r].link
    OBVIOUS
  <2>1. Linking(r) = req[r].link
    BY DEF Linking, TypeInv, Phases
  <2> QED BY <2>1 DEF ReadUnlinked
<1>3. TypeInv /\ ReadUnlinked /\ [Next]_vars =>
        [\A r \in Requests : LET i == req[r].link
         IN /\ i # None
            /\ subject[i] \notin {None, req[r].subject}
            /\ subject'[i] = req[r].subject
            => \E n \in DOMAIN audit : n > req[r].read /\ audit[n].link = i]_vars
  BY <1>2
<1> QED BY <1>1, <1>3, ReadsStep, TypeInvHolds, PTL DEF Spec, LinksStay

----------------------------------------------------------------------------
(* Acts and what allows them                                               *)

(* Grant g stands behind the authority by.                                 *)
Backs(g, by) ==
    LET terms == grants[g].terms
    IN /\ grants[g].status # "absent"
       /\ \E n \in Created(g) : n <= by.began
       /\ \A n \in Revoked(g) : n > by.began
       /\ grants[g].tenant = by.tenant
       /\ terms.subject = by.actor /\ terms.project = by.project
       /\ terms.location = None \/ Within(by.location, terms.location)
       /\ terms.starts = None \/ terms.starts <= by.when
       /\ terms.expires = None \/ terms.expires > by.when

Behind(by, permissions) ==
    { p \in permissions : \E g \in Grants : Backs(g, by) /\ p \in grants[g].terms.permissions }

(* Where an authority is from: a membership, or grants for all it has.     *)
Founded(by) ==
    /\ by.began \in Nat /\ by.began <= Len(audit)
    /\ IF Member(by.tenant, by.actor)
       THEN by.permissions = Memberships[by.tenant][by.actor]
       ELSE \A p \in by.permissions :
               \E g \in Grants : Backs(g, by) /\ p \in grants[g].terms.permissions

AuthorityInv ==
    /\ \A r \in Requests : req[r].at \in {"handle", "revoke"} => Founded(req[r].by)
    /\ \A r \in Requests : req[r].at = "revoke" => Can(r, "access_grant:revoke")
    /\ \A n \in DOMAIN audit :
          /\ Founded(audit[n].by)
          /\ {"*", audit[n].action} \cap audit[n].by.permissions # {}

(* Nothing that happens later takes the foundation away.                   *)
LEMMA BacksStays ==
    ASSUME TypeInv, GrantsKeep, NEW n, NEW e, Appends(n, e), NEW g \in Grants,
           NEW by, by.began \in Nat, by.began <= Len(audit), Backs(g, by)
    PROVE  Backs(g, by)'
<1>1. Len(audit) \in Nat
  BY DEF TypeInv, TypeOK
<1>2. Created(g) \subseteq Created(g)' /\ Revoked(g)' \subseteq Revoked(g) \cup {n}
  BY EventAddsPlace
<1>3. n > by.began
  BY <1>1 DEF Appends
<1> QED BY <1>2, <1>3 DEF Backs, GrantsKeep

LEMMA FoundedStays ==
    ASSUME TypeInv, GrantsKeep, NEW n, NEW e, Appends(n, e), Len(audit') = Len(audit) + 1,
           NEW by, Founded(by)
    PROVE  Founded(by)'
<1>1. Len(audit) \in Nat /\ by.began \in Nat /\ by.began <= Len(audit)
  BY DEF TypeInv, TypeOK, Founded
<1>2. by.began <= Len(audit')
  BY <1>1
<1>3. CASE Member(by.tenant, by.actor)
  BY <1>1, <1>2, <1>3 DEF Founded, Member
<1>4. CASE ~Member(by.tenant, by.actor)
  <2>1. ASSUME NEW p \in by.permissions
        PROVE  \E g \in Grants : Backs(g, by)' /\ p \in grants'[g].terms.permissions
    <3>1. PICK g \in Grants : Backs(g, by) /\ p \in grants[g].terms.permissions
      BY <1>4 DEF Founded
    <3>2. Backs(g, by)'
      BY <1>1, <3>1, BacksStays
    <3>3. grants'[g].terms = grants[g].terms
      BY <3>1 DEF Backs, GrantsKeep
    <3> QED BY <3>1, <3>2, <3>3
  <2> QED BY <1>1, <1>2, <1>4, <2>1 DEF Founded, Member
<1> QED BY <1>3, <1>4

(* resolve_principal founds what it returns.                               *)
LEMMA PrincipalIsFounded ==
    ASSUME TypeInv, LogInv, NEW t \in Tenants, NEW i \in Identities,
           NEW scope \in Scopes, ~Member(t, i)
    PROVE  Founded(Delegation(t, i, scope, Applicable(t, i, scope)))
<1> DEFINE by == Delegation(t, i, scope, Applicable(t, i, scope))
<1>1. /\ by.tenant = t /\ by.actor = i /\ by.project = scope.project
      /\ by.location = scope.location /\ by.began = Len(audit) /\ by.when = now
      /\ \A p \in by.permissions : \E g \in Applicable(t, i, scope) :
            p \in grants[g].terms.permissions
  BY DEF Delegation
<1> HIDE DEF by
<1>2. Len(audit) \in Nat
  BY DEF TypeInv, TypeOK
<1>3. ASSUME NEW g \in Applicable(t, i, scope)
      PROVE  g \in Grants /\ Backs(g, by)
  <2>1. /\ g \in Grants /\ grants[g].status = "active" /\ grants[g].tenant = t
        /\ Covers(grants[g].terms, i, scope)
    BY DEF Applicable
  <2>2. Revoked(g) = {} /\ \E n : Created(g) = {n}
    BY <2>1 DEF LogInv, GrantLogged
  <2>3. PICK n \in Created(g) : n \in DOMAIN audit
    BY <2>2 DEF Created
  <2>4. n <= by.began
    BY <1>1, <2>3 DEF TypeInv, TypeOK
  <2>5. grants[g].terms.location \in Locations \cup {None}
    BY <2>1 DEF TypeInv, Stored, Payload
  <2>6. scope.location \in Locations \cup {None}
    BY ScopesAreScopes
  <2>7. \/ grants[g].terms.location = None
        \/ Within(by.location, grants[g].terms.location)
    BY <1>1, <2>1, <2>5, <2>6, WalkGoesUp DEF Covers
  <2>8. \A m \in Revoked(g) : m > by.began
    BY <2>2
  <2> QED BY <1>1, <2>1, <2>3, <2>4, <2>7, <2>8 DEF Covers, Backs
<1>4. \A p \in by.permissions :
         \E g \in Grants : Backs(g, by) /\ p \in grants[g].terms.permissions
  BY <1>1, <1>3
<1>5. Founded(by)
  BY <1>1, <1>2, <1>4 DEF Founded
<1> QED BY <1>5 DEF by

(* A step that commits nothing, and leaves founded requests behind.        *)
LEMMA FoundationSeen ==
    ASSUME NEW by, Founded(by), audit' = audit, grants' = grants
    PROVE  Founded(by)'
<1>1. \A g \in Grants : Backs(g, by)' <=> Backs(g, by)
  BY DEF Backs, Created, Revoked, Within
<1> QED BY <1>1 DEF Founded, Member

LEMMA QuietAuthority ==
    ASSUME TypeInv, AuthorityInv, NEW r \in Requests, NEW x, req' = [req EXCEPT ![r] = x],
           audit' = audit, grants' = grants,
           x.at \in {"handle", "revoke"} => Founded(x.by),
           x.at = "revoke" => {"*", "access_grant:revoke"} \cap x.by.permissions # {}
    PROVE  AuthorityInv'
<1>1. \A q \in Requests : req'[q] = IF q = r THEN x ELSE req[q]
  BY DEF TypeInv, TypeOK
<1>2. ASSUME NEW q \in Requests, req'[q].at \in {"handle", "revoke"}
      PROVE  /\ Founded(req[q].by)'
             /\ req'[q].at = "revoke" => Can(q, "access_grant:revoke")'
  <2>1. PICK by : /\ by = req'[q].by /\ Founded(by)
                  /\ req'[q].at = "revoke" => {"*", "access_grant:revoke"} \cap by.permissions # {}
    BY <1>1, <1>2 DEF AuthorityInv, Can
  <2>2. Founded(by)'
    BY <2>1, FoundationSeen
  <2>3. Founded(req[q].by)'
    BY <2>1, <2>2 DEF Founded, Backs
  <2> QED BY <2>1, <2>3 DEF Can
<1>3. ASSUME NEW n \in DOMAIN audit'
      PROVE  Founded(audit[n].by)' /\ {"*", audit'[n].action} \cap audit'[n].by.permissions # {}
  <2>1. PICK by : by = audit[n].by /\ Founded(by)
    BY <1>3 DEF AuthorityInv
  <2>2. Founded(by)'
    BY <2>1, FoundationSeen
  <2>3. Founded(audit[n].by)'
    BY <2>1, <2>2 DEF Founded, Backs
  <2> QED BY <1>3, <2>3 DEF AuthorityInv
<1> QED BY <1>2, <1>3 DEF AuthorityInv

LEMMA BecomeAuthority ==
    ASSUME TypeInv, AuthorityInv, NEW r \in Requests, NEW at, NEW s, NEW link, NEW read, NEW by,
           Become(r, at, s, link, read, by), at # "revoke", at = "handle" => Founded(by)
    PROVE  AuthorityInv'
<1> DEFINE x == [at |-> at, subject |-> s, link |-> link, read |-> read,
                 by |-> by, grant |-> None, revoker |-> None]
<1>1. x.at = at /\ x.by = by
  OBVIOUS
<1>2. req' = [req EXCEPT ![r] = x] /\ audit' = audit /\ grants' = grants
  BY DEF Become
<1> HIDE DEF x
<1> QED BY <1>1, <1>2, QuietAuthority

LEMMA PrincipalAuthority ==
    ASSUME TypeInv, LogInv, AuthorityInv, NEW r \in Requests, NEW s, NEW link,
           NEW read, NEW t \in Tenants, NEW i \in Identities, NEW scope \in Scopes,
           Principal(r, s, link, read, t, i, scope)
    PROVE  AuthorityInv'
<1>1. CASE Member(t, i) /\ Become(r, "handle", s, link, read, As(i, t, Memberships[t][i]))
  <2> DEFINE by == As(i, t, Memberships[t][i])
  <2>1. /\ by.tenant = t /\ by.actor = i /\ by.began = 0
        /\ by.permissions = Memberships[t][i]
    BY DEF As
  <2>2. Become(r, "handle", s, link, read, by)
    BY <1>1
  <2> HIDE DEF by
  <2>3. Len(audit) \in Nat
    BY DEF TypeInv, TypeOK
  <2>4. Founded(by)
    BY <1>1, <2>1, <2>3 DEF Founded
  <2> QED BY <2>2, <2>4, BecomeAuthority
<1>2. CASE /\ ~Member(t, i)
           /\ Become(r, "handle", s, link, read, Delegation(t, i, scope, Applicable(t, i, scope)))
  <2> DEFINE by == Delegation(t, i, scope, Applicable(t, i, scope))
  <2>1. Founded(by)
    BY <1>2, PrincipalIsFounded
  <2>2. Become(r, "handle", s, link, read, by)
    BY <1>2
  <2> HIDE DEF by
  <2> QED BY <2>1, <2>2, BecomeAuthority
<1>3. CASE Fail(r)
  BY <1>3, BecomeAuthority DEF Fail
<1> QED BY <1>1, <1>2, <1>3 DEF Principal

LEMMA AuthenticateAuthority ==
    ASSUME TypeInv, LogInv, AuthorityInv, NEW r \in Requests, Authenticate(r)
    PROVE  AuthorityInv'
<1>1. ASSUME NEW t \in Tenants, NEW i \in Identities, NEW scope \in Scopes,
             BeginHeader(r, t, i, scope)
      PROVE  AuthorityInv'
  BY <1>1, PrincipalAuthority DEF BeginHeader
<1>2. ASSUME NEW scope \in Scopes, Resolve(r, scope) PROVE AuthorityInv'
  <2>1. req[r].by.tenant \in Tenants /\ req[r].by.actor \in Identities
    BY <1>2 DEF Resolve, TypeInv, Phases
  <2> QED BY <1>2, <2>1, PrincipalAuthority DEF Resolve
<1>3. ASSUME NEW at \in {"idle", "email", "link", "resolve"}, NEW s, NEW link, NEW read, NEW by,
             Become(r, at, s, link, read, by)
      PROVE  AuthorityInv'
  BY <1>3, BecomeAuthority
<1>4. ASSUME NEW t \in Tenants, NEW token \in Tokens, BeginToken(r, t, token)
      PROVE  AuthorityInv'
  <2>1. \E at \in {"resolve", "email"} : \E s, link, read, by : Become(r, at, s, link, read, by)
    BY <1>4 DEF BeginToken
  <2> QED BY <1>3, <2>1
<1>5. CASE ReadByEmail(r) \/ Link(r)
  <2>1. \E at \in {"idle", "email", "link", "resolve"} :
            \E s, link, read, by : Become(r, at, s, link, read, by)
    BY <1>5 DEF ReadByEmail, Link, Continue, Fail
  <2> QED BY <1>3, <2>1
<1> QED BY <1>1, <1>2, <1>4, <1>5 DEF Authenticate

LEMMA CommitAuthority ==
    ASSUME TypeInv, AuthorityInv, NEW r \in Requests, NEW permission, NEW h,
           req[r].at \in {"handle", "revoke"}, Can(r, permission), Commit(r, permission, h),
           GrantsKeep
    PROVE  AuthorityInv'
<1>1. PICK n, e : Appends(n, e) /\ e.action = permission /\ e.by = req[r].by
  BY CommitAppends
<1>2. Len(audit') = Len(audit) + 1
  BY DEF Commit, TypeInv, TypeOK
<1>3. \A q \in Requests : req'[q].at \in {"handle", "revoke"} => q # r /\ req'[q] = req[q]
  BY DEF Commit, TypeInv, TypeOK, Idle
<1>4. ASSUME NEW q \in Requests, req'[q].at \in {"handle", "revoke"}
      PROVE  /\ Founded(req[q].by)'
             /\ req'[q].at = "revoke" => Can(q, "access_grant:revoke")'
  <2>1. PICK by : /\ by = req'[q].by /\ Founded(by)
                  /\ req'[q].at = "revoke" => {"*", "access_grant:revoke"} \cap by.permissions # {}
    BY <1>3, <1>4 DEF AuthorityInv, Can
  <2>2. Founded(by)'
    BY <1>1, <1>2, <2>1, FoundedStays
  <2>3. Founded(req[q].by)'
    BY <2>1, <2>2 DEF Founded, Backs
  <2> QED BY <2>1, <2>3 DEF Can
<1>5. ASSUME NEW m \in DOMAIN audit'
      PROVE  Founded(audit[m].by)' /\ {"*", audit'[m].action} \cap audit'[m].by.permissions # {}
  <2>1. CASE m = n
    <3>1. PICK by : by = req[r].by /\ by = audit'[m].by /\ Founded(by)
      BY <1>1, <2>1 DEF AuthorityInv, Appends
    <3>2. Founded(by)'
      BY <1>1, <1>2, <3>1, FoundedStays
    <3>3. Founded(audit[m].by)'
      BY <3>1, <3>2 DEF Founded, Backs
    <3>4. audit'[m].action = permission
      BY <1>1, <2>1 DEF Appends
    <3> QED BY <3>1, <3>3, <3>4 DEF Can
  <2>2. CASE m # n
    <3>1. m \in DOMAIN audit /\ audit'[m] = audit[m]
      BY <1>1, <1>5, <2>2 DEF Appends
    <3>2. PICK by : by = audit[m].by /\ by = audit'[m].by /\ Founded(by)
      BY <3>1 DEF AuthorityInv
    <3>3. Founded(by)'
      BY <1>1, <1>2, <3>2, FoundedStays
    <3>4. Founded(audit[m].by)'
      BY <3>2, <3>3 DEF Founded, Backs
    <3> QED BY <3>1, <3>4 DEF AuthorityInv
  <2> QED BY <2>1, <2>2
<1> QED BY <1>4, <1>5 DEF AuthorityInv

LEMMA HandleAuthority ==
    ASSUME TypeInv, AuthorityInv, NEW r \in Requests, Handle(r) PROVE AuthorityInv'
<1>1. ASSUME NEW g \in Grants, NEW terms \in Payloads, CreateGrant(r, g, terms)
      PROVE  AuthorityInv'
  <2>1. /\ req[r].at = "handle" /\ Can(r, "access_grant:create")
        /\ Commit(r, "access_grant:create", g)
    BY <1>1 DEF CreateGrant
  <2> QED BY <1>1, <2>1, CreateGrantKeeps, CommitAuthority
<1>2. ASSUME NEW g \in Grants, LoadGrant(r, g) PROVE AuthorityInv'
  <2> DEFINE x == [at |-> "revoke", subject |-> req[r].subject, link |-> req[r].link,
                   read |-> req[r].read, by |-> req[r].by, grant |-> g,
                   revoker |-> grants[g].revoker]
  <2>1. x.by = req[r].by
    OBVIOUS
  <2>2. /\ req[r].at = "handle" /\ audit' = audit /\ grants' = grants
        /\ req' = [req EXCEPT ![r] = x]
        /\ {"*", "access_grant:revoke"} \cap req[r].by.permissions # {}
    BY <1>2 DEF LoadGrant, Can
  <2> HIDE DEF x
  <2>3. Founded(req[r].by)
    BY <2>2 DEF AuthorityInv
  <2> QED BY <2>1, <2>2, <2>3, QuietAuthority
<1>3. CASE CommitRevoke(r)
  <2>1. req[r].at = "revoke" /\ Commit(r, "access_grant:revoke", req[r].grant)
    BY <1>3 DEF CommitRevoke, RevokeTo
  <2>2. Can(r, "access_grant:revoke")
    BY <2>1 DEF AuthorityInv
  <2> QED BY <1>3, <2>1, <2>2, RevokeKeeps, CommitAuthority
<1>4. ASSUME NEW permission \in Work, CommitWork(r, permission) PROVE AuthorityInv'
  <2>1. /\ req[r].at = "handle" /\ Can(r, permission)
        /\ Commit(r, permission, None) /\ grants' = grants
    BY <1>4 DEF CommitWork
  <2>2. GrantsKeep
    BY <2>1 DEF GrantsKeep
  <2> QED BY <2>1, <2>2, CommitAuthority
<1>5. CASE End(r)
  BY <1>5, BecomeAuthority DEF End, Fail
<1> QED BY <1>1, <1>2, <1>3, <1>4, <1>5 DEF Handle

LEMMA AuthorityStep ==
    TypeInv /\ LogInv /\ AuthorityInv /\ [Next]_vars => AuthorityInv'
<1> SUFFICES ASSUME TypeInv, LogInv, AuthorityInv, [Next]_vars PROVE AuthorityInv'
  OBVIOUS
<1>1. ASSUME NEW r \in Requests, Authenticate(r) PROVE AuthorityInv'
  BY <1>1, AuthenticateAuthority
<1>2. ASSUME NEW r \in Requests, Handle(r) PROVE AuthorityInv'
  BY <1>2, HandleAuthority
<1>3. CASE UNCHANGED <<subject, grants, audit, req>>
  <2>1. ASSUME NEW q \in Requests, req'[q].at \in {"handle", "revoke"}
        PROVE  /\ Founded(req[q].by)'
               /\ req'[q].at = "revoke" => Can(q, "access_grant:revoke")'
    <3>1. PICK by : by = req[q].by /\ Founded(by)
      BY <1>3, <2>1 DEF AuthorityInv
    <3>2. Founded(by)'
      BY <1>3, <3>1, FoundationSeen
    <3>3. Founded(req[q].by)'
      BY <1>3, <3>1, <3>2 DEF Founded, Backs
    <3> QED BY <1>3, <2>1, <3>3 DEF AuthorityInv, Can
  <2>2. ASSUME NEW n \in DOMAIN audit'
        PROVE  Founded(audit[n].by)' /\ {"*", audit'[n].action} \cap audit'[n].by.permissions # {}
    <3>1. PICK by : by = audit[n].by /\ Founded(by)
      BY <1>3, <2>2 DEF AuthorityInv
    <3>2. Founded(by)'
      BY <1>3, <3>1, FoundationSeen
    <3>3. Founded(audit[n].by)'
      BY <1>3, <3>1, <3>2 DEF Founded, Backs
    <3> QED BY <1>3, <2>2, <3>3 DEF AuthorityInv
  <2> QED BY <2>1, <2>2 DEF AuthorityInv
<1> QED BY <1>1, <1>2, <1>3 DEF Next, Tick, vars

(* get_principal, require_permission and the handlers: whatever was        *)
(* revoked, expired or linked meanwhile, each commit was allowed when its  *)
(* request was resolved.                                                   *)
THEOREM ActsStayAuthorised == Spec => []ActsAreAuthorised
<1>1. Init => AuthorityInv
  BY DEF Init, AuthorityInv, Idle
<1>2. TypeInv /\ AuthorityInv => ActsAreAuthorised
  <2> SUFFICES ASSUME AuthorityInv, NEW n \in DOMAIN audit
               PROVE  LET e == audit[n]
                      IN IF Member(e.by.tenant, e.by.actor)
                         THEN {"*", e.action} \cap Memberships[e.by.tenant][e.by.actor] # {}
                         ELSE \E g \in Grants : grants[g].status # "absent" /\ Allows(g, e)
    BY DEF ActsAreAuthorised
  <2>1. Founded(audit[n].by) /\ {"*", audit[n].action} \cap audit[n].by.permissions # {}
    BY DEF AuthorityInv
  <2>2. CASE Member(audit[n].by.tenant, audit[n].by.actor)
    BY <2>1, <2>2 DEF Founded
  <2>3. CASE ~Member(audit[n].by.tenant, audit[n].by.actor)
    <3>1. PICK p \in {"*", audit[n].action} : p \in audit[n].by.permissions
      BY <2>1
    <3>2. PICK g \in Grants : /\ Backs(g, audit[n].by)
                              /\ p \in grants[g].terms.permissions
      BY <2>1, <2>3, <3>1 DEF Founded
    <3>3. Allows(g, audit[n]) /\ grants[g].status # "absent"
      BY <3>1, <3>2 DEF Backs, Allows
    <3> QED BY <2>3, <3>3
  <2> QED BY <2>2, <2>3
<1> QED BY <1>1, <1>2, AuthorityStep, TypeInvHolds, LogInvHolds, PTL DEF Spec

=============================================================================
