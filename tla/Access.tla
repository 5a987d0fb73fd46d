------------------------------- MODULE Access -------------------------------
(***************************************************************************)
(* Who may do what: get_principal of api/deps.py with resolve_oidc_actor   *)
(* of auth.py and resolve_principal of security.py, and the handlers of    *)
(* main.py that create and revoke access grants.                           *)
(*                                                                         *)
(* A request finds the identity behind its credentials, which may link a   *)
(* token's subject to an identity, then reads what that identity may do in *)
(* the tenant of its header, and acts on this until it commits, whatever   *)
(* other requests commit meanwhile.  A link is flushed at once and holds   *)
(* the row and the entry of its unique index until the request ends; only  *)
(* a request that commits keeps it.                                        *)
(*                                                                         *)
(* A definition that stands right before another of the same parameters,   *)
(* and whose name continues the other's, is a plausible mistake in it.     *)
(***************************************************************************)
EXTENDS Naturals, Sequences, FiniteSets

CONSTANTS
    Identities,    \* rows of table user_identities
    Active,        \* those that are active
    Subjects,      \* subjects of the OIDC issuer
    Tenants, Projects, Locations,
    Parent,        \* Parent[l]: the parent of location l, or None
    Memberships,   \* Memberships[t][i]: permissions of member i of tenant t
    Permissions,   \* what memberships and grants may list
    Work,          \* permissions of the operations of other modules
    Payloads,      \* bodies of create_access_grant
    Grants,        \* rows of table access_grants, stored or not
    Tokens,        \* verified tokens: subject, identity of the verified email, tenant
    Scopes,        \* the projects and locations that requests name, either of them None
    AuthMode, DemoMode, EmailLinking,   \* auth_mode, demo_mode, oidc_allow_verified_email_linking
    Requests,
    MaxEvents,     \* bound on the audit log
    MaxTime,       \* bound on the clock
    None

Times == 0 .. MaxTime

Payload == [subject : Identities \cup {None}, project : Projects,
            location : Locations \cup {None}, permissions : SUBSET Permissions,
            starts : Times \cup {None}, expires : Times \cup {None}]

ASSUME TokensAreTokens ==
    Tokens \subseteq [subject : Subjects, email : Identities \cup {None}, tenant : Tenants \cup {None}]
ASSUME ScopesAreScopes ==
    Scopes \subseteq [project : Projects \cup {None}, location : Locations \cup {None}]
ASSUME PayloadsArePayloads == Payloads \subseteq Payload
ASSUME MembersAreActors ==
    \A t \in Tenants : \A i \in DOMAIN Memberships[t] :
        i \in Identities /\ Memberships[t][i] \subseteq Permissions
ASSUME PermissionsAreListed ==
    {"access_grant:create", "access_grant:revoke"} \cup Work \subseteq Permissions
ASSUME ParentsAreLocations ==
    IsFiniteSet(Locations) /\ Parent \in [Locations -> Locations \cup {None}]
ASSUME BoundsAreNumbers == MaxTime \in Nat /\ MaxEvents \in Nat
ASSUME NoneIsNothing ==
    None \notin Identities \cup Subjects \cup Tenants \cup Locations \cup Projects \cup Grants

VARIABLES
    subject,   \* subject[i]: the committed oidc_subject of identity i
    grants,    \* committed rows of table access_grants
    audit,     \* committed events, in commit order (timestamps may differ)
    now,       \* the clock
    req        \* req[r]: how far request r is

vars == <<subject, grants, audit, now, req>>

----------------------------------------------------------------------------
(* Rows and requests                                                       *)

GrantRow == [status : {"absent", "active", "revoked"}, tenant : Tenants \cup {None},
             terms : Payload \cup {None}, approver : Identities \cup {None},
             revoker : Identities \cup {None}]
NoGrant == [status |-> "absent", tenant |-> None, terms |-> None, approver |-> None,
            revoker |-> None]

(* Whose authority an event or a request has.  began and when are no part  *)
(* of the code: the length of audit and the time when the request was    *)
(* resolved.  They, and the scope, are kept of those who come by grants.   *)
Authority == [actor : Identities \cup {None}, tenant : Tenants \cup {None},
              project : Projects \cup {None}, location : Locations \cup {None},
              permissions : SUBSET Permissions, began : Nat, when : Times]
As(i, t, permissions) ==
    [actor |-> i, tenant |-> t, project |-> None, location |-> None,
     permissions |-> permissions, began |-> 0, when |-> 0]
Nobody == As(None, None, {})

(* link: the identity linked by the commit of the event.                   *)
Event == [action : Permissions, grant : Grants \cup {None}, by : Authority,
          link : Identities \cup {None}]

(* link: the identity that the request has linked to subject, uncommitted; *)
(* read: the length of audit when it read that identity, no part of the  *)
(* code; grant, revoker: the grant it has loaded, and its revoked_by.      *)
Request == [at : {"idle", "email", "link", "resolve", "handle", "revoke"},
            subject : Subjects \cup {None}, link : Identities \cup {None},
            read : Nat, by : Authority, grant : Grants \cup {None}, revoker : Identities \cup {None}]
Idle == [at |-> "idle", subject |-> None, link |-> None, read |-> 0, by |-> Nobody,
         grant |-> None, revoker |-> None]

TypeOK ==
    /\ subject \in [Identities -> Subjects \cup {None}]
    /\ grants \in [Grants -> GrantRow]
    /\ audit \in Seq(Event)
    /\ now \in Times
    /\ req \in [Requests -> Request]

Init ==
    /\ subject = [i \in Identities |-> None]
    /\ grants = [g \in Grants |-> NoGrant]
    /\ audit = <<>>
    /\ now = 0
    /\ req = [r \in Requests |-> Idle]

Become(r, at, s, link, read, by) ==
    /\ req' = [req EXCEPT ![r] = [at |-> at, subject |-> s, link |-> link, read |-> read,
                                  by |-> by, grant |-> None, revoker |-> None]]
    /\ UNCHANGED <<subject, grants, audit, now>>

Continue(r, at, link, read) == Become(r, at, req[r].subject, link, read, req[r].by)

(* The session closes; what was flushed, a link perhaps, is rolled back.   *)
Fail(r) == Become(r, "idle", None, None, 0, Nobody)

----------------------------------------------------------------------------
(* authenticate_actor and resolve_oidc_actor                               *)

LinkedTo(s) == { i \in Identities : subject[i] = s }

BeginToken(r, t, token) ==
    /\ req[r].at = "idle"
    /\ AuthMode # "demo"
    /\ token.tenant \in {None, t}
    /\ \/ \E i \in LinkedTo(token.subject) \cap Active :
            Become(r, "resolve", token.subject, None, 0, As(i, t, {}))
       \/ /\ LinkedTo(token.subject) = {}
          /\ EmailLinking /\ token.email # None
          /\ Become(r, "email", token.subject, None, 0, As(token.email, t, {}))

(* The select by email comes after the select by subject.                  *)
ReadByEmailAnyway(r) == req[r].at = "email" /\ Continue(r, "link", None, Len(audit))
ReadByEmail(r) ==
    /\ req[r].at = "email"
    /\ LET owner == subject[req[r].by.actor]
       IN IF owner = None THEN Continue(r, "link", None, Len(audit))
          ELSE IF owner = req[r].subject THEN Continue(r, "resolve", None, 0)
          ELSE Fail(r)

(* Another request has updated the row, or entered the subject, and has    *)
(* not ended.                                                              *)
Waiting(r) ==
    \E q \in Requests \ {r} :
        req[q].link # None /\ (req[q].link = req[r].by.actor \/ req[q].subject = req[r].subject)

(* The flush of the link.                                                  *)
LinkUnchecked(r) == req[r].at = "link" /\ Continue(r, "resolve", req[r].by.actor, req[r].read)
Link(r) ==
    /\ req[r].at = "link"
    /\ ~Waiting(r)
    /\ IF LinkedTo(req[r].subject) \subseteq {req[r].by.actor}
       THEN Continue(r, "resolve", req[r].by.actor, req[r].read) ELSE Fail(r)

----------------------------------------------------------------------------
(* resolve_principal                                                       *)

(* The walk of is_descendant_or_self up the parents of candidate.          *)
Descends(candidate, scope) ==
    LET Walk[at \in (Locations \cup {None}) \X SUBSET Locations] ==
            LET l == at[1]
                visited == at[2]
            IN /\ l # None /\ l \notin visited
               /\ l = scope \/ Walk[<<Parent[l], visited \cup {l}>>]
    IN Walk[<<candidate, {}>>]

Member(t, i) == i \in DOMAIN Memberships[t]

(* The terms of a grant allow identity i this scope, now.                  *)
Covers(terms, i, scope) ==
    /\ terms.subject = i /\ terms.project = scope.project
    /\ terms.starts = None \/ terms.starts <= now
    /\ terms.expires = None \/ terms.expires > now
    /\ terms.location = None \/ Descends(scope.location, terms.location)

ApplicableRevoked(t, i, scope) ==
    { g \in Grants : grants[g].status # "absent" /\ grants[g].tenant = t /\ Covers(grants[g].terms, i, scope) }
ApplicableElsewhere(t, i, scope) ==
    { g \in Grants : grants[g].status = "active" /\ Covers(grants[g].terms, i, scope) }
Applicable(t, i, scope) ==
    { g \in Grants : grants[g].status = "active" /\ grants[g].tenant = t /\ Covers(grants[g].terms, i, scope) }

Delegation(t, i, scope, applicable) ==
    [actor |-> i, tenant |-> t, project |-> scope.project, location |-> scope.location,
     permissions |-> UNION { grants[g].terms.permissions : g \in applicable },
     began |-> Len(audit), when |-> now]

(* An inactive identity that came by email is turned away in code right    *)
(* after the flush of its link, with the same effect.                      *)
Principal(r, s, link, read, t, i, scope) ==
    LET applicable == Applicable(t, i, scope)
    IN IF i \in Active /\ Member(t, i)
       THEN Become(r, "handle", s, link, read, As(i, t, Memberships[t][i]))
       ELSE IF i \in Active /\ applicable # {}
       THEN Become(r, "handle", s, link, read, Delegation(t, i, scope, applicable))
       ELSE Fail(r)

BeginHeader(r, t, i, scope) ==
    /\ req[r].at = "idle"
    /\ AuthMode # "oidc" /\ DemoMode
    /\ Principal(r, None, None, 0, t, i, scope)

Resolve(r, scope) ==
    /\ req[r].at = "resolve"
    /\ Principal(r, req[r].subject, req[r].link, req[r].read, req[r].by.tenant, req[r].by.actor, scope)

----------------------------------------------------------------------------
(* Handlers                                                                *)

(* require_permission *)
Can(r, permission) == {"*", permission} \cap req[r].by.permissions # {}

(* The commit keeps the link, if there is one, with what the handler does. *)
Commit(r, permission, g) ==
    /\ Len(audit) < MaxEvents
    /\ audit' = Append(audit, [action |-> permission, grant |-> g, by |-> req[r].by,
                               link |-> req[r].link])
    /\ subject' = [i \in Identities |-> IF i = req[r].link THEN req[r].subject ELSE subject[i]]
    /\ req' = [req EXCEPT ![r] = Idle]
    /\ UNCHANGED now

CreateGrant(r, g, terms) ==
    /\ req[r].at = "handle"
    /\ Can(r, "access_grant:create")
    /\ grants[g].status = "absent"
    /\ grants' = [grants EXCEPT ![g] =
                    [status |-> "active", tenant |-> req[r].by.tenant, terms |-> terms,
                     approver |-> req[r].by.actor, revoker |-> None]]
    /\ Commit(r, "access_grant:create", g)

(* The session sees the rows of its tenant only (_tenant_filter, and the   *)
(* row policies of the database).                                          *)
SeesAll(r, g) == grants[g].status # "absent"
Sees(r, g) == grants[g].status # "absent" /\ grants[g].tenant = req[r].by.tenant

LoadGrant(r, g) ==
    /\ req[r].at = "handle"
    /\ Can(r, "access_grant:revoke")
    /\ Sees(r, g)
    /\ req' = [req EXCEPT ![r] =
                 [at |-> "revoke", subject |-> req[r].subject, link |-> req[r].link,
                  read |-> req[r].read, by |-> req[r].by, grant |-> g, revoker |-> grants[g].revoker]]
    /\ UNCHANGED <<subject, grants, audit, now>>

(* The UPDATE has the columns whose value is not the one loaded.           *)
RevokerWritten(r) ==
    IF req[r].by.actor = req[r].revoker THEN grants[req[r].grant].revoker
    ELSE req[r].by.actor

RevokeTo(status, r) ==
    LET g == req[r].grant
    IN /\ req[r].at = "revoke"
       /\ grants' = [grants EXCEPT ![g] =
                       [status |-> status, tenant |-> grants[g].tenant,
                        terms |-> grants[g].terms, approver |-> grants[g].approver,
                        revoker |-> RevokerWritten(r)]]
       /\ Commit(r, "access_grant:revoke", g)
CommitRevoke(r) == RevokeTo("revoked", r)

(* An operation of another module, which needs a permission of its own.    *)
CommitWork(r, permission) ==
    /\ req[r].at = "handle"
    /\ Can(r, permission)
    /\ Commit(r, permission, None)
    /\ UNCHANGED grants

(* A request that only reads, one that is refused, one that breaks off.    *)
End(r) == req[r].at # "idle" /\ Fail(r)

Tick ==
    /\ now < MaxTime
    /\ now' = now + 1
    /\ UNCHANGED <<subject, grants, audit, req>>

Authenticate(r) ==
    \/ \E t \in Tenants, i \in Identities, scope \in Scopes : BeginHeader(r, t, i, scope)
    \/ \E t \in Tenants, token \in Tokens : BeginToken(r, t, token)
    \/ ReadByEmail(r)
    \/ Link(r)
    \/ \E scope \in Scopes : Resolve(r, scope)

Handle(r) ==
    \/ \E g \in Grants, terms \in Payloads : CreateGrant(r, g, terms)
    \/ \E g \in Grants : LoadGrant(r, g)
    \/ CommitRevoke(r)
    \/ \E permission \in Work : CommitWork(r, permission)
    \/ End(r)

Next ==
    \/ \E r \in Requests : Authenticate(r) \/ Handle(r)
    \/ Tick

Spec == Init /\ [][Next]_vars

----------------------------------------------------------------------------
(* Properties                                                              *)

Created(g) == { n \in DOMAIN audit : audit[n].action = "access_grant:create" /\ audit[n].grant = g }
Revoked(g) == { n \in DOMAIN audit : audit[n].action = "access_grant:revoke" /\ audit[n].grant = g }

(* location is scope or lies somewhere below it.                           *)
Within(location, scope) ==
    /\ location # None
    /\ \A S \in SUBSET Locations :
         /\ location \in S
         /\ \A l \in S : Parent[l] \in S \cup {None}
         => scope \in S

(* Grant g allows what event e did.                                        *)
Allows(g, e) ==
    LET terms == grants[g].terms
    IN /\ \E n \in Created(g) : n <= e.by.began
       /\ \A n \in Revoked(g) : n > e.by.began
       /\ grants[g].tenant = e.by.tenant
       /\ terms.subject = e.by.actor /\ terms.project = e.by.project
       /\ terms.location = None \/ Within(e.by.location, terms.location)
       /\ terms.starts = None \/ terms.starts <= e.by.when
       /\ terms.expires = None \/ terms.expires > e.by.when
       /\ {"*", e.action} \cap terms.permissions # {}

(* Whatever was revoked, expired or linked while it ran, each committed    *)
(* request was allowed when it was resolved: to a member of its tenant, or *)
(* by one grant that the log shows created and not yet revoked at that     *)
(* time, for its actor, tenant, project and location.                      *)
(* (security.py 42-126, main.py 616-672)                                   *)
ActsAreAuthorised ==
    \A n \in DOMAIN audit :
        LET e == audit[n]
        IN IF Member(e.by.tenant, e.by.actor)
           THEN {"*", e.action} \cap Memberships[e.by.tenant][e.by.actor] # {}
           ELSE \E g \in Grants : grants[g].status # "absent" /\ Allows(g, e)

(* Authority in a tenant comes from its members: whoever acts there is one *)
(* or has a grant from somebody whose authority does, through however many *)
(* grants.  (security.py 68-107, main.py 622-628)                          *)
Entrusted(t, S) ==
    /\ { i \in Identities : Member(t, i) } \subseteq S
    /\ \A g \in Grants : grants[g].status # "absent" /\ grants[g].tenant = t
                            /\ grants[g].approver \in S => grants[g].terms.subject \in S \cup {None}
TrustIsRooted ==
    \A n \in DOMAIN audit : \A S \in SUBSET Identities :
        Entrusted(audit[n].by.tenant, S) => audit[n].by.actor \in S

(* A subject is linked to one identity, although requests look for the     *)
(* subject and for the email before they link.  (auth.py 178-190)          *)
LinksAreUnique ==
    \A i, j \in Identities : subject[i] # None /\ subject[i] = subject[j] => i = j

(* A grant is revoked when the log says so, by somebody of its own tenant, *)
(* and names one who revoked it, also when several do at once.             *)
(* (main.py 649-672, db.py 39-52)                                          *)
RevocationsAreLogged ==
    \A g \in Grants :
        /\ grants[g].status = "revoked" <=> Revoked(g) # {}
        /\ grants[g].revoker # None => \E n \in Revoked(g) : audit[n].by.actor = grants[g].revoker
        /\ \A n \in Created(g) \cup Revoked(g) : audit[n].by.tenant = grants[g].tenant
        /\ Cardinality(Created(g)) = (IF grants[g].status = "absent" THEN 0 ELSE 1)

(* A committed link to one subject gives way to another only where the two *)
(* overlapped: the commit that overwrites it is by a request that read the *)
(* identity before that link was committed.  (auth.py 183-190)             *)
LinksStay ==
    [][\A r \in Requests : LET i == req[r].link
         IN /\ i # None
            /\ subject[i] \notin {None, req[r].subject}
            /\ subject'[i] = req[r].subject
            => \E n \in DOMAIN audit : n > req[r].read /\ audit[n].link = i]_vars

=============================================================================
