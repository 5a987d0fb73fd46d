---------------------------- MODULE Provisioning ----------------------------
(***************************************************************************)
(* How tenants come to be: the handler bootstrap_tenant of main.py and the *)
(* program seed.py, while demo_context and other seeds look for what a     *)
(* seed made, and a member of the demo tenant already uses the API.        *)
(*                                                                         *)
(* A job is one run of one of them, in a session of its own under READ     *)
(* COMMITTED.  It inserts rows in an order fixed by its code; each has an  *)
(* entry in a unique index, for which the insert waits while another job   *)
(* holds it uncommitted, and over which it fails when it is committed.  A  *)
(* seed commits twice: the tenants with their people, then the site.       *)
(* Entries are names; the row of an entry is known by the job that         *)
(* inserted it, which is also what its id stands for.                      *)
(*                                                                         *)
(* A definition that stands right before another of the same parameters,   *)
(* and whose name continues the other's, is a plausible mistake in it.     *)
(***************************************************************************)
EXTENDS Naturals, Sequences, FiniteSets

CONSTANTS
    Jobs,          \* runs of seed.py, of bootstrap_tenant, demo_context, ...
    OtherEmails,   \* owners of tenants beside the demo's
    OtherSlugs,    \* slugs of tenants beside the demo's
    Created,       \* identifiers of the site that a member creates as well
    None           \* an SQL NULL, a Python None, the text ""

ASSUME NoneIsNoJob == None \notin Jobs

----------------------------------------------------------------------------
(* What the seed inserts, in its order.  Of each part of the site the one  *)
(* identifier that is looked up later stands for all (tina is as sam).     *)

DemoEmails == <<"alice", "sam", "contoso_owner">>
DemoSlugs == <<"northstar", "contoso">>

TenantsFirst == DemoSlugs \o DemoEmails
Tenants == DemoEmails \o DemoSlugs

Places == <<"room">>
Contract == <<"project">>
Equipment == <<"rack">>
Pathways == <<"tray">>
Links == <<"cable">>
Work == <<"work_order">>
Site == Places \o Contract \o Equipment \o Pathways \o Links \o Work

Elements(s) == { s[n] : n \in DOMAIN s }
Emails == Elements(DemoEmails) \cup OtherEmails
Slugs == Elements(DemoSlugs) \cup OtherSlugs
Entries == Emails \cup Slugs \cup Elements(Site)

ASSUME NamesDiffer ==
    /\ OtherEmails \cap OtherSlugs = {}
    /\ (OtherEmails \cup OtherSlugs) \cap Elements(Tenants \o Site) = {}

ASSUME NoneIsNoEntry == None \notin Entries

(* Members cannot take the project or the work order of the site.  No      *)
(* handler creates a project.  POST /work-orders does create work orders,  *)
(* under a number of the member's choice that is unique in the tenant, but *)
(* only for a project, and the seed, the one code that makes projects,     *)
(* commits its project and its work order together.                        *)
ASSUME CreatedByApi == Created \subseteq Elements(Places \o Equipment \o Pathways \o Links)

(* What seed and demo_context look up for their answer, in this order,     *)
(* once they have found the tenant.                                        *)
LookedUp == <<"alice", "sam", "rack", "cable", "work_order", "project", "room">>
AnswerKeys == {"northstar"} \cup Elements(LookedUp)

VARIABLES
    stored,      \* stored[e]: the job that committed entry e, None without a row
    profiles,    \* committed global profiles TIA-606 D, by the job that made them
    profileOf,   \* profileOf[s]: active_standard_profile_id of tenant s
    members,     \* committed rows of table tenant_memberships
    job          \* job[j]: what job j does, and how far it is

vars == <<stored, profiles, profileOf, members, job>>

----------------------------------------------------------------------------
(* "tenant", "profile": about to select it; "insert": about to insert what *)
(* is left of todo, or to commit when nothing is; "look": about to look up *)
(* what is left of todo.  ready is no part of the code: whether the site   *)
(* was complete when the job began.                                        *)
Job == [kind : {"none", "seed", "bootstrap", "context", "create"},
        at : {"new", "tenant", "profile", "insert", "look", "done", "failed"},
        owner : Emails \cup {None}, slug : Slugs \cup {None},
        todo : Seq(Entries), written : SUBSET Entries,
        profile : Jobs \cup {None}, answer : [Entries -> Jobs \cup {None}],
        ready : BOOLEAN]

Blank == [e \in Entries |-> None]
New == [kind |-> "none", at |-> "new", owner |-> None, slug |-> None, todo |-> <<>>,
        written |-> {}, profile |-> None, answer |-> Blank, ready |-> FALSE]

Membership == [tenant : Slugs, user : Emails, role : {"owner", "manager"}]

TypeOK ==
    /\ stored \in [Entries -> Jobs \cup {None}]
    /\ profiles \subseteq Jobs
    /\ profileOf \in [Slugs -> Jobs \cup {None}]
    /\ members \subseteq Membership
    /\ job \in [Jobs -> Job]

Stored(e) == stored[e] # None
SiteIsComplete == \A e \in Elements(Site) : Stored(e)

Init ==
    /\ stored = Blank
    /\ profiles = {}
    /\ profileOf = [s \in Slugs |-> None]
    /\ members = {}
    /\ job = [j \in Jobs |-> New]

----------------------------------------------------------------------------
(* Jobs begin                                                              *)

Begin(j, kind, at, owner, slug, todo) ==
    /\ job[j].at = "new"
    /\ job' = [job EXCEPT ![j] =
                 [kind |-> kind, at |-> at, owner |-> owner, slug |-> slug, todo |-> todo,
                  written |-> {}, profile |-> None, answer |-> Blank,
                  ready |-> SiteIsComplete]]
    /\ UNCHANGED <<stored, profiles, profileOf, members>>

BeginSeed(j) == Begin(j, "seed", "tenant", "alice", "northstar", Tenants)

(* With the platform key and all fields.                                   *)
BeginBootstrap(j, email, slug) ==
    Begin(j, "bootstrap", "profile", email, slug, <<email, slug>>)

BeginContext(j) == Begin(j, "context", "tenant", None, None, <<>>)

(* A member of the demo tenant creates something that the seed also has.   *)
BeginCreate(j, e) ==
    /\ Stored("northstar")
    /\ Begin(j, "create", "insert", None, None, <<e>>)

----------------------------------------------------------------------------
(* Their statements                                                        *)

Set(j, at, todo, written, profile, answer) ==
    job' = [job EXCEPT ![j] =
              [kind |-> job[j].kind, at |-> at, owner |-> job[j].owner, slug |-> job[j].slug,
               todo |-> todo, written |-> written, profile |-> profile, answer |-> answer,
               ready |-> job[j].ready]]

(* An exception ends the job and rolls back what it has not committed.     *)
Fail(j) == Set(j, "failed", <<>>, {}, None, Blank)

Found(j) == [Blank EXCEPT !["northstar"] = stored["northstar"]]

FindTenant(j) ==
    /\ job[j].at = "tenant"
    /\ IF Stored("northstar") THEN Set(j, "look", LookedUp, {}, None, Found(j))
       ELSE IF job[j].kind = "seed" THEN Set(j, "profile", job[j].todo, {}, None, Blank)
       ELSE Fail(j)                             \* 404: the seed has not run
    /\ UNCHANGED <<stored, profiles, profileOf, members>>

(* The row that the database returns first, or a new one.                  *)
FindProfile(j) ==
    /\ job[j].at = "profile"
    /\ \E p \in IF profiles = {} THEN {j} ELSE profiles :
         Set(j, "insert", job[j].todo, {}, p, Blank)
    /\ UNCHANGED <<stored, profiles, profileOf, members>>

Upcoming(j) == job[j].todo[1]
Waits(j, i) ==
    /\ i # j
    /\ job[j].at = "insert" /\ job[j].todo # <<>>
    /\ Upcoming(j) \in job[i].written

(* The insert of a row with an entry that is committed fails.              *)
InsertOver(j) ==
    /\ job[j].at = "insert" /\ job[j].todo # <<>>
    /\ \A i \in Jobs : ~Waits(j, i)
    /\ Set(j, "insert", Tail(job[j].todo), job[j].written \cup {Upcoming(j)},
           job[j].profile, Blank)
    /\ UNCHANGED <<stored, profiles, profileOf, members>>
Insert(j) ==
    /\ job[j].at = "insert" /\ job[j].todo # <<>>
    /\ \A i \in Jobs : ~Waits(j, i)
    /\ IF Stored(Upcoming(j)) THEN Fail(j)
       ELSE Set(j, "insert", Tail(job[j].todo), job[j].written \cup {Upcoming(j)},
                job[j].profile, Blank)
    /\ UNCHANGED <<stored, profiles, profileOf, members>>

(* The memberships that are committed with the tenants of job j.           *)
NewMembersOfFirst(j) ==
    { [tenant |-> job[j].slug, user |-> job[j].owner, role |-> "owner"] }
NewMembers(j) ==
    { [tenant |-> job[j].slug, user |-> job[j].owner, role |-> "owner"] }
      \cup IF job[j].kind = "seed"
           THEN { [tenant |-> "northstar", user |-> "sam", role |-> "manager"],
                  [tenant |-> "contoso", user |-> "contoso_owner", role |-> "owner"] }
           ELSE {}

Committed(j) == [e \in Entries |-> IF e \in job[j].written THEN j ELSE stored[e]]

CommitTenants(j) ==
    /\ job[j].at = "insert" /\ job[j].todo = <<>>
    /\ job[j].slug \in job[j].written
    /\ stored' = Committed(j)
    /\ profiles' = profiles \cup {job[j].profile}
    /\ profileOf' = [s \in Slugs |-> IF s \in job[j].written THEN job[j].profile
                                     ELSE profileOf[s]]
    /\ members' = members \cup NewMembers(j)
    /\ IF job[j].kind = "seed" THEN Set(j, "insert", Site, {}, job[j].profile, Blank)
       ELSE Set(j, "done", <<>>, {}, job[j].profile,
                [e \in Entries |-> IF e \in job[j].written THEN j ELSE None])

(* The site of a seed, or the row of an API request.                       *)
CommitRows(j) ==
    /\ job[j].at = "insert" /\ job[j].todo = <<>>
    /\ job[j].slug \notin job[j].written
    /\ stored' = Committed(j)
    /\ Set(j, "done", <<>>, {}, job[j].profile,
           [e \in Entries |-> IF Committed(j)[e] = j THEN j ELSE None])
    /\ UNCHANGED <<profiles, profileOf, members>>

Look(j) ==
    /\ job[j].at = "look"
    /\ Set(j, IF Len(job[j].todo) = 1 THEN "done" ELSE "look", Tail(job[j].todo), {}, None,
           [job[j].answer EXCEPT ![Upcoming(j)] = stored[Upcoming(j)]])
    /\ UNCHANGED <<stored, profiles, profileOf, members>>

(* The process is killed, or its connection lost.                          *)
Die(j) ==
    /\ job[j].at \notin {"new", "done", "failed"}
    /\ Fail(j)
    /\ UNCHANGED <<stored, profiles, profileOf, members>>

----------------------------------------------------------------------------
Step(j) ==
    FindTenant(j) \/ FindProfile(j) \/ Insert(j) \/ CommitTenants(j) \/ CommitRows(j) \/ Look(j)

Next ==
    \E j \in Jobs :
       \/ BeginSeed(j)
       \/ \E email \in Emails, slug \in Slugs : BeginBootstrap(j, email, slug)
       \/ BeginContext(j)
       \/ \E e \in Created : BeginCreate(j, e)
       \/ Step(j)
       \/ Die(j)

Spec == Init /\ [][Next]_vars

----------------------------------------------------------------------------
(* Properties                                                              *)

(* A tenant is committed with an active profile that is committed and with *)
(* an owner that the same job made; a membership has both its ends; a user *)
(* or a profile is never left without the tenant it was made for, whatever *)
(* dies or fails halfway (bootstrap_tenant, the first commit of seed).     *)
TenantsAreWhole ==
    /\ \A s \in Slugs : Stored(s) =>
          /\ profileOf[s] \in profiles
          /\ \E m \in members : /\ m.tenant = s /\ m.role = "owner"
                               /\ stored[m.user] = stored[s]
    /\ \A m \in members : Stored(m.tenant) /\ Stored(m.user)
    /\ \A j \in profiles \cup { stored[e] : e \in Emails } :
          j # None => \E s \in Slugs : stored[s] = j

(* Among any jobs one waits for none of the others: the orders of inserts  *)
(* of seed.py, of bootstrap_tenant and of the API never make a circle.     *)
NoDeadlock ==
    \A D \in (SUBSET Jobs) \ {{}} : \E j \in D : \A i \in D : ~Waits(j, i)

(* What a run of seed or demo_context answered stays the row in the        *)
(* database, so that two runs never answer with different ids, however     *)
(* they overlapped; and a run that began when a site was complete, or that *)
(* made the demo tenant itself, answers with every id (changed and missing *)
(* in scripts/check-seed-idempotency.py).                                  *)
AnswersAgree ==
    \A j \in Jobs : job[j].at = "done" =>
        /\ \A e \in Entries : job[j].answer[e] # None => job[j].answer[e] = stored[e]
        /\ /\ job[j].kind \in {"seed", "context"}
           /\ job[j].ready \/ stored["northstar"] = j
           => \A e \in AnswerKeys : job[j].answer[e] # None

(* The seed is idempotent, as docs/deployment.md calls it: a seed that     *)
(* finds a tenant which a seed made answers with every id, as              *)
(* check-seed-idempotency.py demands of every two runs.                    *)
SeedIsIdempotent ==
    \A j \in Jobs : /\ job[j].kind = "seed" /\ job[j].at = "done"
                   /\ job[stored["northstar"]].kind = "seed"
                   => \A e \in AnswerKeys : job[j].answer[e] # None

=============================================================================
