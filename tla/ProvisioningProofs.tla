------------------------ MODULE ProvisioningProofs -------------------------
(***************************************************************************)
(* What holds of Provisioning for any number of jobs and any other         *)
(* tenants.                                                                *)
(***************************************************************************)
EXTENDS Provisioning, TLAPS

(* The order in which all jobs insert.                                     *)
Rank(e) ==
    IF e = "sam" THEN 2 ELSE IF e = "contoso_owner" THEN 3
    ELSE IF e \in Emails THEN 1
    ELSE IF e = "contoso" THEN 5 ELSE IF e \in Slugs THEN 4
    ELSE IF e = "room" THEN 6 ELSE IF e = "project" THEN 7 ELSE IF e = "rack" THEN 8
    ELSE IF e = "tray" THEN 9 ELSE IF e = "cable" THEN 10 ELSE 11

Rises(s) == \A m, n \in DOMAIN s : m < n => Rank(s[m]) < Rank(s[n])
InOrder(q) ==
    /\ Rises(q.todo)
    /\ \A e \in q.written, f \in Elements(q.todo) : Rank(e) < Rank(f)

TenantNames == {"alice", "sam", "contoso_owner", "northstar", "contoso"}
SiteNames == {"room", "project", "rack", "tray", "cable", "work_order"}

(* What a job has inserted, or will, before its next commit.               *)
Rest(q) == Elements(q.todo) \cup q.written

(* How far a job of each kind can be.                                      *)
Follows(q) ==
    /\ q.kind = "none" <=> q.at = "new"
    /\ q.kind = "seed" => q.owner = "alice" /\ q.slug = "northstar"
    /\ q.kind = "bootstrap" =>
         /\ q.owner \in Emails /\ q.slug \in Slugs
         /\ q.at \in {"profile", "insert", "done", "failed"}
    /\ q.kind = "create" => q.slug = None /\ q.at \in {"insert", "done", "failed"}
    /\ q.kind = "context" => q.at \in {"tenant", "look", "done", "failed"}
    /\ q.at \in {"profile", "insert"} => InOrder(q)
    /\ q.at = "tenant" /\ q.kind = "seed" => q.todo = Tenants
    /\ q.at = "profile" /\ q.kind = "seed" => q.todo = Tenants
    /\ q.at = "insert" /\ q.kind = "seed" => Rest(q) \in {TenantNames, SiteNames}
    /\ q.at \in {"profile", "insert"} /\ q.kind = "bootstrap" => Rest(q) = {q.owner, q.slug}
    /\ q.at = "insert" /\ q.kind = "create" => Rest(q) \subseteq Created
    /\ q.at # "insert" => q.written = {}

(* Nobody else has what a job holds uncommitted.                           *)
HoldsNew(j, q) ==
    \A e \in q.written : ~Stored(e) /\ \A i \in Jobs : i # j => e \notin job[i].written

(* A seed between its commits has all its tenants and people.              *)
SeedsSite(q) == q.kind = "seed" /\ q.at = "insert" /\ Rest(q) = SiteNames
CommitsOK(j, q) ==
    /\ SeedsSite(q) => \A e \in TenantNames : stored[e] = j
    /\ (\E e \in Entries : stored[e] = j) => SeedsSite(q) \/ q.at \in {"done", "failed"}
    /\ q.at = "insert" /\ q.kind \in {"seed", "bootstrap"} => q.profile \in profiles \cup {j}

IsStored(q) == \A e \in Entries : q.answer[e] # None => q.answer[e] = stored[e]
LooksOK(q) ==
    /\ q.ready => SiteIsComplete
    /\ q.at = "look" =>
         /\ q.kind \in {"seed", "context"} /\ q.todo # <<>>
         /\ Stored("northstar") /\ q.answer["northstar"] # None
         /\ IsStored(q)
         /\ q.ready =>
              \A e \in AnswerKeys : e \in Elements(q.todo) \/ q.answer[e] # None
AnswerOK(j, q) ==
    q.at = "done" =>
        /\ IsStored(q)
        /\ /\ q.kind \in {"seed", "context"}
           /\ q.ready \/ stored["northstar"] = j
           => \A e \in AnswerKeys : q.answer[e] # None

JobOK(j, q) ==
    Follows(q) /\ HoldsNew(j, q) /\ CommitsOK(j, q) /\ LooksOK(q) /\ AnswerOK(j, q)

(* A site has a project only if a seed made it, and so its people.         *)
SitesHavePeople == Stored("project") => Stored("alice") /\ Stored("sam")

Inv == /\ TypeOK /\ SitesHavePeople /\ TenantsAreWhole
       /\ \A j \in Jobs : JobOK(j, job[j])

----------------------------------------------------------------------------
(* Sequences of entries                                                    *)

LEMMA ConcatHasBoth ==
    ASSUME NEW S, NEW s \in Seq(S), NEW t \in Seq(S)
    PROVE  /\ s \o t \in Seq(S)
           /\ Elements(s \o t) = Elements(s) \cup Elements(t)
<1>1. /\ DOMAIN s = 1 .. Len(s) /\ DOMAIN t = 1 .. Len(t) /\ Len(s) \in Nat /\ Len(t) \in Nat
      /\ DOMAIN (s \o t) = 1 .. Len(s) + Len(t) /\ s \o t \in Seq(S)
  OBVIOUS
<1>2. /\ \A n \in 1 .. Len(s) : (s \o t)[n] = s[n]
      /\ \A n \in 1 .. Len(t) : (s \o t)[Len(s) + n] = t[n]
  BY <1>1
<1>3. \A n \in DOMAIN (s \o t) :
         n \in 1 .. Len(s) \/ \E k \in 1 .. Len(t) : n = Len(s) + k
  <2> TAKE n \in DOMAIN (s \o t)
  <2>1. n - Len(s) \in 1 .. Len(t) \/ n \in 1 .. Len(s)
    BY <1>1
  <2> QED
    BY <1>1, <2>1
<1>4. \A n \in 1 .. Len(s) : n \in DOMAIN (s \o t)
  BY <1>1
<1>5. \A n \in 1 .. Len(t) : Len(s) + n \in DOMAIN (s \o t)
  BY <1>1
<1>6. Elements(s \o t) \subseteq Elements(s) \cup Elements(t)
  BY <1>1, <1>2, <1>3 DEF Elements
<1>7. Elements(s) \cup Elements(t) \subseteq Elements(s \o t)
  BY <1>1, <1>2, <1>4, <1>5 DEF Elements
<1> QED
  BY <1>1, <1>6, <1>7

LEMMA RankIsSmall == \A e : Rank(e) \in 1 .. 11
BY DEF Rank

LEMMA DemoNames ==
    /\ Elements(DemoEmails) = {"alice", "sam", "contoso_owner"}
    /\ Elements(DemoSlugs) = {"northstar", "contoso"}
<1>1. DOMAIN DemoEmails = 1 .. 3 /\ DOMAIN DemoSlugs = 1 .. 2
  BY DEF DemoEmails, DemoSlugs
<1>2. 1 .. 3 = {1, 2, 3} /\ 1 .. 2 = {1, 2}
  OBVIOUS
<1> QED
  BY <1>1, <1>2 DEF Elements, DemoEmails, DemoSlugs

LEMMA TenantsHas ==
    /\ Tenants \in Seq(TenantNames) /\ DOMAIN Tenants = 1 .. 5
    /\ Tenants[1] = "alice" /\ Tenants[2] = "sam" /\ Tenants[3] = "contoso_owner"
    /\ Tenants[4] = "northstar" /\ Tenants[5] = "contoso"
    /\ Elements(Tenants) = TenantNames
<1>1. /\ DemoEmails \in Seq(TenantNames) /\ DemoSlugs \in Seq(TenantNames)
  BY DEF DemoEmails, DemoSlugs, TenantNames
<1>2. Tenants \in Seq(TenantNames)
  BY <1>1 DEF Tenants
<1>3. /\ Len(Tenants) = 5
      /\ Tenants[1] = "alice" /\ Tenants[2] = "sam" /\ Tenants[3] = "contoso_owner"
      /\ Tenants[4] = "northstar" /\ Tenants[5] = "contoso"
  BY DEF Tenants, DemoEmails, DemoSlugs
<1>4. DOMAIN Tenants = 1 .. 5 /\ 1 .. 5 = {1, 2, 3, 4, 5}
  BY <1>2, <1>3
<1> QED
  BY <1>2, <1>3, <1>4 DEF Elements, TenantNames

LEMMA SiteHas ==
    /\ Site \in Seq(SiteNames) /\ DOMAIN Site = 1 .. 6
    /\ Site[1] = "room" /\ Site[2] = "project" /\ Site[3] = "rack"
    /\ Site[4] = "tray" /\ Site[5] = "cable" /\ Site[6] = "work_order"
    /\ Elements(Site) = SiteNames
<1>1. /\ Places \in Seq(SiteNames) /\ Contract \in Seq(SiteNames)
      /\ Equipment \in Seq(SiteNames) /\ Pathways \in Seq(SiteNames)
      /\ Links \in Seq(SiteNames) /\ Work \in Seq(SiteNames)
  BY DEF SiteNames, Places, Contract, Equipment, Pathways, Links, Work
<1>2. Site \in Seq(SiteNames)
  BY <1>1 DEF Site
<1>3. /\ Len(Site) = 6
      /\ Site[1] = "room" /\ Site[2] = "project" /\ Site[3] = "rack"
      /\ Site[4] = "tray" /\ Site[5] = "cable" /\ Site[6] = "work_order"
  BY DEF Site, Places, Contract, Equipment, Pathways, Links, Work
<1>4. DOMAIN Site = 1 .. 6 /\ 1 .. 6 = {1, 2, 3, 4, 5, 6}
  BY <1>2, <1>3
<1> QED
  BY <1>2, <1>3, <1>4 DEF Elements, SiteNames

(* What the API creates as well.                                           *)
LEMMA ApiHas ==
    Elements(Places \o Equipment \o Pathways \o Links) = {"room", "rack", "tray", "cable"}
<1> DEFINE s == Places \o Equipment \o Pathways \o Links
<1>1. /\ Places \in Seq(SiteNames) /\ Equipment \in Seq(SiteNames)
      /\ Pathways \in Seq(SiteNames) /\ Links \in Seq(SiteNames)
  BY DEF SiteNames, Places, Equipment, Pathways, Links
<1>2. s \in Seq(SiteNames)
  BY <1>1
<1>3. Len(s) = 4 /\ s[1] = "room" /\ s[2] = "rack" /\ s[3] = "tray" /\ s[4] = "cable"
  BY DEF Places, Equipment, Pathways, Links
<1> HIDE DEF s
<1>4. DOMAIN s = 1 .. 4 /\ 1 .. 4 = {1, 2, 3, 4}
  BY <1>2, <1>3
<1>5. Elements(s) = {"room", "rack", "tray", "cable"}
  BY <1>3, <1>4 DEF Elements
<1> QED
  BY <1>5 DEF s

(* The kinds of entries, and their places in the order of inserts.         *)
LEMMA Kinds ==
    /\ Emails = {"alice", "sam", "contoso_owner"} \cup OtherEmails
    /\ Slugs = {"northstar", "contoso"} \cup OtherSlugs
    /\ Entries = Emails \cup Slugs \cup SiteNames
    /\ Emails \cap Slugs = {} /\ (Emails \cup Slugs) \cap SiteNames = {}
    /\ TenantNames \subseteq Emails \cup Slugs
    /\ Created \subseteq {"room", "rack", "tray", "cable"}
<1>1. /\ Emails = {"alice", "sam", "contoso_owner"} \cup OtherEmails
      /\ Slugs = {"northstar", "contoso"} \cup OtherSlugs
      /\ Entries = Emails \cup Slugs \cup SiteNames
  BY DemoNames, SiteHas DEF Emails, Slugs, Entries
<1>2. Elements(Tenants \o Site) = TenantNames \cup SiteNames
  <2>1. Tenants \in Seq(TenantNames \cup SiteNames) /\ Site \in Seq(TenantNames \cup SiteNames)
    BY TenantsHas, SiteHas
  <2> QED
    BY <2>1, ConcatHasBoth, TenantsHas, SiteHas
<1>3. /\ OtherEmails \cap OtherSlugs = {}
      /\ (OtherEmails \cup OtherSlugs) \cap (TenantNames \cup SiteNames) = {}
  BY <1>2, NamesDiffer
<1>4. Emails \cap Slugs = {} /\ (Emails \cup Slugs) \cap SiteNames = {}
  BY <1>1, <1>3 DEF TenantNames, SiteNames
<1> QED
  BY <1>1, <1>4, CreatedByApi, ApiHas DEF TenantNames

LEMMA Ranks ==
    /\ Rank("alice") = 1 /\ Rank("sam") = 2 /\ Rank("contoso_owner") = 3
    /\ Rank("northstar") = 4 /\ Rank("contoso") = 5
    /\ Rank("room") = 6 /\ Rank("project") = 7 /\ Rank("rack") = 8 /\ Rank("tray") = 9
    /\ Rank("cable") = 10 /\ Rank("work_order") = 11
    /\ \A e \in Emails : Rank(e) <= 3
    /\ \A e \in Slugs : Rank(e) \in {4, 5}
<1>1. \A e \in SiteNames : e \notin Emails /\ e \notin Slugs
  BY Kinds
<1>2. "northstar" \notin Emails /\ "contoso" \notin Emails
  BY Kinds
<1>3. \A e \in Slugs : e # "sam" /\ e # "contoso_owner" /\ e \notin Emails
  BY Kinds
<1> QED
  BY <1>1, <1>2, <1>3, Kinds DEF Rank, SiteNames

LEMMA SeedsRise == Rises(Tenants) /\ Rises(Site)
<1>1. 1 .. 5 = {1, 2, 3, 4, 5} /\ 1 .. 6 = {1, 2, 3, 4, 5, 6}
  OBVIOUS
<1>2. Rises(Tenants)
  BY <1>1, TenantsHas, Ranks DEF Rises
<1>3. Rises(Site)
  BY <1>1, SiteHas, Ranks DEF Rises
<1> QED
  BY <1>2, <1>3

(* What is left after an insert.                                           *)
LEMMA TodoShrinks ==
    ASSUME NEW todo \in Seq(Entries), todo # <<>>
    PROVE  /\ todo[1] \in Entries /\ Tail(todo) \in Seq(Entries)
           /\ Elements(todo) = {todo[1]} \cup Elements(Tail(todo))
           /\ Rises(todo) => /\ Rises(Tail(todo))
                             /\ \A f \in Elements(Tail(todo)) : Rank(todo[1]) < Rank(f)
           /\ Len(todo) = 1 <=> Tail(todo) = <<>>
<1>1. /\ Len(todo) \in Nat /\ Len(todo) > 0 /\ DOMAIN todo = 1 .. Len(todo)
      /\ Tail(todo) \in Seq(Entries) /\ Len(Tail(todo)) = Len(todo) - 1
      /\ DOMAIN Tail(todo) = 1 .. Len(todo) - 1
      /\ \A n \in 1 .. Len(todo) - 1 : Tail(todo)[n] = todo[n + 1]
  OBVIOUS
<1>2. \A n \in 1 .. Len(todo) : n = 1 \/ (n - 1 \in 1 .. Len(todo) - 1 /\ n = (n - 1) + 1)
  BY <1>1
<1>3. \A n \in 1 .. Len(todo) - 1 : n + 1 \in 1 .. Len(todo) /\ 1 < n + 1
  BY <1>1
<1>4. 1 \in 1 .. Len(todo)
  BY <1>1
<1>5. Elements(todo) = {todo[1]} \cup Elements(Tail(todo))
  <2>1. Elements(todo) \subseteq {todo[1]} \cup Elements(Tail(todo))
    <3> SUFFICES ASSUME NEW n \in 1 .. Len(todo)
                 PROVE  todo[n] \in {todo[1]} \cup Elements(Tail(todo))
      BY <1>1 DEF Elements
    <3>1. CASE n = 1
      BY <3>1
    <3>2. CASE n - 1 \in 1 .. Len(todo) - 1
      <4>1. Tail(todo)[n - 1] = todo[n]
        BY <1>1, <3>2
      <4> QED
        BY <1>1, <3>2, <4>1 DEF Elements
    <3> QED
      BY <1>2, <3>1, <3>2
  <2>2. {todo[1]} \cup Elements(Tail(todo)) \subseteq Elements(todo)
    BY <1>1, <1>3, <1>4 DEF Elements
  <2> QED
    BY <2>1, <2>2
<1>6. Rises(todo) => /\ Rises(Tail(todo))
                     /\ \A f \in Elements(Tail(todo)) : Rank(todo[1]) < Rank(f)
  BY <1>1, <1>3, <1>4 DEF Rises, Elements
<1>7. Len(todo) = 1 <=> Tail(todo) = <<>>
  BY <1>1
<1> QED
  BY <1>1, <1>4, <1>5, <1>6, <1>7

LEMMA LookupsAre ==
    /\ LookedUp \in Seq(Entries) /\ LookedUp # <<>>
    /\ AnswerKeys = {"northstar"} \cup Elements(LookedUp)
    /\ AnswerKeys \subseteq SiteNames \cup {"northstar", "alice", "sam"}
    /\ AnswerKeys \subseteq Entries
<1>1. DOMAIN LookedUp = 1 .. 7 /\ 1 .. 7 = {1, 2, 3, 4, 5, 6, 7}
  BY DEF LookedUp
<1>2. Elements(LookedUp) = {"alice", "sam", "rack", "cable", "work_order", "project", "room"}
  BY <1>1 DEF Elements, LookedUp
<1>3. LookedUp \in Seq(Entries) /\ LookedUp # <<>>
  BY Kinds DEF LookedUp, SiteNames
<1> QED
  BY <1>2, <1>3, Kinds DEF AnswerKeys, SiteNames

----------------------------------------------------------------------------
(* Steps that commit nothing                                               *)

LEMMA QuietStep ==
    ASSUME Inv, NEW j \in Jobs, NEW q \in Job, JobOK(j, q),
           job' = [job EXCEPT ![j] = q], UNCHANGED <<stored, profiles, profileOf, members>>
    PROVE  Inv'
<1>1. job'[j] = q /\ \A i \in Jobs : i # j => job'[i] = job[i]
  BY DEF Inv, TypeOK
<1>2. TypeOK' /\ SitesHavePeople' /\ TenantsAreWhole'
  BY DEF Inv, TypeOK, SitesHavePeople, TenantsAreWhole, Stored
<1>3. ASSUME NEW i \in Jobs
      PROVE  JobOK(i, job[i])'
  <2>1. CASE i = j
    BY <1>1, <2>1 DEF JobOK, Follows, HoldsNew, CommitsOK, LooksOK, AnswerOK, IsStored, Stored,
                      SiteIsComplete, InOrder, Rest, SeedsSite
  <2>2. CASE i # j
    <3>1. JobOK(i, job[i]) /\ job'[i] = job[i]
      BY <1>1, <2>2 DEF Inv
    <3>2. HoldsNew(i, job[i])'
      BY <1>1, <2>2, <3>1 DEF JobOK, HoldsNew, Stored
    <3> QED
      BY <3>1, <3>2 DEF JobOK, Follows, CommitsOK, LooksOK, AnswerOK, IsStored, Stored,
                        SiteIsComplete, InOrder, Rest, SeedsSite
  <2> QED
    BY <2>1, <2>2
<1> QED
  BY <1>2, <1>3 DEF Inv

LEMMA FailStep ==
    ASSUME Inv, NEW j \in Jobs, job[j].at # "new", Fail(j),
           UNCHANGED <<stored, profiles, profileOf, members>>
    PROVE  Inv'
<1> DEFINE q == [kind |-> job[j].kind, at |-> "failed", owner |-> job[j].owner,
                 slug |-> job[j].slug, todo |-> <<>>, written |-> {}, profile |-> None,
                 answer |-> Blank, ready |-> job[j].ready]
<1>1. job' = [job EXCEPT ![j] = q]
  BY DEF Fail, Set
<1>2. JobOK(j, job[j]) /\ job[j] \in Job
  BY DEF Inv, TypeOK
<1>3. q \in Job
  BY <1>2 DEF Job, Blank
<1>4. JobOK(j, q)
  BY <1>2 DEF JobOK, Follows, HoldsNew, CommitsOK, LooksOK, AnswerOK, SeedsSite, Job
<1> QED
  BY <1>1, <1>3, <1>4, QuietStep

LEMMA NothingMade ==
    ASSUME Inv, NEW j \in Jobs, job[j].at \notin {"insert", "done", "failed"}
    PROVE  (\A e \in Entries : stored[e] # j) /\ job[j].written = {}
BY DEF Inv, JobOK, CommitsOK, SeedsSite, Follows

LEMMA BeginStep ==
    ASSUME Inv, NEW j \in Jobs, NEW kind \in {"seed", "bootstrap", "context", "create"},
           NEW at \in {"tenant", "profile", "insert"}, NEW owner \in Emails \cup {None},
           NEW slug \in Slugs \cup {None}, NEW todo \in Seq(Entries),
           Begin(j, kind, at, owner, slug, todo),
           at = "insert" => kind = "create",
           Follows([kind |-> kind, at |-> at, owner |-> owner, slug |-> slug, todo |-> todo,
                    written |-> {}, profile |-> None, answer |-> Blank,
                    ready |-> SiteIsComplete])
    PROVE  Inv'
<1> DEFINE q == [kind |-> kind, at |-> at, owner |-> owner, slug |-> slug, todo |-> todo,
                 written |-> {}, profile |-> None, answer |-> Blank, ready |-> SiteIsComplete]
<1>1. job' = [job EXCEPT ![j] = q] /\ UNCHANGED <<stored, profiles, profileOf, members>>
  BY DEF Begin
<1>2. \A e \in Entries : stored[e] # j
  BY NothingMade DEF Begin
<1>3. SiteIsComplete \in BOOLEAN
  BY DEF SiteIsComplete, Stored
<1>4. q \in Job
  BY <1>3 DEF Job, Blank
<1>5. JobOK(j, q)
  BY <1>2 DEF JobOK, HoldsNew, CommitsOK, SeedsSite, LooksOK, AnswerOK
<1> QED
  BY <1>1, <1>4, <1>5, QuietStep

LEMMA OneRises ==
    ASSUME NEW S, NEW e \in S
    PROVE  <<e>> \in Seq(S) /\ Elements(<<e>>) = {e} /\ Rises(<<e>>)
BY DEF Elements, Rises

LEMMA TwoRise ==
    ASSUME NEW email \in Emails, NEW slug \in Slugs
    PROVE  /\ <<email, slug>> \in Seq(Entries) /\ Elements(<<email, slug>>) = {email, slug}
           /\ Rises(<<email, slug>>)
<1>1. Rank(email) < Rank(slug)
  BY Ranks, RankIsSmall
<1>2. <<email, slug>> \in Seq(Entries)
  BY Kinds
<1>3. DOMAIN <<email, slug>> = {1, 2}
  OBVIOUS
<1>4. Elements(<<email, slug>>) = {email, slug}
  BY <1>3 DEF Elements
<1>5. Rises(<<email, slug>>)
  BY <1>1, <1>3 DEF Rises
<1> QED
  BY <1>2, <1>4, <1>5

LEMMA BeginsStep ==
    ASSUME Inv, NEW j \in Jobs,
           \/ BeginSeed(j)
           \/ \E email \in Emails, slug \in Slugs : BeginBootstrap(j, email, slug)
           \/ BeginContext(j)
           \/ \E e \in Created : BeginCreate(j, e)
    PROVE  Inv'
<1>1. CASE BeginSeed(j)
  <2>1. Tenants \in Seq(Entries)
    <3>1. TenantNames \subseteq Entries
      BY Kinds
    <3> QED
      BY <3>1, TenantsHas
  <2>2. Follows([kind |-> "seed", at |-> "tenant", owner |-> "alice", slug |-> "northstar",
                 todo |-> Tenants, written |-> {}, profile |-> None, answer |-> Blank,
                 ready |-> SiteIsComplete])
    BY DEF Follows
  <2>3. "alice" \in Emails /\ "northstar" \in Slugs
    BY Kinds
  <2> QED
    BY <1>1, <2>1, <2>2, <2>3, BeginStep DEF BeginSeed
<1>2. CASE \E email \in Emails, slug \in Slugs : BeginBootstrap(j, email, slug)
  <2>1. PICK email \in Emails, slug \in Slugs : BeginBootstrap(j, email, slug)
    BY <1>2
  <2>2. Follows([kind |-> "bootstrap", at |-> "profile", owner |-> email, slug |-> slug,
                 todo |-> <<email, slug>>, written |-> {}, profile |-> None,
                 answer |-> Blank, ready |-> SiteIsComplete])
    BY TwoRise DEF Follows, InOrder, Rest
  <2> QED
    BY <2>1, <2>2, TwoRise, BeginStep DEF BeginBootstrap
<1>3. CASE BeginContext(j)
  <2>1. Follows([kind |-> "context", at |-> "tenant", owner |-> None, slug |-> None,
                 todo |-> <<>>, written |-> {}, profile |-> None, answer |-> Blank,
                 ready |-> SiteIsComplete])
    BY DEF Follows
  <2>2. <<>> \in Seq(Entries)
    OBVIOUS
  <2> QED
    BY <1>3, <2>1, <2>2, BeginStep DEF BeginContext
<1>4. CASE \E e \in Created : BeginCreate(j, e)
  <2>1. PICK e \in Created : BeginCreate(j, e)
    BY <1>4
  <2>2. <<e>> \in Seq(Entries) /\ Elements(<<e>>) = {e} /\ Rises(<<e>>)
    BY OneRises, Kinds DEF SiteNames
  <2>3. Follows([kind |-> "create", at |-> "insert", owner |-> None, slug |-> None,
                 todo |-> <<e>>, written |-> {}, profile |-> None,
                 answer |-> Blank, ready |-> SiteIsComplete])
    BY <2>2 DEF Follows, InOrder, Rest
  <2> QED
    BY <2>1, <2>2, <2>3, BeginStep DEF BeginCreate
<1> QED
  BY <1>1, <1>2, <1>3, <1>4

LEMMA FindTenantStep ==
    ASSUME Inv, NEW j \in Jobs, FindTenant(j)
    PROVE  Inv'
<1> DEFINE old == job[j]
<1>1. /\ JobOK(j, old) /\ old \in Job /\ old.at = "tenant"
      /\ \A e \in Entries : stored[e] # j
      /\ UNCHANGED <<stored, profiles, profileOf, members>>
  BY NothingMade DEF Inv, TypeOK, FindTenant
<1>2. old.kind \in {"seed", "context"}
  BY <1>1 DEF JobOK, Follows, Job
<1>3. CASE Stored("northstar")
  <2> DEFINE q == [kind |-> old.kind, at |-> "look", owner |-> old.owner, slug |-> old.slug,
                   todo |-> LookedUp, written |-> {}, profile |-> None, answer |-> Found(j),
                   ready |-> old.ready]
  <2>1. job' = [job EXCEPT ![j] = q]
    BY <1>3 DEF FindTenant, Set
  <2>2. /\ Found(j) \in [Entries -> Jobs \cup {None}]
        /\ \A e \in Entries : Found(j)[e] = IF e = "northstar" THEN stored["northstar"] ELSE None
    BY Kinds DEF Found, Blank, Inv, TypeOK
  <2> HIDE DEF old
  <2>3. q \in Job
    BY <1>1, <2>2, LookupsAre DEF Job
  <2>4. IsStored(q) /\ q.answer["northstar"] # None
    BY <1>3, <2>2, Kinds DEF IsStored, Stored
  <2>5. JobOK(j, q)
    BY <1>1, <1>2, <1>3, <2>4, LookupsAre
       DEF JobOK, Follows, HoldsNew, CommitsOK, SeedsSite, LooksOK, AnswerOK
  <2> QED
    BY <1>1, <2>1, <2>3, <2>5, QuietStep
<1>4. CASE ~Stored("northstar") /\ old.kind = "seed"
  <2> DEFINE q == [kind |-> old.kind, at |-> "profile", owner |-> old.owner, slug |-> old.slug,
                   todo |-> old.todo, written |-> {}, profile |-> None, answer |-> Blank,
                   ready |-> old.ready]
  <2>1. job' = [job EXCEPT ![j] = q]
    BY <1>4 DEF FindTenant, Set
  <2> HIDE DEF old
  <2>2. q \in Job
    BY <1>1 DEF Job, Blank
  <2>3. InOrder(q)
    BY <1>1, <1>4, SeedsRise DEF InOrder, JobOK, Follows
  <2>4. JobOK(j, q)
    BY <1>1, <1>4, <2>3 DEF JobOK, Follows, HoldsNew, CommitsOK, SeedsSite, LooksOK, AnswerOK
  <2> QED
    BY <1>1, <2>1, <2>2, <2>4, QuietStep
<1>5. CASE ~Stored("northstar") /\ old.kind # "seed"
  BY <1>1, <1>5, FailStep DEF FindTenant
<1> QED
  BY <1>3, <1>4, <1>5

LEMMA FindProfileStep ==
    ASSUME Inv, NEW j \in Jobs, FindProfile(j)
    PROVE  Inv'
<1> DEFINE old == job[j]
<1>1. /\ JobOK(j, old) /\ old \in Job /\ old.at = "profile"
      /\ (\A e \in Entries : stored[e] # j) /\ old.written = {}
      /\ UNCHANGED <<stored, profiles, profileOf, members>>
  BY NothingMade DEF Inv, TypeOK, FindProfile
<1>2. old.kind \in {"seed", "bootstrap"}
  BY <1>1 DEF JobOK, Follows, Job
<1>3. PICK p \in IF profiles = {} THEN {j} ELSE profiles :
         Set(j, "insert", old.todo, {}, p, Blank)
  BY DEF FindProfile
<1>4. p \in Jobs /\ p \in profiles \cup {j}
  BY DEF Inv, TypeOK
<1> DEFINE q == [kind |-> old.kind, at |-> "insert", owner |-> old.owner, slug |-> old.slug,
                 todo |-> old.todo, written |-> {}, profile |-> p, answer |-> Blank,
                 ready |-> old.ready]
<1>5. job' = [job EXCEPT ![j] = q]
  BY <1>3 DEF Set
<1> HIDE DEF old
<1>6. q \in Job
  BY <1>1, <1>4 DEF Job, Blank
<1>7. Rest(q) = Rest(old) /\ InOrder(q)
  BY <1>1 DEF Rest, InOrder, JobOK, Follows
<1>8. old.kind = "seed" => Rest(q) = TenantNames
  BY <1>1, TenantsHas DEF Rest, JobOK, Follows
<1>9. TenantNames # SiteNames
  BY DEF TenantNames, SiteNames
<1>10. JobOK(j, q)
  BY <1>1, <1>2, <1>4, <1>7, <1>8, <1>9
     DEF JobOK, Follows, HoldsNew, CommitsOK, SeedsSite, LooksOK, AnswerOK
<1> QED
  BY <1>1, <1>5, <1>6, <1>10, QuietStep

LEMMA InsertStep ==
    ASSUME Inv, NEW j \in Jobs, Insert(j)
    PROVE  Inv'
<1> DEFINE old == job[j]
           e1 == Upcoming(j)
<1>1. /\ JobOK(j, old) /\ old \in Job /\ old.at = "insert" /\ old.todo # <<>>
      /\ UNCHANGED <<stored, profiles, profileOf, members>>
      /\ \A i \in Jobs : ~Waits(j, i)
  BY DEF Inv, TypeOK, Insert
<1>2. CASE Stored(e1)
  BY <1>1, <1>2, FailStep DEF Insert
<1>3. CASE ~Stored(e1)
  <2> DEFINE q == [kind |-> old.kind, at |-> "insert", owner |-> old.owner, slug |-> old.slug,
                   todo |-> Tail(old.todo), written |-> old.written \cup {e1},
                   profile |-> old.profile, answer |-> Blank, ready |-> old.ready]
  <2>1. job' = [job EXCEPT ![j] = q]
    BY <1>3 DEF Insert, Set
  <2>2. /\ e1 = old.todo[1] /\ e1 \in Entries /\ Tail(old.todo) \in Seq(Entries)
        /\ Elements(old.todo) = {e1} \cup Elements(Tail(old.todo))
        /\ Rises(old.todo) => /\ Rises(Tail(old.todo))
                              /\ \A f \in Elements(Tail(old.todo)) : Rank(e1) < Rank(f)
    <3>1. old.todo \in Seq(Entries) /\ e1 = old.todo[1]
      BY <1>1 DEF Job, Upcoming
    <3> QED
      BY <1>1, <3>1, TodoShrinks
  <2>3. \A i \in Jobs : i # j => e1 \notin job[i].written
    BY <1>1 DEF Waits
  <2> HIDE DEF old, e1
  <2>4. q \in Job
    BY <1>1, <2>2 DEF Job, Blank
  <2>5. Rest(q) = Rest(old)
    BY <2>2 DEF Rest
  <2>6. InOrder(q)
    BY <1>1, <2>2 DEF InOrder, JobOK, Follows
  <2>7. HoldsNew(j, q)
    BY <1>1, <1>3, <2>3 DEF HoldsNew, JobOK
  <2>8. Follows(q)
    BY <1>1, <2>5, <2>6 DEF JobOK, Follows
  <2>9. CommitsOK(j, q) /\ LooksOK(q) /\ AnswerOK(j, q)
    BY <1>1, <2>5 DEF JobOK, CommitsOK, SeedsSite, LooksOK, AnswerOK
  <2>10. JobOK(j, q)
    BY <2>7, <2>8, <2>9 DEF JobOK
  <2> QED
    BY <1>1, <2>1, <2>4, <2>10, QuietStep
<1> QED
  BY <1>2, <1>3

LEMMA LookStep ==
    ASSUME Inv, NEW j \in Jobs, Look(j)
    PROVE  Inv'
<1> DEFINE old == job[j]
           e1 == Upcoming(j)
           at == IF Len(old.todo) = 1 THEN "done" ELSE "look"
           answer == [old.answer EXCEPT ![e1] = stored[e1]]
           q == [kind |-> old.kind, at |-> at, owner |-> old.owner, slug |-> old.slug,
                 todo |-> Tail(old.todo), written |-> {}, profile |-> None,
                 answer |-> answer, ready |-> old.ready]
<1>1. /\ JobOK(j, old) /\ old \in Job /\ old.at = "look" /\ old.todo # <<>>
      /\ (\A e \in Entries : stored[e] # j)
      /\ UNCHANGED <<stored, profiles, profileOf, members>>
  BY NothingMade DEF Inv, TypeOK, Look, JobOK, LooksOK
<1>2. job' = [job EXCEPT ![j] = q]
  BY DEF Look, Set
<1>3. /\ e1 = old.todo[1] /\ e1 \in Entries /\ Tail(old.todo) \in Seq(Entries)
      /\ Elements(old.todo) = {e1} \cup Elements(Tail(old.todo))
      /\ at = "done" => Elements(Tail(old.todo)) = {}
      /\ at = "look" => Tail(old.todo) # <<>>
  <2>1. old.todo \in Seq(Entries) /\ e1 = old.todo[1]
    BY <1>1 DEF Job, Upcoming
  <2>2. Elements(<<>>) = {}
    BY DEF Elements
  <2> QED
    BY <1>1, <2>1, <2>2, TodoShrinks
<1>4. /\ answer \in [Entries -> Jobs \cup {None}]
      /\ answer[e1] = stored[e1]
      /\ \A e \in Entries : e # e1 => answer[e] = old.answer[e]
  BY <1>1, <1>3 DEF Job, Inv, TypeOK
<1>5. at \in {"done", "look"}
  OBVIOUS
<1> HIDE DEF old, e1, at, answer
<1>6. q \in Job
  BY <1>1, <1>3, <1>4, <1>5 DEF Job
<1>7. Follows(q) /\ HoldsNew(j, q) /\ CommitsOK(j, q)
  BY <1>1, <1>5 DEF JobOK, Follows, HoldsNew, CommitsOK, SeedsSite, LooksOK
<1>8. IsStored(q)
  BY <1>1, <1>4 DEF JobOK, LooksOK, IsStored
<1>9. q.ready => \A e \in AnswerKeys : e \in Elements(Tail(old.todo)) \/ answer[e] # None
  <2> SUFFICES ASSUME old.ready, NEW e \in AnswerKeys, e \notin Elements(Tail(old.todo))
               PROVE  answer[e] # None
    OBVIOUS
  <2>1. Stored(e)
    <3>1. \A s \in SiteNames : Stored(s)
      BY <1>1, SiteHas DEF JobOK, LooksOK, SiteIsComplete
    <3>2. Stored("alice") /\ Stored("sam") /\ Stored("northstar")
      BY <1>1, <3>1 DEF Inv, SitesHavePeople, SiteNames, JobOK, LooksOK
    <3> QED
      BY <3>1, <3>2, LookupsAre
  <2>2. CASE e = e1
    BY <1>4, <2>1, <2>2 DEF Stored
  <2>3. CASE e # e1
    BY <1>1, <1>3, <1>4, <2>3, LookupsAre DEF JobOK, LooksOK
  <2> QED
    BY <2>2, <2>3
<1>10. answer["northstar"] # None
  BY <1>1, <1>4, Kinds DEF JobOK, LooksOK, Stored
<1>11. LooksOK(q)
  BY <1>1, <1>3, <1>8, <1>9, <1>10 DEF JobOK, LooksOK
<1>12. AnswerOK(j, q)
  <2>1. stored["northstar"] # j
    BY <1>1, Kinds
  <2> QED
    BY <1>3, <1>8, <1>9, <2>1 DEF AnswerOK
<1> QED
  BY <1>1, <1>2, <1>6, <1>7, <1>11, <1>12, QuietStep DEF JobOK

----------------------------------------------------------------------------
(* Commits                                                                 *)

LEMMA CommitKeeps ==
    ASSUME Inv, NEW j \in Jobs, stored' = Committed(j)
    PROVE  /\ \A e \in Entries : stored'[e] = IF e \in job[j].written THEN j ELSE stored[e]
           /\ stored' \in [Entries -> Jobs \cup {None}]
           /\ \A e \in Entries : stored[e] # None => stored'[e] = stored[e]
           /\ \A i \in Jobs : i # j =>
                 \A e \in Entries : stored'[e] = i => stored[e] = i
<1>1. \A e \in Entries : stored'[e] = IF e \in job[j].written THEN j ELSE stored[e]
  BY DEF Committed
<1>2. stored' \in [Entries -> Jobs \cup {None}]
  BY DEF Committed, Inv, TypeOK
<1>3. \A e \in job[j].written : stored[e] = None
  BY DEF Inv, JobOK, HoldsNew, Stored
<1> QED
  BY <1>1, <1>2, <1>3, NoneIsNoJob

LEMMA OthersKeep ==
    ASSUME Inv, NEW j \in Jobs, NEW i \in Jobs, i # j, stored' = Committed(j),
           NEW q, q.written = {}, job' = [job EXCEPT ![j] = q], profiles \subseteq profiles'
    PROVE  JobOK(i, job[i])'
<1>1. /\ job'[i] = job[i] /\ \A k \in Jobs : k # j => job'[k] = job[k]
      /\ job'[j] = q /\ JobOK(i, job[i]) /\ job[i] \in Job
  BY DEF Inv, TypeOK
<1>2. /\ \A e \in Entries : stored'[e] = IF e \in job[j].written THEN j ELSE stored[e]
      /\ \A e \in Entries : stored[e] # None => stored'[e] = stored[e]
      /\ \A e \in Entries : stored'[e] = i => stored[e] = i
  BY CommitKeeps
<1>3. Follows(job[i])'
  BY <1>1 DEF JobOK, Follows, InOrder, Rest
<1>4. HoldsNew(i, job[i])'
  BY <1>1, <1>2 DEF JobOK, HoldsNew, Stored, Job
<1>5. CommitsOK(i, job[i])'
  <2>1. SeedsSite(job[i])' = SeedsSite(job[i])
    BY <1>1 DEF SeedsSite, Rest
  <2>2. TenantNames \subseteq Entries
    BY Kinds
  <2>3. SeedsSite(job[i]) => \A e \in TenantNames : stored'[e] = i
    BY <1>1, <1>2, <2>2, NoneIsNoJob DEF JobOK, CommitsOK
  <2> QED
    BY <1>1, <1>2, <2>1, <2>3 DEF JobOK, CommitsOK
<1>6. SiteIsComplete => SiteIsComplete'
  BY <1>2, SiteHas, Kinds DEF SiteIsComplete, Stored
<1>7. IsStored(job[i]) => IsStored(job[i])'
  BY <1>1, <1>2 DEF IsStored
<1>8. "northstar" \in Entries
  BY Kinds
<1>9. LooksOK(job[i])'
  BY <1>1, <1>2, <1>6, <1>7, <1>8 DEF JobOK, LooksOK, Stored
<1>10. AnswerOK(i, job[i])'
  BY <1>1, <1>2, <1>7, <1>8 DEF JobOK, AnswerOK
<1> QED
  BY <1>3, <1>4, <1>5, <1>9, <1>10 DEF JobOK

(* What a job commits, by its kind.                                        *)
LEMMA CommitsWhat ==
    ASSUME Inv, NEW j \in Jobs, job[j].at = "insert", job[j].todo = <<>>
    PROVE  /\ job[j].kind \in {"seed", "bootstrap", "create"}
           /\ job[j].kind = "seed" => /\ job[j].owner = "alice" /\ job[j].slug = "northstar"
                                      /\ job[j].written \in {TenantNames, SiteNames}
           /\ job[j].kind = "seed" /\ job[j].written = SiteNames =>
                 \A e \in TenantNames : stored[e] = j
           /\ job[j].kind = "bootstrap" => /\ job[j].owner \in Emails /\ job[j].slug \in Slugs
                                           /\ job[j].written = {job[j].owner, job[j].slug}
           /\ job[j].kind = "create" => job[j].slug = None /\ job[j].written \subseteq Created
<1>1. JobOK(j, job[j]) /\ job[j] \in Job
  BY DEF Inv, TypeOK
<1>2. Elements(<<>>) = {}
  BY DEF Elements
<1>3. Rest(job[j]) = job[j].written
  BY <1>2 DEF Rest
<1> QED
  BY <1>1, <1>3 DEF JobOK, Follows, CommitsOK, SeedsSite, Job

LEMMA CommitRowsStep ==
    ASSUME Inv, NEW j \in Jobs, CommitRows(j)
    PROVE  Inv'
<1> DEFINE old == job[j]
           q == [kind |-> old.kind, at |-> "done", owner |-> old.owner, slug |-> old.slug,
                 todo |-> <<>>, written |-> {}, profile |-> old.profile,
                 answer |-> [e \in Entries |-> IF stored'[e] = j THEN j ELSE None],
                 ready |-> old.ready]
<1>1. /\ JobOK(j, old) /\ old \in Job /\ stored' = Committed(j)
      /\ old.slug \notin old.written /\ old.at = "insert"
      /\ UNCHANGED <<profiles, profileOf, members>>
  BY DEF Inv, TypeOK, CommitRows
<1>2. job' = [job EXCEPT ![j] = q]
  BY DEF CommitRows, Set
<1>3. /\ old.kind \in {"seed", "create"} /\ old.written \subseteq SiteNames
      /\ old.kind = "create" => "project" \notin old.written
      /\ old.kind = "seed" => /\ old.written = SiteNames
                              /\ \A e \in TenantNames : stored[e] = j
  <2>1. "northstar" \in TenantNames /\ Created \subseteq SiteNames \ {"project"}
    BY Kinds DEF TenantNames, SiteNames
  <2> QED
    BY <1>1, <2>1, CommitsWhat DEF CommitRows
<1>4. /\ \A e \in Entries : stored'[e] = IF e \in old.written THEN j ELSE stored[e]
      /\ stored' \in [Entries -> Jobs \cup {None}]
      /\ \A e \in Entries : stored[e] # None => stored'[e] = stored[e]
  BY <1>1, CommitKeeps
<1>5. \A e \in Emails \cup Slugs : stored'[e] = stored[e] /\ e \in Entries
  BY <1>3, <1>4, Kinds
<1> HIDE DEF old
<1>6. q \in Job
  BY <1>1 DEF Job
<1> DEFINE given == q.answer
<1>7. \A e \in Entries : given[e] = IF stored'[e] = j THEN j ELSE None
  OBVIOUS
<1> HIDE DEF q
<1>8. q.written = {} /\ job'[j] = q
  BY <1>2 DEF q, Inv, TypeOK
<1>9. /\ job'[j].at = "done" /\ job'[j].kind = old.kind /\ job'[j].owner = old.owner
      /\ job'[j].slug = old.slug /\ job'[j].written = {} /\ job'[j].ready = old.ready
      /\ job'[j].answer = given
  BY <1>8 DEF q
<1>10. TypeOK'
  BY <1>1, <1>2, <1>4, <1>6 DEF Inv, TypeOK
<1>11. SitesHavePeople'
  <2>1. {"alice", "sam"} \subseteq Emails /\ {"alice", "sam"} \subseteq TenantNames
        /\ "project" \in Entries
    BY Kinds DEF TenantNames, SiteNames
  <2>2. CASE "project" \in old.written
    BY <1>3, <1>5, <2>1, <2>2, NoneIsNoJob DEF SitesHavePeople, Stored
  <2>3. CASE "project" \notin old.written
    BY <1>4, <1>5, <2>1, <2>3 DEF Inv, SitesHavePeople, Stored
  <2> QED
    BY <2>2, <2>3
<1>12. TenantsAreWhole'
  <2>1. \A s \in Slugs : Stored(s)' =>
          /\ profileOf'[s] \in profiles'
          /\ \E m \in members' : /\ m.tenant = s /\ m.role = "owner"
                                /\ stored'[m.user] = stored'[s]
    <3> SUFFICES ASSUME NEW s \in Slugs, Stored(s)
                 PROVE  /\ profileOf[s] \in profiles
                        /\ \E m \in members : /\ m.tenant = s /\ m.role = "owner"
                                             /\ stored'[m.user] = stored'[s]
      BY <1>1, <1>5 DEF Stored
    <3>1. /\ profileOf[s] \in profiles
          /\ \E m \in members : /\ m.tenant = s /\ m.role = "owner"
                               /\ stored[m.user] = stored[s]
      BY DEF Inv, TenantsAreWhole
    <3>2. \A m \in members : m.user \in Emails
      BY DEF Inv, TypeOK, Membership
    <3> QED
      BY <1>5, <3>1, <3>2
  <2>2. \A m \in members' : Stored(m.tenant)' /\ Stored(m.user)'
    BY <1>1, <1>5 DEF Inv, TenantsAreWhole, Stored, TypeOK, Membership
  <2>3. \A k \in profiles' \cup { stored'[e] : e \in Emails } :
          k # None => \E s \in Slugs : stored'[s] = k
    BY <1>1, <1>5 DEF Inv, TenantsAreWhole
  <2> QED
    BY <2>1, <2>2, <2>3 DEF TenantsAreWhole
<1>13. JobOK(j, job[j])'
  <2>1. Follows(job[j])'
    BY <1>1, <1>9 DEF JobOK, Follows
  <2>2. \A e \in Entries : given[e] # None => given[e] = stored'[e]
    BY <1>7
  <2>3. old.kind = "seed" => \A e \in AnswerKeys : given[e] # None
    <3> SUFFICES ASSUME old.kind = "seed", NEW e \in AnswerKeys
                 PROVE  stored'[e] = j
      BY <1>7, LookupsAre, NoneIsNoJob
    <3>1. CASE e \in SiteNames
      BY <1>3, <1>4, <3>1, LookupsAre
    <3>2. CASE e \in {"northstar", "alice", "sam"}
      BY <1>3, <1>5, <3>2, Kinds DEF TenantNames
    <3> QED
      BY <3>1, <3>2, LookupsAre
  <2>4. HoldsNew(j, job[j])' /\ CommitsOK(j, job[j])'
    BY <1>9 DEF HoldsNew, CommitsOK, SeedsSite
  <2>5. LooksOK(job[j])'
    <3>1. SiteIsComplete => SiteIsComplete'
      BY <1>4, SiteHas, Kinds DEF SiteIsComplete, Stored
    <3> QED
      BY <1>1, <1>9, <3>1 DEF LooksOK, JobOK
  <2>6. AnswerOK(j, job[j])'
    BY <1>3, <1>9, <2>2, <2>3 DEF AnswerOK, IsStored
  <2> QED
    BY <2>1, <2>4, <2>5, <2>6 DEF JobOK
<1>14. \A i \in Jobs : i # j => JobOK(i, job[i])'
  BY <1>1, <1>2, <1>8, OthersKeep
<1> QED
  BY <1>10, <1>11, <1>12, <1>13, <1>14 DEF Inv

LEMMA CommitTenantsStep ==
    ASSUME Inv, NEW j \in Jobs, CommitTenants(j)
    PROVE  Inv'
<1> DEFINE old == job[j]
           given == [e \in Entries |-> IF e \in old.written THEN j ELSE None]
           q == IF old.kind = "seed"
                THEN [kind |-> old.kind, at |-> "insert", owner |-> old.owner,
                      slug |-> old.slug, todo |-> Site, written |-> {},
                      profile |-> old.profile, answer |-> Blank, ready |-> old.ready]
                ELSE [kind |-> old.kind, at |-> "done", owner |-> old.owner,
                      slug |-> old.slug, todo |-> <<>>, written |-> {},
                      profile |-> old.profile, answer |-> given, ready |-> old.ready]
<1>1. /\ JobOK(j, old) /\ old \in Job /\ stored' = Committed(j) /\ old.at = "insert"
      /\ old.slug \in old.written /\ old.written \subseteq Entries
      /\ profiles' = profiles \cup {old.profile}
      /\ profileOf' = [s \in Slugs |-> IF s \in old.written THEN old.profile ELSE profileOf[s]]
      /\ members' = members \cup NewMembers(j)
  BY DEF Inv, TypeOK, CommitTenants, Job
<1>2. job' = [job EXCEPT ![j] = q]
  BY DEF CommitTenants, Set
<1>3. /\ old.kind \in {"seed", "bootstrap"}
      /\ old.kind = "seed" => /\ old.owner = "alice" /\ old.slug = "northstar"
                              /\ old.written = TenantNames
      /\ old.kind = "bootstrap" => old.written = {old.owner, old.slug}
      /\ old.owner \in Emails \cap old.written /\ old.slug \in Slugs \cap old.written
      /\ old.written \subseteq Emails \cup Slugs
  <2>1. "northstar" \in Slugs \cap TenantNames /\ "northstar" \notin SiteNames
        /\ "alice" \in Emails \cap TenantNames /\ TenantNames \subseteq Emails \cup Slugs
    BY Kinds DEF TenantNames, SiteNames
  <2>2. old.kind # "create"
    BY <1>1, CommitsWhat, NoneIsNoEntry DEF CommitTenants
  <2> QED
    BY <1>1, <2>1, <2>2, CommitsWhat DEF CommitTenants
<1>4. /\ \A e \in Entries : stored'[e] = IF e \in old.written THEN j ELSE stored[e]
      /\ stored' \in [Entries -> Jobs \cup {None}]
      /\ \A e \in Entries : stored[e] # None => stored'[e] = stored[e]
  BY <1>1, CommitKeeps
<1>5. old.profile \in profiles \cup {j}
  BY <1>1, <1>3 DEF JobOK, CommitsOK
<1>6. NewMembers(j) =
        { [tenant |-> old.slug, user |-> old.owner, role |-> "owner"] }
          \cup IF old.kind = "seed"
               THEN { [tenant |-> "northstar", user |-> "sam", role |-> "manager"],
                      [tenant |-> "contoso", user |-> "contoso_owner", role |-> "owner"] }
               ELSE {}
  BY DEF NewMembers
<1> HIDE DEF old
<1>7. q \in Job /\ q.written = {}
  <2>1. Site \in Seq(Entries)
    <3>1. SiteNames \subseteq Entries
      BY Kinds
    <3> QED
      BY <3>1, SiteHas
  <2>2. Blank \in [Entries -> Jobs \cup {None}] /\ given \in [Entries -> Jobs \cup {None}]
    BY DEF Blank
  <2> HIDE DEF given
  <2> QED
    BY <1>1, <2>1, <2>2 DEF Job
<1>8. /\ job'[j].kind = old.kind /\ job'[j].owner = old.owner /\ job'[j].slug = old.slug
      /\ job'[j].written = {} /\ job'[j].ready = old.ready /\ job'[j].profile = old.profile
      /\ old.kind = "seed" => job'[j].at = "insert" /\ job'[j].todo = Site
      /\ old.kind # "seed" => job'[j].at = "done" /\ job'[j].answer = given
  BY <1>2 DEF Inv, TypeOK
<1> HIDE DEF q
<1>9. Emails \subseteq Entries /\ Slugs \subseteq Entries
  BY Kinds
<1>10. TypeOK'
  <2>1. NewMembers(j) \subseteq Membership
    BY <1>3, <1>6, Kinds DEF Membership
  <2>2. old.profile \in Jobs
    BY <1>5 DEF Inv, TypeOK
  <2>3. profileOf' \in [Slugs -> Jobs \cup {None}]
    BY <1>1, <2>2 DEF Inv, TypeOK
  <2> QED
    BY <1>1, <1>2, <1>4, <1>7, <2>1, <2>2, <2>3 DEF Inv, TypeOK
<1>11. SitesHavePeople'
  <2>1. {"alice", "sam"} \subseteq Entries /\ "project" \in Entries \ (Emails \cup Slugs)
    BY Kinds DEF SiteNames
  <2>2. stored'["project"] = stored["project"]
    BY <1>3, <1>4, <2>1
  <2> QED
    BY <1>4, <2>1, <2>2 DEF Inv, SitesHavePeople, Stored
<1>12. TenantsAreWhole'
  <2>1. ASSUME NEW s \in Slugs, Stored(s)'
        PROVE  /\ profileOf'[s] \in profiles'
               /\ \E m \in members' : /\ m.tenant = s /\ m.role = "owner"
                                     /\ stored'[m.user] = stored'[s]
    <3>1. CASE s \in old.written
      <4>1. profileOf'[s] \in profiles'
        BY <1>1, <3>1
      <4>2. stored'[s] = j
        BY <1>4, <1>9, <3>1
      <4>3. \E m \in NewMembers(j) :
               m.tenant = s /\ m.role = "owner" /\ m.user \in Entries /\ m.user \in old.written
        <5>1. CASE old.kind = "seed"
          <6>1. /\ s \in {"northstar", "contoso"}
                /\ {"alice", "contoso_owner"} \subseteq TenantNames \cap Entries
            BY <1>3, <3>1, <5>1, Kinds DEF TenantNames
          <6>2. s = "northstar" => [tenant |-> s, user |-> "alice", role |-> "owner"]
                                    \in NewMembers(j)
            BY <1>3, <1>6, <5>1
          <6>3. s = "contoso" => [tenant |-> s, user |-> "contoso_owner", role |-> "owner"]
                                  \in NewMembers(j)
            BY <1>6, <5>1
          <6> QED
            BY <1>3, <5>1, <6>1, <6>2, <6>3
        <5>2. CASE old.kind = "bootstrap"
          <6>1. s = old.slug
            BY <1>3, <3>1, <5>2, Kinds
          <6>2. old.owner \in Entries /\ old.owner \in old.written
            BY <1>3, <1>9
          <6>3. [tenant |-> old.slug, user |-> old.owner, role |-> "owner"] \in NewMembers(j)
            BY <1>6
          <6> QED
            BY <6>1, <6>2, <6>3
        <5> QED
          BY <1>3, <5>1, <5>2
      <4>4. PICK m \in NewMembers(j) :
               m.tenant = s /\ m.role = "owner" /\ m.user \in Entries /\ m.user \in old.written
        BY <4>3
      <4>5. stored'[m.user] = stored'[s] /\ m \in members'
        BY <1>1, <1>4, <4>2, <4>4
      <4> QED
        BY <4>1, <4>4, <4>5
    <3>2. CASE s \notin old.written
      <4>1. Stored(s) /\ stored'[s] = stored[s] /\ profileOf'[s] = profileOf[s]
        BY <1>1, <1>4, <1>9, <2>1, <3>2 DEF Stored
      <4>2. /\ profileOf[s] \in profiles
            /\ \E m \in members : /\ m.tenant = s /\ m.role = "owner"
                                 /\ stored[m.user] = stored[s]
        BY <4>1 DEF Inv, TenantsAreWhole
      <4>3. PICK m \in members : /\ m.tenant = s /\ m.role = "owner"
                                /\ stored[m.user] = stored[s]
        BY <4>2
      <4>4. m.user \in Entries /\ m \in members'
        BY <1>1, <1>9 DEF Inv, TypeOK, Membership
      <4>5. stored'[m.user] = stored'[s]
        BY <1>4, <4>1, <4>3, <4>4 DEF Stored
      <4> QED
        BY <1>1, <4>1, <4>2, <4>3, <4>4, <4>5
    <3> QED
      BY <3>1, <3>2
  <2>2. ASSUME NEW m \in members'
        PROVE  Stored(m.tenant)' /\ Stored(m.user)'
    <3>1. CASE m \in members
      BY <1>4, <1>9, <3>1 DEF Inv, TypeOK, Membership, TenantsAreWhole, Stored
    <3>2. CASE m \in NewMembers(j)
      <4>1. {m.tenant, m.user} \subseteq old.written
        <5>1. {"northstar", "sam", "contoso", "contoso_owner"} \subseteq TenantNames
          BY DEF TenantNames
        <5> QED
          BY <1>3, <1>6, <3>2, <5>1
      <4> QED
        BY <1>1, <1>4, <4>1, NoneIsNoJob DEF Stored
    <3> QED
      BY <1>1, <3>1, <3>2
  <2>3. ASSUME NEW k \in profiles' \cup { stored'[e] : e \in Emails }, k # None
        PROVE  \E s \in Slugs : stored'[s] = k
    <3>1. k = j \/ k \in profiles \cup { stored[e] : e \in Emails }
      BY <1>1, <1>4, <1>5, <1>9
    <3>2. stored'[old.slug] = j /\ old.slug \in Slugs
      BY <1>3, <1>4, <1>9
    <3>3. CASE k \in profiles \cup { stored[e] : e \in Emails }
      <4>1. PICK s \in Slugs : stored[s] = k
        BY <2>3, <3>3 DEF Inv, TenantsAreWhole
      <4> QED
        BY <1>4, <1>9, <2>3, <4>1
    <3> QED
      BY <3>1, <3>2, <3>3
  <2> QED
    BY <2>1, <2>2, <2>3 DEF TenantsAreWhole
<1>13. JobOK(j, job[j])'
  <2>1. SiteIsComplete => SiteIsComplete'
    BY <1>4, SiteHas, Kinds DEF SiteIsComplete, Stored
  <2>2. CASE old.kind = "seed"
    <3>1. Elements(Site) = SiteNames /\ Rises(Site)
      BY SiteHas, SeedsRise
    <3>2. Rest(job[j])' = SiteNames /\ InOrder(job[j])'
      BY <1>8, <2>2, <3>1 DEF Rest, InOrder
    <3>3. Follows(job[j])'
      BY <1>1, <1>8, <2>2, <3>2 DEF JobOK, Follows
    <3>4. \A e \in TenantNames : stored'[e] = j
      BY <1>1, <1>3, <1>4, <2>2
    <3>5. HoldsNew(j, job[j])' /\ CommitsOK(j, job[j])'
      BY <1>1, <1>8, <2>2, <3>2, <3>4 DEF HoldsNew, CommitsOK, SeedsSite
    <3>6. LooksOK(job[j])' /\ AnswerOK(j, job[j])'
      BY <1>1, <1>8, <2>1, <2>2 DEF LooksOK, AnswerOK, JobOK
    <3> QED
      BY <3>3, <3>5, <3>6 DEF JobOK
  <2>3. CASE old.kind = "bootstrap"
    <3>1. Follows(job[j])'
      BY <1>1, <1>8, <2>3 DEF JobOK, Follows
    <3>2. HoldsNew(j, job[j])' /\ CommitsOK(j, job[j])'
      BY <1>8, <2>3 DEF HoldsNew, CommitsOK, SeedsSite
    <3>3. IsStored(job[j])'
      BY <1>4, <1>8, <2>3 DEF IsStored
    <3>4. LooksOK(job[j])' /\ AnswerOK(j, job[j])'
      BY <1>1, <1>8, <2>1, <2>3, <3>3 DEF LooksOK, AnswerOK, JobOK
    <3> QED
      BY <3>1, <3>2, <3>4 DEF JobOK
  <2> QED
    BY <1>3, <2>2, <2>3
<1>14. \A i \in Jobs : i # j => JobOK(i, job[i])'
  BY <1>1, <1>2, <1>7, OthersKeep
<1> QED
  BY <1>10, <1>11, <1>12, <1>13, <1>14 DEF Inv

----------------------------------------------------------------------------
(* The invariant                                                           *)

LEMMA InvInit == Init => Inv
<1> SUFFICES ASSUME Init
             PROVE  Inv
  OBVIOUS
<1>1. /\ \A e \in Entries : stored[e] = None
      /\ stored \in [Entries -> Jobs \cup {None}]
  BY DEF Init, Blank
<1>2. New \in Job
  BY DEF New, Job, Blank
<1>3. TypeOK
  BY <1>1, <1>2 DEF TypeOK, Init
<1>4. \A e \in Emails \cup Slugs \cup {"project"} : stored[e] = None
  BY <1>1, Kinds DEF SiteNames
<1>5. SitesHavePeople /\ TenantsAreWhole
  BY <1>4 DEF SitesHavePeople, TenantsAreWhole, Stored, Init
<1>6. \A j \in Jobs : JobOK(j, New)
  BY <1>1, NoneIsNoJob
     DEF JobOK, New, Follows, HoldsNew, CommitsOK, SeedsSite, LooksOK, AnswerOK
<1> QED
  BY <1>3, <1>5, <1>6 DEF Inv, Init

LEMMA InvStep == Inv /\ [Next]_vars => Inv'
<1> SUFFICES ASSUME Inv, [Next]_vars
             PROVE  Inv'
  OBVIOUS
<1>1. CASE UNCHANGED vars
  BY <1>1 DEF vars, Inv, TypeOK, SitesHavePeople, TenantsAreWhole, Stored, JobOK, Follows,
              HoldsNew, CommitsOK, LooksOK, AnswerOK, IsStored, SiteIsComplete, InOrder, Rest,
              SeedsSite
<1>2. ASSUME NEW j \in Jobs,
             \/ BeginSeed(j)
             \/ \E email \in Emails, slug \in Slugs : BeginBootstrap(j, email, slug)
             \/ BeginContext(j)
             \/ \E e \in Created : BeginCreate(j, e)
      PROVE  Inv'
  BY <1>2, BeginsStep
<1>3. ASSUME NEW j \in Jobs, Step(j)
      PROVE  Inv'
  BY <1>3, FindTenantStep, FindProfileStep, InsertStep, CommitTenantsStep, CommitRowsStep,
     LookStep DEF Step
<1>4. ASSUME NEW j \in Jobs, Die(j)
      PROVE  Inv'
  BY <1>4, FailStep DEF Die
<1> QED
  BY <1>1, <1>2, <1>3, <1>4 DEF Next

LEMMA Invariant == Spec => []Inv
BY InvInit, InvStep, PTL DEF Spec

----------------------------------------------------------------------------
(* The theorems                                                            *)

(* The variables of Provisioning stay within their types.                  *)
THEOREM TypeCorrect == Spec => []TypeOK
BY Invariant, PTL DEF Inv

(* Whatever dies or fails halfway, a committed tenant has its active       *)
(* profile and an owner made with it, every membership has both its ends,  *)
(* and no user or profile is left without its tenant (bootstrap_tenant,    *)
(* the first commit of seed).                                              *)
THEOREM TenantsStayWhole == Spec => []TenantsAreWhole
BY Invariant, PTL DEF Inv

(* The ids that a seed or demo_context answered stay those of the rows,    *)
(* and a run over a complete site answers with all of them.                *)
THEOREM AnswersStayTrue == Spec => []AnswersAgree
<1>1. Inv => AnswersAgree
  BY DEF Inv, JobOK, AnswerOK, IsStored, AnswersAgree
<1> QED
  BY <1>1, Invariant, PTL

(* A set of numbers up to 11 has a greatest.                               *)
LEMMA SomeIsGreatest ==
    ASSUME NEW T, T \subseteq 1 .. 11, T # {}
    PROVE  \E n \in T : \A m \in T : m <= n
<1> DEFINE n == IF 11 \in T THEN 11 ELSE IF 10 \in T THEN 10 ELSE IF 9 \in T THEN 9
                ELSE IF 8 \in T THEN 8 ELSE IF 7 \in T THEN 7 ELSE IF 6 \in T THEN 6
                ELSE IF 5 \in T THEN 5 ELSE IF 4 \in T THEN 4 ELSE IF 3 \in T THEN 3
                ELSE IF 2 \in T THEN 2 ELSE 1
<1>1. \A m \in T : m \in {1, 2, 3, 4, 5, 6, 7, 8, 9, 10, 11}
  OBVIOUS
<1>2. n \in T
  BY <1>1
<1>3. \A m \in T : m <= n
  BY <1>1
<1> QED
  BY <1>2, <1>3

(* One who waits is before the one waited for, in the order of inserts.    *)
LEMMA WaitersAreBehind ==
    ASSUME Inv, NEW i \in Jobs, NEW j \in Jobs, NEW k \in Jobs, Waits(j, i), Waits(i, k)
    PROVE  Rank(Upcoming(j)) < Rank(Upcoming(i))
<1>1. Upcoming(j) \in job[i].written /\ job[i].at = "insert" /\ job[i].todo # <<>>
  BY DEF Waits
<1>2. InOrder(job[i]) /\ job[i].todo \in Seq(Entries)
  BY <1>1 DEF Inv, JobOK, Follows, TypeOK, Job
<1>3. Upcoming(i) \in Elements(job[i].todo)
  BY <1>1, <1>2 DEF Upcoming, Elements
<1> QED
  BY <1>1, <1>2, <1>3 DEF InOrder

(* Jobs never wait for each other in a circle: all of them insert in the   *)
(* one order of ranks, so that of any jobs the one furthest in it waits    *)
(* for none of them (seed.py, bootstrap_tenant, the handlers of the API).  *)
THEOREM JobsNeverDeadlock == Spec => []NoDeadlock
<1>1. Inv => NoDeadlock
  <2> SUFFICES ASSUME Inv, NEW D \in (SUBSET Jobs) \ {{}},
                      \A j \in D : \E i \in D : Waits(j, i)
               PROVE  FALSE
    BY DEF NoDeadlock
  <2> DEFINE T == { Rank(Upcoming(j)) : j \in D }
  <2>1. T \subseteq 1 .. 11 /\ T # {}
    BY RankIsSmall
  <2>2. PICK n \in T : \A m \in T : m <= n
    BY <2>1, SomeIsGreatest
  <2>3. PICK j \in D : n = Rank(Upcoming(j))
    BY <2>2
  <2>4. PICK i \in D : Waits(j, i)
    OBVIOUS
  <2>5. PICK k \in D : Waits(i, k)
    OBVIOUS
  <2>6. Rank(Upcoming(j)) < Rank(Upcoming(i)) /\ Rank(Upcoming(i)) \in T
    BY <2>4, <2>5, WaitersAreBehind
  <2> QED
    BY <2>1, <2>2, <2>3, <2>6
<1> QED
  BY <1>1, Invariant, PTL
=============================================================================
