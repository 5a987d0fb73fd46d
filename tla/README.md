# Cable management system: a TLA+ development

This directory holds a model of the server of the cable management system
(`src/apps/api/app`): TLA+ modules, the TLC configurations that check them on
small instances, and theorems that TLAPS checks for every instance.

    tlc -workers 2 -config Access.cfg MCAccess     # one run, see PROJECT.json for all
    tlapm AccessProofs.tla                         # one module of proofs

Paths below are relative to `src/apps/api/app` unless they begin with `src`.

## 1. The system

A FastAPI application over SQLAlchemy and one PostgreSQL database (SQLite in
development). Every request has a session and a transaction of its own
(`api/deps.py`, `get_db`), runs in a thread of its own, and commits once, in its
handler (`main.py`), after the service it calls has flushed its rows and one
audit event. Sessions do not flush on their own and do not expire what they
loaded. The isolation level is the database's default, READ COMMITTED. There is
no row lock and no version condition anywhere, so what protects a rule that
spans requests is a unique constraint of the schema or nothing.

An `UPDATE` writes the columns whose value the session changed *from the value
it loaded*, and no others; the version it writes is the loaded version plus one
(`db.py` 81-85). An `INSERT` that meets the uncommitted entry of another
transaction in a unique index waits for that transaction. These three facts,
with the order of statements in each handler, are what most of the modules here
are about.

### Inventory

| component | state | operations | hard part |
|---|---|---|---|
| Cable workflow (`services/workflow.py`) | cables, work orders, test records, audit events | create work order, install, submit test, approve test | rows read early and written late; separation of duties; partial UPDATEs |
| Racks and devices (`services/infrastructure.py`) | racks, templates, devices, ports, mappings | create rack / template / device, read an elevation | check then insert; off-by-one; several inserts of one request |
| Cables (`services/connectivity.py`) | cables, terminations, routes | create cable | unique entries as locks; deadlock; rollback of a half-made cable |
| Cable trace (`services/connectivity.py`) | none of its own | trace | a graph that grows between statements; loops; a size limit |
| Shared rate limiter (`shared_rate_limit.py`, `http_security.py`) | counter rows, last cleanup of each process | consume, cleanup | several processes, late clocks, lost acknowledgements, restarts |
| Identity linking (`auth.py`, `api/deps.py`) | `oidc_subject` of identities | authenticate, link | a link that is flushed but not committed; two links at once |
| Principals and grants (`security.py`, `main.py`) | memberships, access grants | resolve, create grant, revoke grant | authority read once and used later; chains of grants; expiry |
| OIDC key cache (`auth.py`) | one cached key set per process | get, put, clear, fetch | fetched without the lock; key rotation; one retry |
| HTTP boundary (`http_security.py`) | none of its own | dispatch | order of early answers; what they say of the rate |
| Sessions and tenant isolation (`db.py`, `api/deps.py`, RLS migration) | connections and their setting, threads, rows of each tenant | open, flush, commit, close; the script that tries the policies | a setting of one transaction on a pooled connection; threads and connections waiting for each other |
| Tenant bootstrap and seed (`main.py`, `seed.py`) | tenants, members, profiles, the demo site | bootstrap, seed, demo context | find or create by several processes; two commits; death between them |
| Reports (`services/reporting.py`, `services/compliance.py`) | none | cable schedule, compliance report; dashboard, search | several selects of one answer |
| Labels, identifiers, profiles | labels | create label, generate | little: reads and single inserts |
| Locations and pathways | locations, pathways, segments | create | little: single inserts under a parent |
| Web clients (`src/apps/web`, `src/apps/web-react`) | what a page shows | load, search | answers that arrive out of order |
| Migrations, configuration, schemas | | | declarations; they give initial states, unique indexes and assumptions |

How they interact: the HTTP boundary asks the limiter, then hands a request to a
handler, whose dependencies authenticate it (key cache, identity linking) and
resolve its principal (grants); the handler calls a service, which asks the
principal for a permission and reads and writes rows. Services share no memory:
they meet in the database, and the key cache and the limiter's cleanup time are
the only state of a process. Beside them they compete for the threads of the
server and for the connections of the pool. A trace and a report read what `create_cable`
and `create_device_from_template` have written, a seed competes with whoever uses the
tenant it has just made.

What makes each of them correct, in a line:

- **workflow**: nobody approves a test of their own; a cable in service has an
  approved passed test; the log names who did it;
- **racks**: a device lies inside its rack, off reserved units and off the other
  devices, with the ports of its template;
- **cables**: a port has one end of one cable; a cable is stored whole or not at
  all; every request ends;
- **trace**: the answer is a walk that exists, and leaves nothing out that was there;
- **limiter**: no more than the quota passes, none is refused below it;
- **access**: every committed act was allowed; authority goes back to members;
- **key cache**: retired keys stop working, published keys are found;
- **HTTP boundary**: nothing reaches a handler past a check; answers tell the truth about the rate;
- **reports**: what they say was true, and nothing that was there all the time is missing;
- **bootstrap and seed**: tenants are whole, whatever dies halfway; nobody waits in a circle;
- **isolation**: a session sees and changes the rows of its tenant; every request ends.

`PROJECT.json` lists the hazards line by line, with the properties that cover
each, and the ones that no property covers yet.

## 2. Modules

| module | models | extends |
|---|---|---|
| `CableWorkflow` | the cable workflow | |
| `Commissioning` | what it promises, abstractly | (instantiated by `CableWorkflow`) |
| `RackPlacement` | racks, templates, devices, elevations | |
| `Connectivity` | creating cables | |
| `AtomicCables` | what it promises: one cable at a time, in one step | (instantiated by `Connectivity`) |
| `Trace` | tracing one while others are created | `Connectivity` |
| `Reports` | cable schedules, compliance reports and labels meanwhile | `Connectivity` |
| `RateLimit` | the shared limiter | |
| `HttpBoundary` | the middleware around it | `RateLimit` |
| `Access` | identities, principals and grants | |
| `KeyCache` | the cache of signing keys | |
| `Provisioning` | bootstrap, seed and demo context | |
| `TenantIsolation` | sessions, threads, connections; filter, guard and row policies | |

`MC*` modules give the constants of small instances (`MCReads` composes `Connectivity`
with `Trace` and `Reports`), `*Proofs` hold the
theorems. A definition whose name continues that of the definition after it
(`Clear`, `ClearNothing`) is a plausible mistake in it; `PROJECT.json` says which
property notices it.

### Correspondence with the code

In all modules that talk to the database a **request** is a record `req[r]` with
a program counter `at`. A select is one step on the committed rows, since
READ COMMITTED gives each statement a snapshot of its own. The last flush and the commit are
one step, because written rows are locked in between and nobody else can read
them. Where an insert can wait (`Connectivity`) each insert is a step. A failure
is the step that resets the request: its session closes, everything is rolled back.

**`CableWorkflow`.** `BeginInstall`/`CommitInstall`, `BeginTest`/`CommitTest` and
`BeginApprove`/`ReadCable`/... are `mark_installed`, `submit_test` and
`approve_test` of `services/workflow.py` together with their handlers and
`record_audit`. `UpdatedCable` and its siblings are the UPDATE: `Column` keeps
what is stored unless the session changed the column. A timestamp stands for the
record it was taken with.

**`RackPlacement`.** A device creation selects the rack, template and overlaps
in one step and inserts device, ports, mappings and event in the next; nothing
committed in between is noticed except a taken identifier. Blueprints are rows of
count, name prefix, first number, face and mapping key, and `PortsOf` and the mappings
are computed from them as the code does, including the sort and zip of
`infrastructure.py` 230-241. An elevation is two steps.

**`Connectivity`.** `BeginCable` is everything before the first insert;
`InsertCable`, `ReadRoute`, `InsertSides` and `Commit` follow the order of
`create_cable`. `HoldsCable`/`HoldsPort` say which uncommitted unique entries a
request owns, `Waits` who waits for them, and `AbortDeadlock` is the database
ending a cycle. `Granted` reads the committed rows as the requests that `AtomicCables` has granted.

**`Trace`.** Each `Expand` is a batch of `trace_cable` with what is committed
then; the batch's other selects find no more than the first has decided, since the rows of a committed
cable never change, and a device's ports and mappings are committed together, before a cable can end at any of them.
That is also why `Mappings` is a constant. `Answer` is `_longest_path_containing_cable`. Rows come in no order, so a
batch is any part of the frontier, which includes the code's. `Dfs` is `dfs` as it
recurses, with the path so far as its argument, and what it comes by as its value: a branch is taken back before the next,
so the order of the branches decides only which of several longest walks is kept. It is a recursive function, on paths
that visit no port twice, so that theorems can speak of it.

**`RateLimit`.** `Arrive` takes the time, `Upsert` counts (`place` is the count
it returns), `Cleanup` deletes when due; both may fail before or after they took
effect. `Decision` and `OnError` are the answers of the limiter and the
middleware. One process handles one such request at a time, because `consume`
runs on the event loop. `limit` is the setting `rate_limit_requests`: `Init` chooses it, for all
processes, and nothing changes it, so that one run sees several.

**`Access`.** `BeginToken`/`ReadByEmail`/`Link` are `authenticate_actor` and
`resolve_oidc_actor` after the signature was checked, `BeginHeader` the demo
header, `Resolve` and `Principal` `resolve_principal`. `Handle` is the handler:
create a grant, revoke one (`LoadGrant` and `CommitRevoke` apart, since the row is
loaded first), or any other commit under its permission. The link is held by the
request and kept only by a commit.

**`KeyCache`.** `Hit`, `Miss`, `Fetch`, `Put`, `Clear` are the critical sections
of `_JwksCache` and the fetch between them. The time a set was fetched
(`fetched`) is recorded by the model and is no part of the code.

**`Reports`.** One step is one select of `export_cable_schedule` or of the compliance
report: count, rows, ends, places level by level, routes, event; cables, labels, cables
again, terminations cable by cable. `held` remembers, for the properties only, which
cables matched all along and which findings were true at some time. `Work` and `CreateLabel`
are what others commit meanwhile.

**`HttpBoundary`.** One action is what `dispatch` does between two points where it gives way:
a request is answered (426, 403), handed to a handler, or in the limiter, whose actions are
`RateLimit`'s. `Accepted` is the validator of the settings.

**`Provisioning`.** A job is a run of `seed`, `bootstrap_tenant`, `demo_context` or a
member's request. `todo` holds the entries of unique indexes that it still inserts, in the
order of its code; `Insert` waits for an entry that another job holds (`Waits`) and fails
over one that is committed. `CommitTenants` and `CommitRows` are the two commits of the seed.

**`TenantIsolation`.** `at` says which of `get_db`, `get_principal` and the handler a
request is in or waits for a thread for. `Connect` is `set_config`, which takes the
connection; `Released` is what the end of a transaction does to the setting. `Flush` asks
`GuardAccepts` (the session hook) and `DatabaseAccepts` (policies, trigger); `Visible` joins
`FilterShows` and `PolicyShows`. `dialect` is chosen at the start, since SQLite has the
filter and the guard alone.

## 3. What the runs check

| run | question | properties |
|---|---|---|
| `workflow_concurrent` | what survives two requests that overlap at every read and commit, two supervisors among their users | `SeparationOfDuties`, `InServiceHasApprovedPass`, `AuditNamesActors`, `OrderStatusHasEvidence`, `ImplementsPromise` |
| `workflow_serial` | what is kept of two cables when requests do not overlap | `TestColumnsAgree`, `AuditIsAHistory`, `FollowsLifecycle`, `VersionCountsChanges` |
| `workflow_overlap` | whether that needs requests not to overlap | `FollowsLifecycle`, violated |
| `racks_concurrent` | what survives two overlapping placements and elevations, over six blueprints | `InsideRack`, `DevicesAreComplete`, `MappingsAreLanes`, `ElevationAddsUp`, `OverlapsOnlyUnseen` |
| `racks_overlap` | whether two devices may come to overlap | `NoOverlap`, violated |
| `cables` | overlapping cables that wait for each other's ports, and what traces, schedules and compliance reports say meanwhile | `PortsHoldOneCable`, `CablesAreWhole`, `TraceIsAWalk`, `TraceIsWhole`, `CreatesAreAtomic`, `SchedulesAreHonest`, `FindingsWereTrue`, `EveryRequestEnds`, `TraceEnds` |
| `boundary` | a shared quota of one or two under failures, delays, cleanups and restarts, who gets past it, and whether what answers say of it comes true | `QuotaHolds`, `RefusedOnlyWhenFull`, `HandledWhenAdmitted`, `AnswersAreHonest` |
| `access` | links, grants and revocations by overlapping requests | `ActsAreAuthorised`, `TrustIsRooted`, `LinksAreUnique`, `RevocationsAreLogged`, `LinksStay` |
| `keys` | a key rotation while two requests verify | `RetiredKeysExpire`, `PublishedKeysAreFound` |
| `provisioning` | bootstraps, seeds and a member's requests that overlap and die | `TenantsAreWhole`, `NoDeadlock`, `AnswersAgree` |
| `provisioning_crash` | whether a seed that is run again answers the same | `SeedIsIdempotent`, violated |
| `isolation` | sessions of two tenants and of the platform on one connection and one thread | `ContextIsExact`, `RowsStayPut`, `EveryRequestEnds` |

Some of these are worth a word, because they say less, or more, than they seem to.

- `AuditIsAHistory`, `TestColumnsAgree`, `FollowsLifecycle` and `VersionCountsChanges` hold in
  series only: with two requests the loaded row may be old when it is written.
  The first group of `CableWorkflow` holds regardless. So the four do not speak of the overlaps that
  `PROJECT.json` names as hazards of the same lines; `workflow_overlap` shows one of them.
- `AuditNamesActors` does not say which event is the last. An event has its timestamp, the only order of the log, from
  the flush that inserts it (`audit.py` 38, `models.py` 535), and an UPDATE may wait for a lock after that. Of two
  approvals of one record, or two installations of one cable, that overlap, the one with the later timestamp may be the one
  whose name was overwritten. What holds is that the row names one of those whom the log names, and
  that the log never names the tester. The variable `audit` of all modules is in the order of the commits,
  which agrees with the timestamps on requests of which one ends before the other begins;
  only `AuditIsAHistory`, in series, uses that of the workflow. `CreatesAreAtomic` and what `Access` says of before and after
  mean commits.
- `OverlapsOnlyUnseen` is what the check of overlaps achieves under
  concurrency: a device is never stored over one its request saw.
- `TraceIsWhole` compares the answer with the ports that were connected when the trace
  began; what is connected later may or may not be in it.
- `RefusedOnlyWhenFull` is the other side of `QuotaHolds`. A limiter that lets nobody
  through satisfies one of them.
- `AnswersAreHonest` speaks of places, not of requests let through: a request that is counted and then fails, or whose
  process stops, uses up one of the places that another answer called remaining.
- `LinksStay` allows one request to overwrite a link that was committed after it
  read the identity, since nothing in the code prevents it, and no other.
- `CreatesAreAtomic` is about what is stored. That a request is refused, or ends with a deadlock, although
  its cable would have been granted in some order, is left open: the code does refuse such requests.
- `SchedulesAreHonest` allows a full schedule to miss a cable that was there all the
  time, when another came in between the count and the select: the code does.
- `FindingsWereTrue` asks of each finding that it was true at one moment, not that all
  were true at the same moment.
- `AnswersAgree` speaks of what was answered; what a seed leaves out is `SeedIsIdempotent`.
- `ContextIsExact` compares each layer with the rows of the tenant, so that on PostgreSQL
  the policies alone would do, and the filter never hides what they show.
- `TrustIsRooted` is about chains: a grant stays in force when the grant that
  allowed it is revoked, and the property says how far that goes.

### Bounds

- **Two requests** in most runs, three in `boundary` and `provisioning`, one in `workflow_serial`. Each
  request has one to five steps and every rule relates two rows or two requests. The theorems cover any number.
- **`CableWorkflow`**: one cable and two test records, so that a failed, a passed
  and a repeated test occur; in series two cables, which may share a work order. Requests for different cables
  that share an order do not overlap in any run: there `OrderStatusHasEvidence` rests on its theorem. The log and
  the versions are bounded by the test records and the installable statuses, not by
  a guard. Users and permissions are those of `seed.py`, or two supervisors who approve the same records.
- **`RackPlacement`**: racks of up to three units (`MaxHeight`; 60 in the schema), devices
  of up to two (`MaxUnits`): one can touch, overlap by one end, overlap fully, stick
  out at the top and lie on a reserved unit. The six blueprints of `MCRackPlacement`
  are the shapes that differ in the sort and the zip; `OneOfAKind` has two templates at once only of
  switches, as devices of several blueprints do not meet otherwise than by their units.
- **`Connectivity`, `Trace`, `Reports`**: five copper ports on two lanes and one fibre port, two cables: they can
  share neither, one, or both ports, also crosswise, a medium can be wrong and a route segment missing; they make
  lines of up to five ports and rings of two and four. `BatchSize` 2 and `MaxTraceNodes` 4 stand for 100 and 500, so that a line
  needs several batches and one is too long; `Limit` 1 for 10 000, so that a schedule can be full.
  `MCReads` lets one reader run at a time, since none changes what another reads, and reports run beside one request.
- **`RateLimit`, `HttpBoundary`**: three requests of four shapes. `Limits` {1, 2}: against a limit of one, one request can be late, one fill the window and one
  clean up or be refused; against a limit of two, an answer leaves one place, which another takes, fails on, or is refused after.
  `CleanupInterval` 2 lets a process clean up with one request and not with the next; `MaxTime` 4 and `Window` 2 give three
  windows, of which the first expires and is deleted; `MaxDelay` 2 equals `Retention`,
  the edge of the assumption. A process that fails closed beside one that fails open.
- **`Access`**: two tenants, three identities, two subjects (one of them with two e-mail
  addresses), two grants, a location and its parent. `MaxEvents` 3 bounds the log: create, revoke, act is the
  longest chain that the properties relate. `MaxTime` 1: a grant that begins and one that ends at 1.
- **`KeyCache`**: two keys, `TTL` 2, `Delay` 1, `MaxTime` 4: a set put late expires within the run.
- **`Provisioning`**: three jobs make the longest circle that three kinds of inserts could; one identifier stands
  for each part of the site, and a member may take two of them.
- **`TenantIsolation`**: two requests, one connection and one thread are enough for the circle of waits; two
  tenants; each request flushes once.

Symmetry is used for requests, test records, identifiers, templates and grants, never in a run
with a liveness property. Deadlock checking is off where the system may stop, because every
test record, identifier or job is used or the clock is at its bound; in `keys` it is on.

### Fairness

`Spec` has none. `Connectivity!FairSpec` asks strong fairness of each request's
progress: a thread that can go on does, PostgreSQL looks for deadlocks after
`deadlock_timeout`, and a waiter is woken when the holder ends, so it does not
lose the entry to later requests for ever. `Begin` and `Abort` are not fair.
`ReadsSpec` adds weak fairness of the one request thread that runs the trace.
`TenantIsolation!FairSpec` asks weak fairness of each request: a free thread or connection is
given to somebody, code that runs goes on, and the timeout of the pool passes. A request is
served once, so a waiter cannot be overtaken for ever. `Provisioning` needs none: that jobs can always
go on is the invariant `NoDeadlock`.

## 4. What the proofs show

TLAPS checks all proofs; none rests on anything but the named assumptions on
constants: `None` is no value of the other sets; locations are finitely many and their parents
are locations (`Access!ParentsAreLocations`); ports and cables are finitely many (`Trace!GraphIsFinite`),
mappings are lanes of two ports that share none (`Trace!MappingsAreLanes`, which `RackPlacement` keeps of the
devices, `TracesGetLanes`); identifiers order the cables (`Reports!CablesAreOrdered`); emails, slugs and rows of the site are entries of
different indexes (`Provisioning!NamesDiffer`), and members take neither the project nor the work order of the site
(`Provisioning!CreatedByApi`: no handler makes projects, a work order needs one by a foreign key that is not null, and the seed
commits its project and its work order together, so nobody has taken the number before); bounds and limits are sizes; the settings pass
`validate_security_configuration` (`RateLimit!Configuration`, `HttpBoundary!SettingsAreAccepted`);
clients and connections are finitely many (`TenantIsolation`); **`RateLimit!RetentionCoversDelay`**, that a request is counted within the
retention of the row after it took the time, an hour by default; `KeyCache!Configuration`.

Two bounds on time are part of the models' clocks, for any value: a limited request is
counted at most `MaxDelay` after it took the time (`RateLimit!Tick`), and a key set is cached
at most `Delay` after the issuer answered (`KeyCache!Tick`). The HTTP and database timeouts keep
both small; the code itself bounds neither. No time passes in `KeyCache` while a
request that decided still counts as accepted or refused, so the properties speak of that moment.

Each theorem follows from an invariant that is inductive for any number of requests:

- **`CableWorkflowProofs`**. `SeparationOfDuties` and `InServiceHasApprovedPass` are not
  inductive: a commit writes what the request loaded long before. `IndInv` adds
  that a pending test still has its record to itself, and that what a pending approval has
  loaded of its record is still true, since cable, tester and result never
  change and a submitted record only becomes approved. From it,
  `WorkflowImplementsPromise`: each action is a step or a stutter of `Commissioning`.
  `OrdersHaveEvidence` and `LogNamesActors` add what a commit does to the work order and what its event adds
  to the log; the second needs that no installation has loaded a cable with an installer (`InstallerUnset`).
  `SerialInv`, under the hypothesis that there is one request thread, adds that whatever a request has
  loaded is what is stored (`Fresh`), and that a cable with a test record is past its tests (`OnTheWay`): from
  it follow the four properties of `workflow_serial`, for any number of cables, records and work orders.
  `PromisedService` and `PromisedIndependence` prove of `Commissioning` alone that service needs an
  approved pass and that approvals are independent, which makes the refinement worth having.
- **`RackPlacementProofs`**. `Shape`: a request about to insert holds what its
  checks found, which cannot have changed, because racks and templates are never updated and devices
  are never removed. `NoOverlapInSeries` adds that with one request nothing
  else can have been placed meanwhile. `DevicesHaveLanes` is about sort and zip: the rank of a port in its
  group is one-to-one onto `0 .. n - 1` and follows the order, so pairing equal ranks is one-to-one,
  monotone, and exhausts the smaller group. `EveryDeviceIsComplete` joins ports and events, which it counts.
  `TracesGetLanes` puts the devices together: what `Trace` assumes of its constant `Mappings` holds of all that devices store.
- **`ConnectivityProofs`**. `Shape`: an entry that a request holds is not stored,
  and no two requests hold the same one. This is what the unique indexes give, and with it
  a port takes one cable however late the insert is. `Reports` and `Trace` build on it: cables are only added and
  keep their rows, so what a reader holds stays true of the cables it has read.
  - `FindingsAreTrue` and `SchedulesStayHonest`, from `ReadsInv`: each finding that `held` remembers was read, or follows from
    what was read, when it was true; a schedule's rows, ends and routes are those of the stored cables, since
    nothing changes them, its places lie above the ports of its rows, and the rows were all there were when they
    were selected, unless the limit cut them.
  - `TracesAreWalks` and `TracesAreWhole`, from `TraceInv`. While a trace expands (`TraceCollects`), it has reached nothing but
    by the edges it has read, and whatever it owes is reached by those and the edges that touch no
    port it has visited (`Unread`). Committing a cable only adds edges, so the invariant is kept though no two
    batches see the same graph. Once the frontier is empty, the visited ports are closed
    under both, so they include what is owed. The rest is about the search, `AnswersCover`: in a connected graph
    where at most two edges meet at a port, a longest walk from a port of one edge, or from any port if there is none,
    visits all ports (`LongestCovers`), since a walk that cannot be extended leaves no edge that
    leads out of it (`LongestIsFull`); and there is one of that length that takes the traced cable: if it is
    the edge that closes a ring, walk the other way round (`OtherWayRound`). That at most two edges meet
    is what `PortsHoldOneCable` and `MappingsAreLanes` give (`GraphIsPlain`).
    That `dfs` comes by exactly the walks from its port (`SearchesFindEveryWalk`) takes two steps: what begins with a path is
    that path and what begins with one hop more (`BeyondUnfolds`), so the recursion has a solution; and it has no other, or
    the longest path on which another differs would be right after all (`DfsGoesBeyond`; paths have at most as many nodes as there are ports).
  - `CreatesBehaveAtomically`: overlapping requests implement `AtomicCables`. Only `Commit` changes what it shows, and then
    the request holds its identifier and both ports, so the check of `AtomicCables` holds at that moment although the
    code made its own long before. Beside `Shape` it needs `AskedFor`: what a request is about to store is what was asked for.
  - `OnlyCrossedCablesDeadlock` and `RequestsMoveOn`: a request waits for one other at most; a member of a deadlock has its
    side A and waits with side B; and if all requests under way wait, a smallest set of them that wait within the set
    is one the database takes for a deadlock (`WaitersMeet`). The second assumes finitely many request threads.
  - `TracesGetOn` and `TracesAreNeverStuck`: what is queued has not been visited (`QueueIsNew`), so each batch adds ports to those
    visited; there is a batch as long as something is queued (`SubsetOfSize`), and then a walk to answer with
    (`ReadToTheEnd`, `AnswersCover`), so `trace_cable` never falls back to the cable alone.
- **`RateLimitProofs`**. `Inv`: while the row of a window is there, the places it gave
  are those from 1 to its count, each to one request; once deleted, the window is too
  long past for any request to be counted in it. The bound of the quota is then a
  fact about cardinality: an injection into `1 .. limit`. Every step of `HttpBoundary` is a step
  or a stutter of `RateLimit` (`BoundaryIsLimited`), so the quota holds there too; that handlers are reached only
  past every check and that answers do not lie follow from what `dispatch` remembers of a decision.
- **`AccessProofs`**. `LinkInv`: nobody else holds the identity or the subject that a request
  links, and no other identity has the subject. `RootInv`: whoever a request was resolved
  for, and whoever made a stored grant, has authority that goes back to members; more grants only add to those.
  `LogInv`: a grant is created once in the log, before its revocations. `ReadUnlinked`: a request that is
  about to link saw the identity unlinked; if it is linked by now, the log says so behind the place the request read up to.
  `AuthorityInv`: behind every permission of a resolved request, and of every event, stands a membership, or a
  grant that was created before the request began, not revoked before, and covers it; grants keep their terms, so later
  revocations change nothing. It rests on `WalkGoesUp`: what the walk up the locations (`Descends`, a recursive function) finds
  is an ancestor. That the recursion has a solution at all is shown by the least set of places
  from which the walk arrives; that it finds only ancestors, by the place outside the ancestors with the fewest
  locations left to visit. Nothing is assumed of the parents, which may form cycles.
- **`KeyCacheProofs`**. `IInv`: a set that is cached was published when it was
  fetched and expires at most `Delay + TTL` later; after its `Clear` a request finds
  nothing older than `Delay` before it began.
- **`ProvisioningProofs`**. `Inv` says how far a job of each kind can be (`Follows`), that nobody has what a
  job holds uncommitted (`HoldsNew`), and that between its commits a seed has all its tenants and people
  (`CommitsOK`), without which no row of the site exists. `TenantsStayWhole`, `AnswersStayTrue` and
  `JobsNeverDeadlock` follow, the last from `Rank`: all code inserts people before tenants and both before the
  site, each in a fixed order, so the job that holds the entry of the highest rank among those waited for
  waits for nobody.
- **`TenantIsolationProofs`**. `IInv`: a connection has one holder, a request of a tenant that is
  past `get_db`; its setting is the tenant of the holder and an idle one has none; what is flushed
  is of the session's tenant and no audit event. `NoStallInALull` counts: holders of connections that need a thread and threads
  that need a connection are different requests, so the circle takes as many as both together.

Only model-checked, because the prover cannot reach them: the liveness properties (`EveryRequestEnds` of
`cables` and of `isolation`, `TraceEnds`), which need fairness. What is safe about them is proved: `TracesGetOn`
gives the measure by which a trace ends and `TracesAreNeverStuck` the next step it has, `RequestsMoveOn` that requests never wait in a way the database
would not end, `NoStallInALull` when threads and connections can stall. Every other property of a passing run is the
statement of a theorem.

## 5. Where the code and its documents differ

- `workflow_overlap`: two overlapping requests take a cable back along the
  workflow. The status that `mark_installed` checks is the one it loaded, and its
  UPDATE has no condition on what is stored by then.
- `racks_overlap`: two overlapping requests place two devices on one unit. No
  constraint speaks of rack units.

- `provisioning_crash`: a seed that dies between its two commits leaves a tenant
  without its site, and every later seed answers with empty identifiers and repairs nothing. The
  documents call the seed idempotent.

All are listed in `PROJECT.json` with the lines of the documents.

## 6. What is not modelled

- `rate_limit_enabled` (`http_security.py` 115): `HttpBoundary` has the limiter switched on.
- Text: identifiers, labels, QR images, CSV, error messages, most headers.
- The other dialect, outside `TenantIsolation`: SQLite's limiter upsert and its locking. PostgreSQL is the
  deployment the documents describe.
- Tokens: signatures and claims are a library's. `Access` starts from verified tokens.
- Tenants, outside `Access`, `Provisioning` and `TenantIsolation`: the other modules are one tenant. Permissions, outside
  `CableWorkflow` and `Access`: a request has what its operation needs.
- The table `tenants`, whose policy `tenant_self` differs from the others, and the tables without a policy.
- Reads that return rows and decide nothing (`list_cables`, dashboard, search): one statement each.
- `create_location` and `create_pathway`: single inserts under a parent that no code changes or deletes.
- The limiter in memory, for one process in development: a dictionary behind a lock.
- The web clients. `useApiResource.ts` shows the answer that came last, which need not be the one
  asked for last; it is listed as a hazard that no property covers.
- The schema migration, configuration and schemas beyond the conditions that the modules use: declarations.

## 7. What could be added

1. The policy of the table `tenants` in `TenantIsolation`, and a tenant's own standards profiles, once code creates them.
2. An `ApiResource` module for the order in which a page stores its answers.
3. Schedules as one snapshot of `AtomicCables` where the code gives one.
