# laneq in TLA+

laneq is a durable work queue kept in one SQLite file. Workers, operators and
services open the file from their own processes (command line, MCP server, gRPC
service, stage bridges); nothing runs in the background. Everything laneq
promises - a claim is exclusive while its lease lasts, a protected directive is
executed once, a deferred directive comes back when it is due, a handoff settles
a stage and publishes its successors or does neither - is therefore a property
of how SQLite transactions of many processes, and the clock readings those
processes make, interleave. That is what this project models, checks with TLC
and, for every safety property, proves with TLAPS.

Source paths below are relative to `src/src/laneq/`.

## 1. Inventory

| Component | State | Operations | Interacts with |
| --- | --- | --- | --- |
| Queue operations (`core.py`, reclaim helpers of `cli.py`) | table `directives` | push, take, set_status, defer, touch, park, unpark, reap, reprioritize, and the reclaims that peek, list, stats, thread_status, ... perform before they read | all front ends call it; each call opens its own connection |
| Thread traversal (`core.py` 400-434, `cli.py` 482-531) | none | thread_status, show, over ancestors, descendants and thread_rows | reads `parent_id` and `status` row by row |
| Stage admission and handoff (`stage_admission.py`, `handoff.py`, `handoff_contract.py`) | tables `stage_admissions`, `handoff_receipts` | admit, complete, get_receipt | inserts and finishes rows of `directives` in its own transactions; relies on take, touch and park for the claim |
| Root reservations (`root_reservations.py`, `reservation_contract.py`, `root_inspection.py`) | tables `reserved_roots`, `reserved_paths` | admit, record_delivery, inspect | calls stage admission in its transaction; reads receipts to prove a lineage |
| Bridges (`stage_bridge.py`, `admission_bridge.py`) | none | claim, inspect, renew, complete; admit, inspect | several core calls per operation, pinned to one lane or one grant |
| Schema migration and backups (`cli.py` 103-258, `sqlite_init.py`) | schema, backup files | connect, migrate, backup, prune | runs inside every `connect()` |
| gRPC service (`grpc_server.py`) | none | one handler per core function | Take, Peek and Touch put their reply together from several transactions |
| Authentication (`auth.py`, `grpc_auth.py`) | replay cache of nonces | verify_grant, verify_proof, the interceptor | in front of the gRPC handlers |
| MCP server, command line (`mcp_server.py`, `cli.py`, `handoff_cli.py`) | none | one wrapper per core function | |

What is hard here:

* **Clock readings age.** `reclaim_expired_leases`, `reclaim_deferred` and
  `reap_stale` read the clock *before* `BEGIN IMMEDIATE`, which waits for the
  write lock up to ten seconds; the reading is then compared with leases written
  meanwhile.
* **Some calls are one transaction and some are not.** A mutation under a claim
  token opens its transaction first; the same mutation under `--force` checks the
  policy, reclaims, promotes and updates in four separate ones, and may die
  between any two. Bridges, gRPC replies and thread reads are several as well.
* **Tokens outlive claims.** A worker whose lease ended keeps its token and goes
  on using it.
* **Nobody sweeps.** Expired leases end and due deferrals return only because
  other calls happen to sweep.
* **Replies get lost, requests get repeated.** A handoff is repeated by a worker
  that does not know whether its first attempt was committed; a signed gRPC
  request may arrive again at any time.
* **Protected directives (`recovery_policy = 'hold'`)** must keep the identity of
  their only claim through every path that releases ordinary ones.

`PROJECT.json` lists each hazard at its line with the properties that watch it.

What makes each component correct:

* Queue: leases are honoured; a token names one directive; a protected directive
  is never released or finished generically; finished work stays finished; lost
  claims are counted once; take never lets worse work overtake; promotion never
  early, and not never; a released row carries nothing of its old claim.
* Threads: an answer "done" is true; no answer overlooks a directive.
* Admission and handoff: one directive per key and content; settlement is atomic;
  a receipt is final and every acknowledgement agrees with it.
* Reservations: writers of overlapping paths exclude each other; dependencies were
  delivered; a recorded delivery has an unbroken lineage of receipts; an inspection
  is not overtaken.
* Bridges: a client that was told of a stage has the only claim there will be on
  it, and the lease it was told of is the one that claim has.
* Migration: two openers migrate once; from the first statement to COMMIT there is
  a backup of exactly what is committed; whoever connects finds the whole schema.
* Service and authentication: a request is verified once by a server; a reply speaks
  of the claim whose token goes with it, and shows the lease that claim has.

## 2. Modules

| Module | Content |
| --- | --- |
| `Directives` | the table `directives` and the SQL statements that rewrite it, as operators on a function from ids to rows |
| `Queue` | the calls of `core.py` as transactions of concurrent processes: variables, actions, `Spec` |
| `QueueProperties` | safety, action and liveness properties, and the fairness for the latter |
| `StageLedger` | abstract specification: keys keep their tasks, a stage is settled once, with its successors |
| `Handoff` | `stage_admission.py` and `handoff.py` over `Queue`: its variables, its actions, `HandoffSpec` |
| `HandoffProperties` | what consumers that chain stages rely on, and the refinement mapping to `StageLedger` |
| `Reservations`, `ReservationProperties` | `root_reservations.py` and `root_inspection.py` over `Handoff`; what producers and publishers rely on |
| `StageBridge`, `BridgeProperties` | `stage_bridge.py` over `Handoff`: clients pinned to a lane; what a launcher relies on |
| `Threads`, `ThreadProperties` | the calls that read threads, SELECT by SELECT, over `Handoff` |
| `Service`, `ServiceProperties` | `grpc_server.py` behind `grpc_auth.py` and `auth.py`, over `Queue` |
| `Migration`, `MigrationProperties` | `connect` and `migrate` of `cli.py`: openers, the write lock, the backup files, failures |
| `MCQueue`, `MCHandoff`, `MCBridge`, `MCThreads`, `MCReservations`, `MCService`, `MCMigration` | definitions for TLC's instances |
| `QueueProofs`, `RowProofs` | theorems about `Queue`, the second using the first |
| `HandoffProofs`, `BridgeProofs`, `ReservationProofs`, `ThreadProofs`, `ServiceProofs`, `MigrationProofs` | theorems about the modules they are named after |

How they are composed:

    Directives - Queue - Handoff - Reservations
                   |        |---- StageBridge
                   |        '---- Threads
                   '---- Service                     Migration

A module on the right extends the one on its left: a step of the lower module is
a step of the upper one that leaves the upper state alone, as in the code, where
all of them write the same file. `Migration` stands alone: no call reaches a
table before it has ended. `StageLedger` is implemented by `Handoff`.

### State and actions against the code

`directives` is the table. A row that is not inserted has status `"absent"`; ids
are given upwards (`AUTOINCREMENT`) and no code deletes a row. `NULL` is 0, and
times and tokens start at 1. The columns `body`, `created_at`, `done_at` and
`taken_by` are displayed and never decide anything in the queue, so they are
left out. `now` is the wall clock in whole seconds,
the resolution every timestamp is stored with. `issued` counts claim tokens; a
fresh `uuid4` is the next number. `call[p]` says which multi-transaction call
process `p` is inside of and what its next transaction is. `committed` is the
instant of the last commit. `granted[k]` is history: what the service last
promised the holder of token `k`, erased when the holder, a forced call or
`reap_stale` gives the claim up. No action reads it.

**One action is one SQLite transaction.** Write transactions exclude each other
(`BEGIN IMMEDIATE`, or the first write statement), so a call that is one
transaction is one atomic action by whichever process (`Take`, `SetStatusFenced`,
`DeferFenced`, `TouchFenced`, `ParkFenced`, `ParkForced`, `Reprioritize`, `Reap`).
A failed or killed transaction is rolled back by SQLite and is no step at all;
`TakeNothing` and a fenced mutation whose guard matches no row are steps, since
their sweeps are committed. Calls of several transactions go through `Check`
(the read of the recovery policy), `Reclaim`, `Promote` and their last
transaction (`SetStatusForced`, `DeferForced`, `TouchForced`, `Unpark`, `Push`, or
the return of a reading call), and `Abandon` ends them between any two. Arguments
that earlier transactions do not depend on are chosen in the last one.
`take --reap-stale` is `Reap` followed by `Take`.

**Clock readings.** `EarlyReading`: a reading made before the wait for the lock is
any instant up to now. This is more than SQLite's timeout permits (ten seconds),
so what holds here holds for every timeout. `LockedReading`: a reading made inside
the transaction lies between the previous commit and now; two readings in one
transaction are ordered. The two sweeps of a call and its own UPDATE each read the
clock (`cli.py` 294, 370), so these actions take three readings, t <= v <= u.
`utc_now` and `utc_after` in one UPDATE are one reading.
The fenced path of `set_status` and `defer` reads the policy before its
transaction; this read is folded into the action because the policy of a row never
changes and a worker has no token of a directive that does not exist yet.

**Handoff.** `Handoff` adds the column `body` (there it decides: it is what a
handoff digests), the tables `admissions` and `receipts` as functions from their
primary keys, and `acks`, the history of handoffs whose success reached a client.
`AdmitRoot` is `stage_admission.admit`; `Complete` is a first `handoff.complete`,
one transaction that checks the input, checks the claim at one clock reading,
inserts the successors in order, seals the receipt and finishes the directive
under a check at a second reading; `Replay` is a repeated one. Any failure rolls
everything back and is no step, and so is a crash; `Reply` lets an acknowledgement
be lost. All successors of a manifest are inserted at once: `IdOf` gives the n-th
new task the id `AUTOINCREMENT` would (the keys of one manifest are distinct, so
the order of the inserts shows only in the ids). Digests are modelled by what they
digest; size limits and the JSON form of a manifest are left out. Every action of
`Queue` is an action of `HandoffSpec` too (`QueueStep`); a push chooses a body.

`StageLedger` is the promise without claims, leases, ids or retries. The mapping
takes a key to the fingerprint it was admitted with and a directive to the
manifest in its receipt; `ImplementsLedger` says every step of `HandoffSpec` is one
step of the ledger or none.

**Reservations.** `reserved` is the two tables of grants and paths, `delivered` the
rows that have a delivery digest; `Active` are the others (`delivery_digest IS NULL`).
A lane of a stage, `"dev:review"` in the code, is the pair
`<<"dev", "review">>`, and a path the sequence of its parts, so that the SQL that
compares `path` with `path || '/'` prefixes becomes `Overlap`. A grant stands for its
digest and a manifest's `evidence` for `receipt_digest`. `Reserve` is the whole
transaction of `admit` (dependencies, resources, both inserts and the admission of
the root as `Handoff` inserts it), `RecordDelivery` that of `record_delivery`, which
walks from the publication up to the root (`LineageReaches`); `Repeat` is either of
them asked again. What `root_inspection.inspect` answers about a grant (absent, unreserved, conflict
or receipt) is a function of the tables, `Inspection`; `InspectionIsFinal` speaks of how
that answer may change. The admission bridge compares a stored
reservation with its pinned grant and calls one or the other. `LineageDepth` is 64 in
the code and 6 in the run, which is exactly the longest chain there (one round of
repair); the mutant that stops one stage earlier is caught.

**Stage bridge.** A client `c` is pinned to `Owner[c]`: a lane, a lease and the lanes
of successors. `claim` is `Take`, then the search for the admission of what was taken
(`Identify`), then `inspect`; `renew` is a checked read, then `TouchFenced`, then
`inspect`; `inspect` is one read transaction (`Snapshot`); `complete` is one
transaction of `Handoff`, behind `lookup`. Between any two the client may die
(`Leave`); a check that fails raises, so the operation can only be left. `lookup` and
`require_active` of renew are two reads in the code and one in the model: admissions
and lanes never change, so the first may be moved to the second. A touch whose guard
fails has committed its sweeps and raises.

**Threads.** `walk[q]` is where a reader is in `thread_status` or `show`: after the two
sweeps every SELECT is a step (`Climb` one row of `ancestors`, `ReadRoot`, `Visit` one
pop of the stack of `descendants` with the SELECT of its children), and anything may
happen in between. Rows and stack are sequences in the order of the code (children
by priority and id, pushed in reverse). Listing with a thread reads what
`thread_status` reads. `closed`, `began` are history that only properties read.

**Service.** The server is one event loop, and no handler awaits between its calls of
core: it runs one request at a time, but other processes run between the
transactions. `Receive` is the interceptor in its three modes with the grant's and the
proof's windows and the replay cache (`Remembered` are the nonces still kept, `Ttl` the
time they are kept); Take is the optional reap, take, and the two sweeps and the SELECT
of `show`; Peek ends in `show` too; Touch reads the lease after its COMMIT. A request
stands for its message with the proof sent with it: genuine, under a nonce of its own,
and delivered any number of times. `Restart` empties the cache, as it is kept in
memory: once per server is what the code can promise. Milliseconds are turned into
seconds as the code does (`LeaseSeconds`).

**Migration.** An action is one step of `connect` or `migrate` between which another
process can act or this one can die: reading whether the file exists (`Start`),
opening it (`Open`), the plan without the lock (`FirstPlan`), BEGIN IMMEDIATE and the
plan under it (`Lock`), making, checking and pruning backups (`Copy`, `Verify`,
`Prune`), each statement (`Apply`), COMMIT. `Fail` is an exception or the death of
the process at any of these places: SQLite drops what was not committed, and only
an exception in `backup_database` removes the backup file. A plan is the set of
steps that are missing, executed in the order of `Steps`. A backup remembers the
content it copied and whether the copy was completed; its name is the second and
a counter, compared as the code compares file names (one digit, so that the order of
the texts is that of the numbers). Pruning is taken as one step; a death between two of
its unlinks leaves more backups than pruning would, and no property depends on it.

### Assumptions, named

* The clock does not go backwards and all processes share it (one host, as the
  SQLite file demands).
* `uuid4` does not repeat.
* `KnownIds`: when TRUE, callers name only directives that exist when the call
  begins. Run `queue_unknown_ids` shows what happens without it.
* `PlainStatuses` (a premise of some theorems): set_status is asked for pending, done or
  dropped only, as the command line (`cli.py` 612-620) and the MCP server
  (`mcp_server.py` 101-123) do. Run `queue_grpc_status` shows what gRPC allows beyond.
* `Orderly`: when TRUE, directives are pushed only below open ones and nobody reopens a
  finished one. This is a discipline of callers, not of the code: it holds for instance
  when children come from handoffs. Run `threads_moving` shows what happens without it.
* `Unattended`: when FALSE, no two backups are made within one second. Run
  `migration_same_second` shows what happens without it.
* `DirectivesAssumption`, `QueueAssumption`, `HandoffAssumption`, `BridgeAssumption`,
  `ThreadsAssumption` and `ServiceAssumption` give the constants their ranges;
  `ReservationsAssumption` says of grants what `parse_reservation` enforces;
  `MigrationAssumption` that no two steps of a plan are the same.
* Bounds for TLC, all guards or ranges of constants: `MaxId` rows, `MaxTokens`
  claims, `MaxTime` on the clock, `LastGrant` on the instant of a grant,
  `MaxRequeue` on the requeue count of rows that forced calls may requeue again,
  `MaxWrites` and `MaxSuffix` in `Migration`.

## 3. Runs

| Run | Question | Result |
| --- | --- | --- |
| `queue_claims` | two directives of two priorities, two claims, one long call and workers with any token: types, leases, token identity, protection, parents, columns; does take pick the head? | holds |
| `queue_calls` | one directive raced over by two multi-transaction calls with old readings and deaths, any status gRPC may set: is a protected one held, does finished work stay so, is every lost claim counted in the one step that ends it? | holds |
| `queue_liveness` | directives deferred on time and on each other, dependencies finished or reopened, a holder that disappears: is promotion ever early, and, under `FairSpec`, do abandoned claims and due deferrals end? | holds |
| `handoff_bridge` | a chain of stages, two conflicting results per stage, producers that admit the same keys, a manifest that publishes a settled key again, expiry, retries, lost replies, and a bridge client among them: does it implement the ledger, with every receipt complete, final and acknowledged truthfully, and is what the client was told true, its lease included? | holds |
| `reservation_chain` | four stages and their sidesteps (validation skipped, a second successor, a repair round, expiry) under overlapping, competing and dependent grants: do writers exclude each other, is a reservation released exactly when its lineage is settled, and is an inspection final? | holds |
| `migration_race` | two openers that create the file or migrate an old one, fail or die anywhere, with one backup retained: is there always an exact backup, is no step executed twice, does nobody work on half a schema? | holds |
| `threads` | a reader that visits three directives row by row while they are pushed, finished, deferred and requeued: is "done" true and is nothing overlooked? | holds |
| `service` | Take, Peek and Touch, each delivered any number of times to a server that may restart, beside another process: verified once per server, is the reply about its claim, and is the lease it shows the one that claim is promised? | holds |
| `queue_unknown_ids` | is a protected directive safe from a forced call that checked its id before it existed? | violated |
| `queue_grpc_status` | does a taken directive always have a lease? | violated |
| `migration_same_second` | is the backup just verified still there when the migration starts? | violated |
| `threads_moving` | was "done" true of the thread at any instant of the call? | violated |

Why the bounds are enough: the properties relate at most two directives, two
tokens (a holder and its successor) and two calls; three instants are needed for
a grant, an extension and an expiry, and are given where those matter
(`queue_calls`, `handoff_bridge`, `service`); two where one expiry is enough. A lease of 1 is
the boundary case: the instant after the grant is already its end. `StaleSeconds`
2 lets `Reap` spare some claims and end others.

In `queue_claims` the statuses set are done and pending, so that dependencies finish and
requeues meet the claim columns; claims are granted up to instant 1, the end of the first
lease and of the deferrals. In `queue_calls` `MaxRequeue` is 2: a forced requeue reaches a
row whose claim the same call's reclaim has counted, and a row requeued twice. The count
decides nothing, so the bound cuts off repetitions only.

In `queue_liveness` the lease is 2, so that a claim made at the first instant
outlives a deferral to instant 2 and ends at the last one; `LastGrant` keeps holders
from extending for ever: a holder that touches its claim again and again does keep
it. Deferrals wait for nothing but a dependency (0), until 2, or until 3.

In `handoff_bridge` three rows, three keys and two claims give a chain of
root, successor and a second successor with conflicts at each. The lease is 2, so that
time may pass between the claim, or a renewal, and the reading of the reply. There is no
multi-transaction process in it: handoffs among forced calls are covered by the
theorems of section 4, which hold for any number of them.

In `reservation_chain` seven rows and keys hold a chain with one repair round beside
a second root; six claims let every stage of it be claimed; the priorities
are one value and no root is admitted except by a grant, so stages stay as they were
published (see the observations in section 5). In `migration_race` two openers, a plan of three steps of which an old
file has one, three seconds and one retained backup let an opener die with a
half-made backup that the next one's pruning has to rank.

In `threads` nobody claims (`Leases` is empty): a claim changes no parent, and what
a status other than done does to a reader a deferral does as well. One second is
enough, since no property of a reader speaks of time. Three rows are the least with
a root, a child seen and a grandchild or sibling that appears later; `threads_moving`
needs two.

In `service` a second has two milliseconds, so that `LeaseSeconds` meets its three
cases (0, less than a second, rounded down); the requests are signed at instant 2 and
`Skew` is 1, so all of their window 1..3 lies within the run, and `Ttl` is exactly the
window: the boundary where `RunsOnce` names its exception.

**Fairness** (`QueueProperties!Fairness`): time passes; some client polls, and its
read gets the write lock again and again (strong fairness: SQLite gives waiting
connections no queue, so a poll may lose a race, but not for ever); a call that
has begun goes on or dies. Nothing is assumed of the worker that holds a claim.
This is the weakest assumption under which laneq can keep its promise, because it
has no process of its own.

Each property has a mutant in `PROJECT.json`: a plausible slip in the modelled
code (a comparison off by one, a forgotten column, a dropped guard) under which
TLC finds it violated. The mutated forms are the operators commented "Mutant".

## 4. Proofs

All theorems hold for any number of directives, lanes, processes, tokens and
instants, and for arbitrary lease lengths, from the assumptions on the constants
alone unless a premise is stated.

**Queue.**

* `QueueProofs!TypeCorrect`: `Spec => []TypeOK`. One lemma per helper that
  rewrites rows, one per group of actions.
* `QueueProofs!LeasesAreHonoured`: `Spec => []LeaseHonoured`. The property is
  inductive once types are known. The heart is `SweepsKeepLive`: a reading that is
  not later than now, however old, never finds a live lease expired, because
  leases only end by the clock and `Expired` compares with that reading; so no
  sweep touches a row whose promise is still running. A fenced write on another
  row leaves the promise alone; on the same row its guard makes the caller the
  holder, who erases or renews the promise. For a promise to name the right row
  after `Take`, the token must be new: `granted` is 0 beyond `issued` by then or
  its row could not be taken under it, which `PromisesKept` extracts.
* `RowProofs!ProtectedAreHeld` and `!ProtectedAreClaimedOnce`, under
  `KnownIds`. `ProtectedIsHeld` alone is not inductive: a forced call in flight
  may be about to write any row. The strengthening `ProtectionInv` adds `Targets`:
  the row named by a call in flight is ordinary and exists. Every action then
  moves every row by `RowMoves`, a relation that covers what release, park, touch,
  take and reprioritize may do to a protected row; it composes (`MovesCompose`),
  so an action that sweeps and then writes is handled in two halves.
* The rest of `RowProofs` follows rows through the steps by one relation per question:
  - `ParentsAlwaysPrecede`, from `FirstRows`: the ids in use are always 1..n, so an
    insert takes n + 1 and its parent, which exists, is smaller.
  - `TokensAlwaysNameOne`: no operation but take gives a row a token it did not have
    (`TableFalls`), and take gives a number beyond `issued`, which bounds the others.
  - `ClaimColumnsAlwaysAgree`, under `PlainStatuses`, from the stronger `Columns`, which
    says of parked rows too that their deferral is gone: unpark does not look for one.
  - `TakesAlwaysTheHead`: `SweepOffers` shows that what could have been had at the last
    commit is a candidate after take's sweeps, whose reading is no earlier than that
    commit, and sweeps leave lanes and priorities alone.
  - `FinishedAlwaysStays` and `PromotionsAlwaysReady`: every row a transaction writes
    and no sweep writes is claimed, absent, parked or ready (`Loose`); sweeping leases
    finishes nothing that a deferral waits for.
  - `LostClaimsAlwaysCounted`, under `KnownIds`, says of every claim that it is counted at
    most once: only the step that ends it may count it (or a forced requeue, which counts
    for itself: on an expired claim the reclaim adds one for the claim and the requeue one
    more, `core.py` 283 and 290), that step does count it when the row goes to the queue or
    to the next worker, and the token is on no row afterwards, since a row only ever gets a
    new one (`FreshTokens`). Outside a claim only protected rows carry a token (`Sits`), and
    nothing that requeues may touch those. Without the premise a forced unpark of an id
    checked too early does requeue one, uncounted.
  - `LeasePromised`: the row taken under a token shows exactly what that token was granted.
    It is no property of a run of its own but what replies rest on: whoever reads a row under its
    token reads the promise.

**Admission and handoff.** `HandoffProofs`: `HandoffTypesHold`, `KeysNameOneDirective`,
`AcksAlwaysSealed`, `SettlementIsWhole`, `SettledByTheOnlyClaim` and
`HandoffImplementsLedger`, all under `KnownIds`, by one inductive invariant `HandoffInv`:
`Targets` as above; the rows in use are the first ones; a protected row is held until it
has a receipt and done from then on (`SettledRow`, which replaces `ProtectedIsHeld`: a
handoff does finish protected rows); a receipt seals the input of its directive, and every
successor it lists is there under its key with its content (`SealedWhole`). `DirectivesWith`
inserts several rows at once, so `InsertedIds` and `InsertedRows` say first which ids those
are: the next ones, one per new key. The queue's own steps keep the invariant by the
lemmas of `RowProofs`. The refinement maps the initial state to the
ledger's, and each action to `Admit`, `Settle` or a stutter of the ledger; that a handoff
maps to a step needs the invariant, for a key it publishes may have been there before.

*The queue in company.* The queue's own promises are proved of `Spec`, but handoff,
reservations and readers write the same table by transactions that are none of the
queue's. Those transactions do one of two things (`CompanyStep`). They insert rows that
wait and settle one that is taken, and end no promise but that row's (`Transacts`); or
they only reclaim (`Reclaims`). Both keep `QueueHolds`, which is `LeaseHonoured`, `LeasePromised`,
`TokensNameOneDirective`, `ParentsPrecede`, where a row's requeue count is due (`RowsSit`)
and, under `PlainStatuses`, the columns of claims. Both make only steps that the action
properties allow (`QueueSteps`). Each module then shows that its actions are such
steps: `HandoffsKeepThePromises` and `HandoffsKeepTheSteps`, `ReservationsKeepTheRest` and
`ReservationsKeepTheSteps`, `ReadersKeepTheRest` and `ReadersKeepTheSteps`, all under
`KnownIds`; the service does so below. `ReservationsImplementLedger` carries the
refinement on: a reserved root is admitted in a transaction of its own kind, and is one
`Admit` of the ledger.

**Reservations.** `ReservationProofs`: `ReservationTypesHold`, `WritersAlwaysExclude`,
`DependenciesStayDelivered`, under `KnownIds`, and `InspectionsAreFinal`. The invariant is the
conjunction of the properties over `HandoffInv`: a reservation is added only when nothing
active conflicts with it, which must be read from both sides (`OverlapSymmetric`), and
deliveries only grow. `InspectionsAreFinal` needs no invariant at all.

`ReleasedStaysFinished` and `FinishedCanBeReleased`, under `KnownIds`, are about the walk of
`require_lineage`, for any `LineageDepth` and lineages of any length.
* *Induction.* The walk is a function on 1..n, so its proofs are inductions. The
  library's induction theorem takes a predicate, which the provers cannot instantiate;
  `NatSets` takes a set of numbers instead. It follows from `LeastNumber`, and that from
  the library's theorem that inclusion of finite sets is well founded. `ReachUnfolds` is the
  recursion equation of the walk.
* *What is accepted is closed* (`WalkIsClosed`, `AcceptedIsClosed`): each stage the walk
  steps to published exactly the one it came from, so what it has passed is a
  `ClosedLineage` that grows downwards from the publication.
* *What is closed stays* (`LineageInv`): a receipt counts its successors and names
  directives that its keys were admitted as (`CountsSuccessors`, `NamesAdmitted`), settled
  stages and their receipts are final, so no later step can open a lineage once
  released. `ParentsBelow` says that a stage is a later row than the one that published it.
* *What is closed is accepted* (`ClosedIsAccepted`): in a closed lineage ids grow along
  the successors, so the stage below the root is reached by induction on how many
  stages lie between it and the publication (`WalkReaches`); the number of stages is the
  number of turns of the loop, hence the condition `Cardinality(S) <= LineageDepth`.

**Threads.** `ThreadProofs`: `ThreadTypesHold`, `DoneStaysFinished` and
`AnswersOverlookNothing`, under `KnownIds`. The
invariant of a reader (`Threaded`) says: of every row it has seen finished it has all
children, or the row still waits on its stack. `Grown` is what any step means to a
forest of directives (rows stay in their place, new ones go below rows that were
there) and `Ordered` what `Orderly` adds; a reader's knowledge survives both. When the
stack is empty, what was seen is closed under children, which is the set the property
asks for.

`AnswersOverlookNothing` needs no order among the calls. Its invariant `Thorough` says at
every place of a call: the root is above the item; the rows seen hang below it, each
once; and a row that was there when the call began (`began`) and whose parent was seen
was seen too, unless that parent still waits. That no row is listed twice rests on
`ParentsBelow`: a row's children are later rows, and those on the stack were never
visited. Rows pushed meanwhile may appear or not, and the property says nothing of them.

**Bridge.** `BridgeProofs`: `BridgesAreHandoffs`, that `BridgeSpec` implies `HandoffSpec`,
under `KnownIds`: every step of a client, interrupted anywhere, is a worker's call, a
handoff or nothing, and a worker's call inserts no row, so it leaves the bodies alone.
Hence everything above about `HandoffSpec` holds where bridges run; `BridgesKeepHandoffs`
states what the run `handoff_bridge` checks of it. `BridgeTypesHold`,
`ToldIsAlwaysTheOnlyClaim` and `ToldLeaseIsAlwaysGranted` are the bridge's own. A reply is
read in one transaction, so the lease in it is the promised one (`LeasePromised`), however
the operation came to it; that this lease is then kept is `LeaseHonoured`.
`ToldIsAlwaysTheOnlyClaim` is about what comes after: any step keeps a key with its
directive, a protected directive with the token of its first claim until a handoff under
that token seals it (`StepSeals`), and a token with its one directive (`QueueHolds`).

**Service.** `ServiceProofs!RequestsRunOnce`: every run of a request fell in its window and
is remembered for the ttl that began then, or that ttl is over; a request that is verified is
not remembered, so the ttl, which is no less than the window, has passed since each
earlier run. Only the clock of the queue matters.
In mode log-only a rejected request is logged and run all the same (`grpc_auth.py` 62-66):
there `RunsOnce` is about what is verified, not about what runs.
`ServiceTypesHold`, `RepliesAreOfTheirClaims`, under `PlainStatuses`, and
`RepliesTellThePromise`, under `KnownIds`, follow the request in hand (`ServeInv`). What
other processes do between its transactions is bounded by `Ages`: an old token comes on no
row it was not on, and makes no row taken. So a row that is read under the token of the
reply is under the claim, and shows what the claim is promised (`LeasePromised`); if it is
not, no row is or will be, which with `LeaseHonoured` means that the promise is over.
`PlainStatuses` is the premise of the claim columns again: callers set pending, done or
dropped. The service itself does not enforce it (finding 2 below).
In turn, to the queue the service is one more worker and reader (`HandlersInQueue`): each
call of core a handler makes is a step of `Queue` or, for the two sweeps of a Peek or a
show, `Reclaims` with no call under way moved. `ServiceKeepsTheLeases` (for all constants),
`ServiceKeepsTheRest` and `ServiceKeepsTheSteps` (under `KnownIds`) conclude that the
queue's promises hold beside a server, whatever it is asked and wherever it is stopped.
They are no refinement of `Queue`: the sweeps of a Peek belong to none of the calls its
processes make.

**Migration.** `MigrationProofs`: `MigrationTypeCorrect`, `StepsAreAlwaysNew`,
`ReadyIsAlwaysMigrated` and `UnbackedIsAlwaysNothing`, from `MigrationAssumption` alone, by
one inductive invariant. `PlansInv` says of an opener inside the transaction that it
alone holds the lock and that its plan, what it has done and the committed schema make
up the whole schema without overlap; of one that found no file, that the file still
holds nothing or is complete already. `FileMoves` is what any step means to the others:
the schema stays or becomes complete (`CommitCompletes`), and not under an opener
inside. `AlwaysRecoverable` adds `BackupsInv` and the premise `~Unattended`: a backup
made in a second of its own is newer than all others, so `Kept` holds it whatever
the retention (`NewestIsKept`), and `LockProtects` keeps file and backups as they
were.

**Only model-checked:** the liveness properties `AbandonedClaimEnds` and `DeferralEnds`:
fairness and ENABLED are beyond the prover. Every invariant and every other action
property of a passing run is stated by a theorem, under the premises named with it.

## 5. Where the code and its documents disagree

1. `queue_unknown_ids`: a forced `set_status` or `defer` on an id with no row passes
   the policy check (`core.py` 311-314), and if a protected directive receives that
   id before the last transaction, it is completed, dropped, requeued or deferred.
   `STAGE-HANDOFF.md` 11-12 rules this out.
2. `queue_grpc_status`: `SetStatus` accepts every status of the enum, so a directive can
   become taken with neither token nor lease: no worker can finish it with a
   token and no lazy reclaim returns it, only `reap` by age. `README.md` 126 says taken
   directives receive a lease.
3. `migration_same_second`: a backup name that pruning has freed is taken again in the
   same second and sorts below the names kept, so the backup just verified is the
   one that is pruned (`cli.py` 185-202, 216). `README.md` 200 says that it remains when
   the migration fails. It takes `keep` + 2 migrations of a file within one second; an
   older backup of that second is still there.
4. `threads_moving`: the rows of a thread are read in transactions of their own
   (`cli.py` 504-531). If the root is read while finished and then reopened, and the open
   child is finished before its SELECT, `thread_status` says "done" although the thread had
   open work at every instant of the call. `README.md` 186 says it summarizes whether the
   thread still has open work. With `Orderly`, "done" is true and final
   (`DoneStaysFinished`).

Observations that no document rules out, and that shape the models:

* A lineage is compared with the priorities its stages have *now* (`root_reservations.py`
  171-179). `reprioritize` of a finished stage makes a finished lineage undeliverable
  until the priority is put back.
* A successor that a producer has admitted as a root keeps no parent, so the lineage
  through it is never found and the paths stay reserved. Both are conditions of
  `FinishedIsReleasable` (`AsPublished`: each stage still has the parent and the priority it
  was published with); the run, with one priority and no root admitted except by a
  grant, cannot break them, and the theorem holds wherever they do.
* `defer` accepts a cycle of two directives blocked by each other; it ends only by
  a forced call.
* A deferred directive that gRPC sets to parked and somebody unparks is pending with the
  deferral columns it had; they hide nothing until it is deferred again, which
  overwrites them. This is why `ClaimColumnsAlwaysAgree` has its premise.
* `RunsOnce` names one instant: when `2 * Skew` is at least 60 seconds, a request that ran
  at the first second of its window is forgotten at the last, and may run again then.
* The replay cache is in memory: a server that restarts may run a request again within
  its window.

## 6. Not modelled

* The MCP server and the command line: argument parsing, wording and exit codes around
  calls of `core.py` that are modelled; they hold no state.
* The generated protocol code, and the conversion of messages in the gRPC handlers other
  than leases and statuses. Handlers that make one call of core, handoff or admission are
  the actions of `Queue` and `Handoff`.
* Signatures, keys and audiences (a library's, or compared as they are): a request of
  the model carries a genuine proof of itself.
* Lifetimes of connections: a call that raises inside its transaction leaves closing,
  and so the end of its lock, to the collector (`core.py` 352); the model rolls back at
  once. Which exception leaves `migrate` when BEGIN times out (`cli.py` 252).
* Size limits and JSON forms of manifests, syntax of paths and identities, the columns
  that are only displayed, the wording of answers.
* SQLite itself: its transactions are taken to be atomic, isolated and durable.

## 7. Plan

Done: the queue; handoff and its ledger; reservations; migration; the stage bridge;
threads; the service and its replay cache; and the proofs above.

Left, in order of what they would add: two bridge clients of one owner in one run (they compete like
the workers of `Queue`, but the instance is large); message conversion of the gRPC
handlers.
