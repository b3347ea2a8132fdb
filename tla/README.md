# Thread Keep: TLA+ models and proofs

TLA+ specifications of [thread-keep](../src), a version control system for code
context with a hosted coordinator that plans and lands context for GitHub pull
requests. The modules are translated from the Go source; `PROJECT.json` maps each
definition to the lines it stands for.

Three parts are modelled. The hosted coordinator: a queue of durable jobs, the
processes that work on it and the four protocols that run on it. The clone: notes,
commits, merges and candidates over a SQLite projection and a directory of immutable
objects, up to the snapshot that lands. The object side of the remote: nodes that keep,
copy, pack and collect objects while clients push.

    JobLease ---- JobQueue ---------------------- JobQueueProofs
        |            ^  +------ Coordinator ------ (the same)
        |            | refinement (ImplementsQueue), proved in LandingProofs
        +---- Landing --- LandingQueue ----------- LandingProofs
        +---- RunnerExecution -------------------- RunnerExecutionProofs
        +---- CheckOutbox ------------------------ CheckOutboxProofs
        +---- Planning --------------------------- PlanningProofs

    ContextObjects ---- LocalStore --------------- LocalStoreProofs
        +-------------- CandidateLanding --------- CandidateLandingProofs

    ObjectStore ---------------------------------- ObjectStoreProofs

## 1. Inventory

Paths are relative to `src/internal`. "Hard" is what tests hardly reach.

| Component | State | Operations | Hard | What makes it correct |
| --- | --- | --- | --- | --- |
| Durable job queue (`remote/server/coordinator_store.go`) | `coordinator_jobs`: state, attempts, lease owner, lease end, fencing token | enqueue once per dedupe key; claim by kind and priority, after a sweep of exhausted rows; complete, fail, reject, abandon | workers that outlive their lease, crashes, off-by-one in attempts | one holder, no takeover of a live lease, stale claims change nothing, every job ends |
| Context landing (`coordinator.go` runFinal, `landing_ref.go`, `refstore.go`) | `landing_intents`, `context_plans`, `landing_receipts`, `context_refs`, desired check | schedule, plan, assign, block, publish, advance, fail, converge; ordinary push; manual recovery | races for one ref, retries of what was done, recovery beside automation | lands at most once, on what it was planned on, intent = receipt = ref, never blocked silently |
| Check outbox (`coordinator_outbox.go`, `forge/github`) | `desired_checks`, check jobs; the provider's check runs | set desired state, publish, commit, supersede, repair | lost answers, older state written late, used-up jobs | the provider shows the latest state, once, in the end |
| Runner executions (`runner_execution_store.go`, `runner/backend`) | `runner_executions`: attempt, claim, handle, outcome, cleanup; the container, job or process | prepare, adopt, replace, allocate, ensure, observe, complete, fail, cancel, reconcile, clean up | successive claims in the same execution, late results, cleanup beside work | one open attempt, final outcomes, evidence behind every completion |
| Change planning (`coordinator.go`, `webhook_ingress.go`) | `pr_generations`, plans, candidates, preview and webhook jobs | intake, handle webhook, publish candidate, plan and publish a preview, schedule a landing | reordered and repeated webhooks, generations moving while a preview is planned | the plan shown belongs to the generation, the last event wins |
| Coordinator runs (`coordinator_heartbeat.go`, `coordinator/runtime`) | one slot with a session token; the phase of each run | acquire, refresh, expire, release; start workers, stop, be killed | a paused run that is replaced goes on claiming; shutdown with jobs in hand | runs that overlap keep to one queue, and a replaced run never puts its successor out |
| Object store (`gc.go`, `pack*.go`, `filesystem.go`, `cluster.go`, `membership.go`, `peer.go`) | per node: loose files, packs, a catalogue cache; rows of `cluster_nodes`; the ref | publish, copy, compare-and-swap; mark, remove, repack, clean; fetch on a miss, anti-entropy | objects republished while collected, packs replaced under a reader, nodes away during a publication, a crash between two file operations | nothing the ref reaches is lost, hidden or missing for ever |
| Local store and use cases (`store`, `app`) | SQLite projection: notes, coverage, refs, working set, sessions, candidate, search index; object files | note commands, update, commit, merge, push, fetch, pull, import and promote a candidate, rebuild | what was read before the object is written is stale when the transaction starts; crashes between the two; bindings that follow code which moves | refs advance, pending notes survive, active notes are confirmed, what is committed can be read |
| Semantic merge and landing plan (`domain/merge.go`, `domain/landing.go`, `domain/landing_plan.go`, `app/candidate.go`) | recovery session with a version | build and normalize a candidate, plan it on a snapshot, resolve, land | a base that moved on, records of other clients, two terminals in one session | what was told lands, nothing else is lost, what lands loads |
| Indexing, retrieval, adapters (`indexer`, `indexing`, `retrieval`, `cli`, `mcpserver`) | none of their own | parsing, selection, rendering | - | tests reach these |

How they interact: the server stores a webhook and its job in one transaction. The
coordinator's control worker handles webhook and check jobs, its planning workers
handle preview and final jobs; each claims one job at a time and settles it with
the claim it was given. Handling a webhook writes a generation, a desired check and
a further job in one transaction. Planning runs the source indexer through a runner
execution. A final job publishes an object and advances the context ref in the
receipt/ref transaction, for which it competes with ordinary pushes and with recovery
commits of a developer's clone. These components talk to each other only through the
database, so one transaction is one action in their modules.

A clone talks to the server through refs, objects and candidates. Commands of one clone
share its SQLite file and object directory, and several processes (terminals, an MCP
server) run them at a time. `commit`, `merge`, `push` and `pull` read in one transaction,
write objects or call the server, and finish in another. The server's object routes read
and write a node's files, and the maintenance pass of that node removes them, with no lock
between the two. Of a file, an operation is one action in ObjectStore.

## 2. Modules

**JobLease** is the job row and the pure updates on it: `Claimable`, `Leased`,
`Holds`, `Completed`, `FailedOnce`, `Abandoned`, `GaveUp`, `Exhausted`. Every other
module of the coordinator applies these, so what is proved of the queue is about the same updates.
Time is abstracted: `live` says that `lease_until` lies in the future, `Lapse`
makes it false at any moment, and a delay before the next attempt is no guard.

**JobQueue** is the table and the workers' memory (`claim`), one action per
store method, plus `Crash` and `Lapse`. A claim that finds nothing still sweeps.

**Landing** follows `runFinal` from one transaction or external call to the next
(`pc` of a worker), with its failure handlers. `ref` is the list of all versions,
so that a compare-and-swap against version `b` succeeds when `Len(ref) = b`.
A plan identifier is a digest: it is determined by the landing, the version it was
planned on, and whether conflicts were resolved; the stored payload also has the
creation time, which the fencing token of the run stands for. A landing with a candidate
is pinned to the version it was published for (`PinnedTo`), where it may conflict
(`Conflicting`); `CandidateLanding` has the contents behind both. `session` is the
recovery session of a clone (`app/landing.go`), `Push` an ordinary push,
`PushDescendant` the push of commits that carry a recovered landing in their
ancestry. A transaction that is refused raises the error class that decides what
`handleFinalFailure` does.

**LandingQueue** composes the two: with `claim` defined from the workers' state,
every behaviour of Landing is one of JobQueue (`ImplementsQueue`). It also states
the fairness.

**CheckOutbox** has one logical key: its versions, one job per version, the
provider's runs, and the control worker inside `runCheck` and
`ReconcileCheck`. A provider write may take effect although its answer is lost.

**RunnerExecution** has one job with one execution: the attempts as a sequence, the
resource of each attempt, the workers inside `IndexClaimedSource`, and
`Reconcile`. The constant `Backends` holds "adoptable" (Docker, Kubernetes) and
"local" (process, in_process); a local resource dies with its coordinator
(`Restart`).

**Planning** has one change with automatic landing: the provider's events, webhook
and preview jobs, the generation row, stored plans and candidates, landing
intents, and the check by head. `PublishStart`, `PublishPropose` and
`ScheduleCandidate` are the steps of a candidate publication, which runs outside
the queue. What a final job does is Landing's.

**Coordinator** wraps the queue's actions into runs of the process: who holds the
heartbeat's slot, which run believes it does, and what a stopping or killed run leaves in
the table. A worker of a run that was replaced goes on claiming until the refresh of its
heartbeat fails, so the module says nothing of one coordinator at a time. The queue does not
need that; what it needs is a run that stays, and `SurvivorKeepsSlot` says that the others
cannot drive it out.

**ContextObjects** holds the pure part that the next two modules share: an object, its
ancestry, `Loads` (everything `loadObjectGraph` and `validateContextObject` demand),
`FindMergeBase`, the three-way decision per note (`Automatic`, `Undecided`) and
`Reconcile`, which carries the bindings of a snapshot to another source revision. Objects
are numbered in the order they are written, so ancestry is plain sets and sequences.

**LocalStore** is one clone with a second process, a remote and other clones. An
action is a transaction; `writer` and `sync` hold what a command has read on one side of it
and writes on the other, and the command may stop there. The object of a commit is written
before its rows, so `stored` may hold objects no ref names.

**CandidateLanding** goes from the notes written on a branch through `PublishCandidate`
and the plan of `PlanLanding` to the snapshot that lands, by the coordinator or by a session
that several terminals resolve: with the canonical note, with the candidate's, or with a note
file, of which the code compares hardly anything (`Authored`, the contents such files may
have). A clone whose index misses a language has a conflict without a note (`Unindexed`). Landing has the transactions of this path and leaves the
contents out; here it is the other way round.

**ObjectStore** has the nodes' files. A loose file is `"new"` or `"old"`, a pack an
index and a data file. `gc[n]` is the pass of node `n`: its snapshot of the ref, the files it
has still to look at, the one it has just looked at, and the packs it replaces. A repack keeps every reachable entry of
the old packs, and those others that are not past the cutoff, which may be any. Readers
follow an object from the loose file to the catalogue to the data. A world fixes nodes, tips
and packs of a behaviour.

Operators whose comment says "seeded fault" are wrong on purpose. They belong to the
mutants of section 4 and no specification uses them.

## 3. Properties

The hazards behind them are in `PROJECT.json`.

- JobQueue and Coordinator: `OneHolder`, `NoDeadRow`, `StaleClaimChangesNothing`,
  `TerminalIsFinal`, `SurvivorKeepsSlot`, and proved besides `NoTakeoverOfLiveLease`;
  liveness `EveryJobEnds`.
- Landing: `LandedIffReceipt`, `LandedOnce`, `BaseFresh`, `BlockingIsReported`,
  `HistoryIsAppendOnly`; refinement `ImplementsQueue`; liveness `EveryLandingJobEnds`.
- CheckOutbox: `ShownIsDesired`, `NoDuplicateLeft`; liveness `EveryStateIsPublished`.
- RunnerExecution: `OneOpenAttempt`, `OutcomeIsFinal`, `OpenIsNotCleaned`.
- Planning: `PlanIsCurrent`, `PlannedByItsJob`, `CheckShowsPlan`, `LastEventWins`,
  `IntentNamesItsPreview`.
- ObjectStore: `RefIsComplete`, `ReachableIsKept`, `NoFalseMissing`; liveness
  `ReachesEveryNode`.
- LocalStore: `CommittedIsRestorable`, `PendingIsNeverLost`, `RefsOnlyAdvance`,
  `ActiveMeansConfirmed`, `SearchIsCurrent`, and `CommittedIsReadable`, which the code
  does not keep.
- CandidateLanding: `NothingIsLost`, `OwnCandidateLands`, `AutomaticLandingLoads`,
  `ResolutionsAreKept`.

The type invariants of Landing, CheckOutbox, RunnerExecution, Planning and CandidateLanding are
proved and not checked; the runs spend their time on the properties above.

`LandedOnce` is about the objects in the history, not only the index: it also covers
receipts that enter by an ordinary push. `LastEventWins` leaves out generations with a
candidate, because a publication that read the change earlier may store it later
(`coordinator.go:170-195`). `ActiveMeansConfirmed` is kept in terms of hashes that a person
wrote a revision for, confirmed it for, or chose while merging; it is what "bindings follow
the code" comes to over a chain of updates. `NothingIsLost` speaks of a record that does not
fit (the note it adds is there, or has another revision than it starts from) as of
one that a person has to decide; what a person gave in a note file may be any note, so of
that note it says only that it is there. `CheckShowsPlan` admits one way in which a plan is
hidden, which the code has (see the remarks); it says that there is no other. `OwnCandidateLands` says that a candidate which is planned on
the snapshot its branch started from has no conflicts and lands each note in the branch's
revision, and at the branch's entity too whenever the merge commit declares that entity. Without
the last condition it would be false: see the remark on notes under review.

## 4. Runs

Every property of a passing run has a mutant in `PROJECT.json`: a mapped definition
with a plausible bug, under which the same run finds the property violated.

| Run | Bounds | States | Shows |
| --- | --- | --- | --- |
| `job_queue` | 2 coordinator runs with 2 and 1 workers, 2 jobs of different priority, 2 attempts, 1 graceful hand-back each | 27 thousand | overlapping runs: exclusion, fencing, the slot of the run that stays, no stuck row, every job ends |
| `landing` | 1 change, 2 workers, 1 client, 2 attempts, 1 push, 1 hand-back | 674 thousand | landing against a second run of its own job, a push and a recovery |
| `landing_race` | 2 changes, one with a candidate pinned to a version it conflicts with, 2 workers, 1 client, 1 attempt each | 369 thousand | two landings and two recoveries for one ref |
| `check_outbox` | 1 control worker, 2 contents, 3 versions, 2 attempts, 3 faults, crashes, shutdowns or overrun leases, up to 2 check runs older than the database | 395 thousand | publication in spite of them |
| `runner` | 2 workers, 2 attempts, 1 hand-back, 1 restart, both kinds of backend | 2.1 million | successive claims in one execution |
| `planning` | 2 revisions of one head, 2 events, 1 candidate published once, 3 generations, control and planning worker, 2 states of the context, 2 crashes or faults | 2.1 million | webhooks, previews and a publication in every order |
| `object_store` | 4 objects (two branches and their merge), 2 clients, one node or a cluster of two, 1 to 3 packs, replication factor 2 | 141 thousand | pushes and copies against maintenance, crashes and reads |
| `local_store` | five worlds of up to 4 objects, 4 revisions and 2 notes; 2 source revisions, in one of which an entity takes over another one's hash | 687 thousand | one clone's transactions in every order, with a second process, other clones, failing packs, crashes, a lost projection |
| `candidate_landing` | 3 source revisions (an entity changes, one moves), 2 notes, 4 revisions, 4 objects, 2 histories, 4 foreign candidates, 2 note files, a source the clone's index is incomplete for, 2 terminals | 4.0 million | what a landing makes of a candidate |

Why these are enough: a job needs two attempts and two workers for a takeover,
and the second attempt is the last one, so the sweep is reached as well; a third worker is
there so that one coordinator run has two in hand when it goes. Landing needs one foreign
version to make a base stale, and a second change only for the race, where one
attempt each suffices because retries are covered by `landing`. A check needs two
versions to publish a stale one and a third to do so while the second is under
way. Planning needs two revisions to move on and a third generation to come back.
An object store needs a merge for a push that takes two objects past a ref that moved, and
three packs so that a pass finds two and writes another one while a reader holds the
first. One node has every interleaving of a pass with a push, two have every way in which
an object can be here and not there. A clone needs four objects for a merge of two
commits over a base; each world leaves out the actors that another one has, so that each
can have the notes and revisions its own hazards need. A landing needs one record that
fits and one that does not, and a second terminal for a lost update. One of the two note
files succeeds the canonical revision; the other takes an old revision, is bound to an entity that
is not there, and leaves the canonical revision out.
Revisions, contexts, terminals and workers are interchangeable where a configuration
declares a symmetry; no run with a symmetry checks liveness.
The bounds that cut behaviour off are constants: `MaxAbandons`, `MaxPushes`,
`MaxVersion`, `MaxTrouble`, `MaxRestored`, `MaxRestarts`, `MaxEvents`, `MaxRevs`,
`MaxObjects`, the fields of `Worlds`, and the set `Publishers`, whose members publish once.
In CandidateLanding the author works only while the change is open. Deadlock is not
an error in these runs: when the jobs have ended and the bounds are used up, nothing is
left to do.

**Fairness.** `job_queue`, `landing` and `check_outbox` assume weak fairness of each
worker's claim and of the step of the run it is in, and of `Lapse`. The code
justifies this: `runWorker` polls until shutdown; each run has a timeout
(`job_timeout`), after which it fails; a lease has an end by the database's clock. In
`check_outbox` the periodic `RepairDesiredChecks` is weakly fair too. In `job_queue` and
`landing` success is never assumed: a run may fail each time. Crashes, lapses and
faults need no fairness; in `check_outbox` they are finitely many, as no outbox
publishes to a provider that never answers. `job_queue` assumes more of one thing: the run
`Survivor` is neither stopped nor paused. With every run killed nobody takes a
job, so nothing weaker would do; the run it replaces may do what it likes.
`object_store` assumes weak fairness of the copy of each object that a node lists as missing,
as `AntiEntropy.Run` comes back to it with every tick; no client, pass or reader is assumed
to go on. `ReachesEveryNode` excepts behaviours in which a node stops or is not listed
in the end. `runner`, `planning`, `local_store` and `candidate_landing` check
safety only: the commands of a clone run when somebody calls them.

### Where documentation and code differ

Three runs are expected to find a violation. `PROJECT.json` quotes the lines.

- `landing_recovery` (`RecoveryPushAccepted`): an intent blocked before it has a final
  plan can be recovered, but the push of the recovered commit is refused.
- `gc_republish` (`RefIsComplete`, with `NoTouchInSweep = FALSE`): a pass that read the ref
  finds an old file unreachable; a client publishes that object again and is told it is
  there; the pass removes the file; the client's compare-and-swap makes it reachable.
- `local_wedged` (`CommittedIsReadable`): a note that needs review keeps the source it was
  bound at, and the next commit at another source writes it into an object that
  every later command refuses.

### Remarks

What else was met while modelling. Every item is in the modules as the code has it, but no run
asks for the contrary.

- A final job whose attempts run out while its intent is not running ends without
  blocking the intent (`coordinator_store.go:391`); `landing recover` takes blocked
  intents only.
- A run that stored its final plan and crashed makes its retry fail on the same ref: same
  identifier, another creation time in the payload (`coordinator_store.go:825`).
- The failure of a runner attempt and its cleanup mark are two transactions
  (`runner_execution_store.go:301`, `:316`); a retry may adopt a succeeded attempt but not
  complete it (`:298`).
- Two deliveries of a merge event with a candidate stored between them schedule two
  landings of one merge (`coordinator.go:336`).
- A candidate is planned on the version of the ref it was published for
  (`landing_plan.go:542`). Once the ref moves on, the automatic landing and its recovery
  are both refused.
- A note that needs review on the branch is told with the hash its entity has at the head
  (`app/candidate.go:214`) and lands as active (`landing_plan.go:641`). A review made
  on the branch changes no revision and is no record of its own: unless the entity's
  hash changed too, it does not reach the history. Worse, the landing may take such a note for
  bound elsewhere: when the code returns to an earlier hash at another entity, the planner
  finds the base's hash there and the note lands active at that entity, though the branch has it
  as historical. The run found this against a first form of `OwnCandidateLands`.
- A canonical note that is historical becomes one that needs review with the next landing
  (`domain/landing.go`, `Reconcile`), as every note whose entity is gone does.
- Who settles a conflict over a rebind by "candidate" (`landing_recovery.go:62`) takes the
  record's revision without the one it superseded; the snapshot then has a note whose
  history has a gap. `AutomaticLandingLoads` speaks of the coordinator only.
- Of the note file that a conflict is resolved with, the code compares the note's identifier
  and the source, and asks for fields that are not empty (`landing_recovery.go:69-73`). Neither
  the plan (`landing_plan.go:378-383`) nor the links of an object (`store/objects.go:389`) ask for
  more: the file may take a revision that was left behind, supersede none and so drop the
  canonical revision from the note's history, or name an entity that is not there.
- Desired checks are kept by change and head (`coordinator_outbox.go:110`), not by generation. A
  preview that was found superseded reports so to the check of its head, in a later
  transaction and without a claim (`coordinator.go:462`). When the base alone moved, the newer
  generation has the same head, and the report may come after its plan: the check then says
  superseded though the plan is there and nothing will be planned again.
- A note that was revised twice on the branch is refused by `PublishCandidate`: its record
  supersedes a revision the base does not have.
- A language pack that fails or is missing makes notes historical in the pending set, where the
  next commit takes them up.
- Ties between merge bases at the same distance are settled by identifier. The entity key
  of an authored merge record is not checked against the source. `FinalizeMerge`
  inserts the row of the merge commit only, not those of what it merged in.
- A pass that dies between the removal of a pack's data and of its index leaves an index
  without data, which can make later passes of that node give up repacking.

## 5. Proofs

Everything below is proved with TLAPS for every value of the constants. Assumptions are the
named `ASSUME`s of the modules; TLC evaluates each in every run that extends its module.

### The queue and its coordinators: `JobQueueProofs`

For any sets of workers and jobs, any priorities and any `MaxAttempts >= 1`:

| Theorem | States |
| --- | --- |
| `Invariance` | `Spec => []IInv` |
| `TypeCorrect` | `Spec => []TypeOK` |
| `Fencing` | `Spec => []OneHolder` |
| `NoRowIsDead` | `Spec => []NoDeadRow` |
| `LeaseIsExclusive` | `Spec => NoTakeoverOfLiveLease` |
| `StaleClaimsAreFenced` | `Spec => StaleClaimChangesNothing` |
| `EndedForGood` | `Spec => TerminalIsFinal` |

Assumptions: `JobLeaseAssumption` (`NoWorker` is no worker, at least one attempt) and
`JobQueueAssumption` (`NoClaim` is no claim).

`OneHolder` is not inductive: a step that issues a token could issue one that is
already in somebody's memory. `IInv` adds `ClaimsIssued` (nobody remembers a token
newer than the row) and `RowsConsistent` (a lease is live only while its row is
running; an absent row has issued no token), together with `TypeOK` and `NoDeadRow`.
The argument goes through rows. `SettledRow`, `LeasedRow` and `SweptRow` say what an
update makes of one row; `RowSteps` says that every action changes each row by one of
these updates (`RowNext`) or not at all; from `RowNext` follow that a token never
decreases, that it grows only by a claim of a row that is not live, and that an
ended row stays. What an action does to the claims is then the only thing left to look
at, one action at a time.

For any number of coordinator runs and workers:

| Theorem | States |
| --- | --- |
| `SlotIsKept` | `CoordSpec => []SurvivorKeepsSlot` |
| `FencingAcrossRuns` | `CoordSpec => []OneHolder` |
| `CoordinatorTypes` | `CoordSpec => []CoordTypeOK` |

By the way the module is built, each action of a worker is one of the queue with a
condition on the phase of its run, and each of a run leaves the table alone, or crashes or
hands back the workers it names (`WorkerStep`, `ProcessStep`, `CoordStep`). `QueueOfRuns` puts
this together, so that what is proved of JobQueue is cited here, as `FencingAcrossRuns` does. The slot
is another matter. That `Survivor` keeps it rests on the comparison of the session token in
refresh and release, and on a live slot that is not taken over; its refresh is modelled as
failing as soon as the row is not its own, so that it stays up only because the row is. `CoordinatorAssumption` says that `NoCoordinator`
is no run, and that every worker has one.

### Landing: `LandingProofs`

For any number of changes, workers, recovery clients, pushes and attempts:

| Theorem | States |
| --- | --- |
| `Invariance` | `Spec => []IInv` |
| `TypeCorrect` | `Spec => []TypeOK` |
| `ReceiptsAreExact` | `Spec => []LandedIffReceipt` |
| `LandingsAreFresh` | `Spec => []BaseFresh` |
| `LandingsAreUnique` | `Spec => []LandedOnce` |
| `HistoryOnlyGrows` | `Spec => HistoryIsAppendOnly` |
| `BlocksAreReported` | `Spec => BlockingIsReported` |
| `LandingImplementsQueue` | `Spec => ImplementsQueue` |
| `RunsAreFenced` | `Spec => []Queue!OneHolder` |

`IInv` is `Typed /\ Ledger`. That a receipt names one version of the ref needs the converse,
that every landing commit of the ref is the indexed one (`ReceiptOfVersion`).
`LandedOnce` needs a reason why a worker does not land a change that came in below an ordinary
commit of its recovery session: such a change is recovering for good, so its plan stays
one from before that push, and the ref has left the version of that plan (`ComesInBelow`,
`PlansArePast`). The refinement maps each step of a run to the one queue operation it performs
or to a stutter; only the token a busy worker remembers needs an invariant. `RunsAreFenced` then cites
`Fencing`: two runs of one landing never carry the same token. `EmptyAssumption` (no plan and no
commit are none) and `NoClaimAssumption` are about the values that stand for NULL.

### Checks: `CheckOutboxProofs`

For any contents, number of versions, faults and check runs from before a restore:

| Theorem | States |
| --- | --- |
| `Invariance`, `TypeCorrect` | `Spec => []IInv`, `Spec => []TypeOK` |
| `PublishedIsShown` | `Spec => []ShownIsDesired` |
| `DuplicatesAreSuperseded` | `Spec => []NoDuplicateLeft` |

A run acts on two things that are old when it does: the desired state as it read it, and the
provider's runs as it listed them. `Knows` says what of them still holds. A run whose
version is still the latest has the latest content. While the latest version counts as published,
a run on its way is one of that version and writes the stored check run again (`Read`). After
its write, its check run says what it read, and every other one is superseded or among the
listed ones it has still to go through (`Done`). Both need that nobody else writes in between,
so the assumption is `OneControlWorker`, which `Config.Validate` demands. `Shown`, the
conclusion, is stronger than what the run checks: there is no second run that says anything while
the state counts as published, even with a publication on its way.

### Planning: `PlanningProofs`

For any revisions, candidates, publishers, planning workers, events and retries:

| Theorem | States |
| --- | --- |
| `Invariance`, `TypeCorrect` | `Spec => []IInv`, `Spec => []TypeOK` |
| `PlansAreCurrent` | `Spec => []PlanIsCurrent` |
| `PreviewsAreAccounted` | `Spec => []PlannedByItsJob` |
| `IntentsNamePreviews` | `Spec => []IntentNamesItsPreview` |
| `PlansAreShown` | `Spec => []CheckShowsPlan` |
| `LastEventIsKept` | `Spec => []LastEventWins` |

A goroutine reads the change, the generation and the artifacts in different transactions from the
one it writes in. `Knows` collects what still holds of a reading: the claim (`Claims`), the
change once it is merged (`OfChange`), and the version of a generation, which is never the current
one again after it was left (`OfGeneration`); `Asks` does the same for a publication.
`PlannedByItsJob` has to be proved together with `PlanIsCurrent`: that a plan is of its generation
rests on its job being the one that stored it. `CheckShowsPlan` is inductive beside `IInv`: a step
that stores a generation either brings the next one, which has no plan yet, or leaves the stored one
and its check alone (`NextHasNoPlan`), and a superseded preview is one of an older version, so its
report reaches the current check only when both are of one head. `LastEventWins` has an invariant of its own (`LastInv`):
a webhook that read the change before the last event is not the webhook of the last event, which
is then still to come. That is false of two control workers, which could store what they
read in the wrong order, so `LastEventIsKept` uses `OneControlWorker`; the other theorems do
without. `Claims` rests on a lease that outlives its run (section 6). `NoPlanAssumption` says that no
plan is not a plan.

### Runner executions: `RunnerExecutionProofs`

For any number of workers, attempts and restarts: `Invariance`, `TypeCorrect`,
`OnlyTheLatestIsOpen` (`[]OneOpenAttempt`), `CleanupIsSafe` (`[]OpenIsNotCleaned`) and
`OutcomesStand` (`OutcomeIsFinal`). `IInv` has the types, with a resource for each row and every
goroutine on a row that exists, and the two invariants. All transactions on the table are of two kinds, a
row that moves on without reopening (`RowMoved`) and a row added when no other is open
(`AttemptAdded`); each keeps the promises, so an action only has to be shown to be of one kind.

### Object store: `ObjectStoreProofs`

For any nodes, clients, ancestry, number of packs and passes:

| Theorem | States |
| --- | --- |
| `Invariance`, `TypeCorrect` | `Spec => []IInv`, `Spec => []TypeOK` |
| `ProtectedObjectsAreKept` | `Spec => ReachableIsKept` |
| `ReadsFindObjects` | `Spec => []NoFalseMissing` |
| `RefStaysComplete` | `NoTouchInSweep => (Spec => []RefIsComplete)` |

While a pass removes packs and aged files, each protected object among them is in the newest pack
of the node, which no pass removes (`Carried`, `Newest`): hence nothing is lost between any
two file operations. What the ref reaches later is on some node as a new file, or protected there
(`Secure`), and what a push has published is new once and if the ref reaches it
(`PublishedIsSecure`). The second half holds only under the hypothesis of `RefStaysComplete`, that
no file is published again between the look at it and its removal; the run `gc_republish` shows
that the hypothesis is needed. `ObjectStoreAssumption` says that ancestry is closed and
that a tip is in its own history.

### Candidates: `CandidateLandingProofs`

For any history, candidate, source trees, bounds and number of terminals:

| Theorem | States |
| --- | --- |
| `SessionVersioning` | `Spec => []ReadIsCurrent` |
| `ResolutionsStay` | `Spec => ResolutionsAreKept` |
| `Invariance`, `TypeCorrect` | `Spec => []IInv`, `Spec => []TypeOK` |
| `NothingGetsLost` | `Spec => []NothingIsLost` |
| `OwnCandidateIsAccepted` | `Spec => []OwnCandidateLands` |
| `CoordinatorLandsWhatLoads` | `Spec => []AutomaticLandingLoads` |

`ResolutionsAreKept` compares a session with what a terminal makes of its own, earlier
reading of it, so it needs `ReadIsCurrent`: a reading has a version the session has or had,
and one of the session's version is the session. `ResolvedPlan` says what a
choice makes of a plan, `UpdateContinues` that an accepted write continues the
session, `StepCases` that every other action leaves session and readings alone or
starts the session.

For what lands, `Faithful` says of a plan what `NothingIsLost` says of a landing: it has the
canonical revision of each note no record decides, takes each record that fits, and of another one
what a person chose, or any of the notes a person may have given. It holds of a plan as `PlanLanding` makes it, and each resolution keeps it;
`IInv` says it of the coordinator's plan, the session, every reading of it and what landed.
`CandidateOK` remembers that the candidate is the delta of two snapshots; `OwnCandidateLands`
follows from it, as laying the delta over the base gives the tip. `CandidateLandingAssumption`
says that the histories the behaviours start from are histories and that foreign candidates are
made of records.

`AutomaticLandingLoads` is about the whole ancestry of what lands. The module shows first that the
chain of a snapshot is well defined, by induction over its number as in LocalStoreProofs below, and it is
that of the only parent, followed by the snapshot, when there is one (`ChainOfOne`); what the author
commits and what lands has one parent. Readers accept a chain place by place (`LoadsByPlace`);
more snapshots change nothing below (`LoadsStay`); and a next snapshot is accepted if its bindings
are, if each note is the parent's or supersedes it, and if the identifiers stay consistent
(`LoadsNext`). The book of a history is what its snapshots say of each revision identifier:
its note and the revision it supersedes. The invariant is `Loadable`: until something lands, readers accept
the canonical tip; the book, with what the author's clone adds, has one content per identifier,
and identifiers that were not there at the start were drawn since (`Keeps`); and the
candidate's records are in the book, or are a foreign client's (`Accounted`). A landing is
`Grounded`: each of its notes is the base's, or a record's that fits the base.
`RevisionsAssumption` says that revision identifiers, which clients draw at random
(`store/schema.go:490`), are never drawn twice, by foreign clients either, and that the history
at the start was accepted. The code rests on the first; the server cannot check it.

### The clone: `LocalStoreProofs`

For any number of notes, objects, revisions, source trees, envelopes and other clones:

| Theorem | States |
| --- | --- |
| `Invariance`, `TypeCorrect` | `Spec => []IInv`, `Spec => []TypeOK` |
| `CommittedCanBeRestored` | `Spec => []CommittedIsRestorable` |
| `ActiveIsConfirmed` | `Spec => []ActiveMeansConfirmed` |
| `SearchStaysCurrent` | `Spec => []SearchIsCurrent` |
| `RefsAdvance` | `Spec => RefsOnlyAdvance` |
| `PendingStays` | `Spec => PendingIsNeverLost` |

`CommittedIsRestorable` is about chains of objects, so the module starts with what a chain is. The
history of an object is a recursive function over the objects. That it is well defined (`ChainOf`) and
what holds along it is induction over the numbers below one object. The library's induction
theorems cannot be used here; each induction is done by taking the least counterexample,
which exists by `NatLessThanWellFounded` and `WFMin`. On top of it: histories are closed and
stay when objects are added (`Continues`), `MergeBaseIsCommon` (the nearest common
ancestor is an ancestor of both), and what a snapshot and its ancestry say of each revision
(`Linked`).

`IInv` is `Rows` and "there is a ledger `F` with which everything is `Fine`". The ledger gives for each
revision its note and the revision it supersedes. It is needed because "one revision, one
content" relates objects on different chains: those of this clone and of another one, which meet in
a merge only much later. Every object, pending row, session and command between its two
transactions agrees with the ledger; a step that writes revisions extends it, and everything else
stays `Fine` with the longer one (`Later`). `SearchIsCurrent` is part of `Fine`; `WriterFine`,
`SessionFine` and `SyncFine` say what a command still knows when it starts its second transaction.
`LocalStoreAssumption` says that source trees map keys, drafts are finitely many, and envelopes are
a sequence of merge commits with their notes.

### Only model-checked

- Liveness (`EveryJobEnds`, `EveryLandingJobEnds`, `EveryStateIsPublished`, `ReachesEveryNode`):
  fairness and ENABLED are out of the prover's reach.
- The three violations of section 4, which are counterexamples.

## 6. What the models assume

- A database transaction is atomic and isolated. PostgreSQL row locks and SQLite's
  single writer provide this for the statements used; a transaction that loses a race
  fails as a whole and is a transient fault of its caller.
- Object contents are identified by their digest; identical identifiers mean
  identical contents.
- Landing: the change's generation does not move while its landing runs. A refusal by
  `SaveCurrentPlan` for that reason is covered by `Fault`.
- CheckOutbox: one control worker, as `Config.Validate` demands; the provider carries
  out a call before it answers the next one of the same process; its list of runs is
  current. Two coordinators overlapping in a heartbeat takeover (Coordinator has them) are
  outside this module, and in that window duplicates are possible.
- RunnerExecution: one execution, and workers of one coordinator process. That reconciliation reads a limited number of rows
  cannot be seen with one.
- Planning: a lease does not run out while its worker goes on, which the required order
  `executor_timeout + finalize_margin < job_timeout < lease_duration` provides, so a
  `Lapse` follows a crash. Graceful hand-backs are JobQueue's. Reads that fail while
  a candidate is carried over are modelled as in the code: the candidate is dropped.
- The handling of one event in Planning reads the provider's current state, as the code
  does; the payload is only compared.

- ObjectStore: a push from its first publication to its compare-and-swap, and the marking of
  a pass, take less than the grace period, and no file becomes old during a pass, whose cutoff
  is fixed. No file is published again between the look at it and its removal
  (`NoTouchInSweep`); `gc_republish` lifts this. The compare-and-swap reads no object, as
  on a server without a coordinator. The history of the ref as the pass read it is what it
  protects. Data files without an index are not seen by readers and not modelled.
- LocalStore: one branch and one language; a transaction of SQLite is atomic; the other
  clones are honest and their ancestry is chosen among what exists. HEAD moves at any moment
  between two steps. A commit reads the snapshot, the coverage and the status in one step
  (`StartCommit`); the code reads them with several statements outside a transaction
  (`store/snapshot.go:42-73`), between which another process may write. What the transaction at
  the end compares, the tip and the pending set, it compares in the model too.
- CandidateLanding: no revision identifier is drawn twice. One change, whose branch starts at the canonical tip; a clone in which
  some note is not active does not update again (LocalStore has that case).

Not modelled, and why:

- Indexing, language packs and retrieval: sequential parsing and read-only selection.
- Command line, MCP and HTTP adapters, object encodings, compression and pack formats: conversions
  without state. Damaged or truncated files are outside the models for the same reason:
  what a reader does with them is decided within one call.
- Migration of old databases: one transaction at the start of the process.
- Kubernetes pod phases: the backend's view of one resource is that of the Docker backend.
- Gossip membership: the protocol is the memberlist library's; the table-based membership is
  modelled.
- The lock file of the plain file remote: it makes the compare-and-swap atomic, as it is here.
- The limit of a reconciliation batch: it takes several executions to see.

## 7. Plan

What is left: the runner's batch of several executions, and two coordinators in CheckOutbox.
