------------------------------ MODULE Landing -------------------------------
(***************************************************************************)
(* Context landing: the final jobs of merged pull requests race each       *)
(* other, ordinary pushes and manual recoveries for one canonical context  *)
(* ref.  Sources: internal/remote/server coordinator.go (runFinal,         *)
(* handleFinalFailure, LandingRecovery), coordinator_store.go (landing     *)
(* intents, exhausted jobs), coordinator_outbox.go (landing commits),      *)
(* landing_ref.go (the receipt/ref transaction), refstore.go (ordinary     *)
(* CAS), internal/app landing.go and remote.go (the recovery client).      *)
(*                                                                         *)
(* Every database transaction is one action.  Between two transactions a   *)
(* worker may crash, be cancelled, or lose its lease to another worker     *)
(* while it goes on working.                                               *)
(*                                                                         *)
(* Data.  The ref is its own history: ref[v] is what version v points at,  *)
(* so a compare-and-swap against version b succeeds exactly when           *)
(* Len(ref) = b.  A plan identifier is a digest of everything but the      *)
(* plan's creation time: it is determined by the landing, the version of   *)
(* the ref it was planned on and the resolution of conflicts.  The stored  *)
(* payload does contain the creation time, which differs for every run of  *)
(* the job; the fencing token of the run stands for it.  An object id      *)
(* digests the object's creation time too.                                 *)
(***************************************************************************)
EXTENDS JobLease, Sequences, FiniteSets

CONSTANTS Landings,     \* merged changes, by landing intent id
          PinnedTo,     \* [Landings -> version its candidate was published on,
                        \*  0 if it has none]
          Conflicting,  \* <<l, b>>: planned on version b, l has conflicts
          Clients,      \* recovery clients: clones of the repository
          MaxPushes,    \* BOUND on ordinary pushes to the ref
          NoLanding, NoCommit, NoPlan

ASSUME LandingAssumption ==
    /\ Conflicting \subseteq Landings \X Nat
    /\ PinnedTo \in [Landings -> Nat]
    /\ \A c \in Conflicting : PinnedTo[c[1]] = c[2]
    /\ NoLanding \notin Landings
    /\ MaxPushes \in Nat
    /\ Clients \cap Nat = {}

PCs    == {"idle", "read", "start", "gather", "save", "assign", "block",
           "publish", "advance", "finish", "failed"}
Codes  == {"none", "transient", "permanent", "incompatible"}
States == {"absent", "pending", "running", "retryable", "blocked",
           "recovering", "landed"}

VARIABLES
    job,       \* [Landings -> JobRow], the final job of each landing
    landing,   \* [Landings -> the landing_intents row]
    plans,     \* context_plans: set of [id, stamp]
    objects,   \* published context objects
    ref,       \* the canonical ref, version by version
    receipts,  \* landing_receipts: [Landings -> indexed commit]
    check,     \* [Landings -> desired check state]
    worker,    \* [Workers -> the local state of the goroutine]
    session,   \* [Clients -> the recovery session of the clone]
    preview    \* [Landings -> the preview job of the change is unfinished]

durable == <<job, landing, plans, objects, ref, receipts, check>>
vars    == <<durable, worker, session, preview>>

-----------------------------------------------------------------------------
(* Data.                                                                   *)

PlanIds == [landing : Landings, base : Nat, resolved : BOOLEAN]
AutoPlan(l, b)   == [landing |-> l, base |-> b, resolved |-> FALSE]
ManualPlan(l, b) == [landing |-> l, base |-> b, resolved |-> <<l, b>> \in Conflicting]

\* A landing object: who built it (the run of the job, or the client), and
\* the plan and parent its receipt names.  An ordinary commit has no receipt.
Commit(l, tag, p)   == [landing |-> l, tag |-> tag, plan |-> p]
Plain(tag)          == [landing |-> NoLanding, tag |-> tag, plan |-> NoPlan]
Entry(c, lands)     == [commit |-> c, lands |-> lands]

\* What a tag stands for, and every commit there can be.
Tags    == Clients \union Nat
Commits == [landing : Landings, tag : Tags, plan : PlanIds]
             \union [landing : {NoLanding}, tag : Tags, plan : {NoPlan}]

\* An empty plan or object id column is neither a plan nor an object.
ASSUME EmptyAssumption == NoPlan \notin PlanIds /\ NoCommit \notin Commits

\* The landings whose object is in the ancestry of the tip.
InHistory(l) == \E v \in 1..Len(ref) : l \in ref[v].lands

Idle    == [pc |-> "idle", landing |-> NoLanding, fence |-> 0,
            seen |-> "absent", base |-> 0, code |-> "none"]
NoSession == [pc |-> "none", landing |-> NoLanding, base |-> 0]

Init ==
    /\ job = [l \in Landings |-> NoJob]
    /\ landing = [l \in Landings |->
                    [state |-> "absent", attempts |-> 0, plan |-> NoPlan,
                     commit |-> NoCommit]]
    /\ plans = {}
    /\ objects = {Plain(0)}
    /\ ref = <<Entry(Plain(0), {})>>
    /\ receipts = [l \in Landings |-> NoCommit]
    /\ check = [l \in Landings |-> "none"]
    /\ worker = [w \in Workers |-> Idle]
    /\ session = [c \in Clients |-> NoSession]
    /\ preview = [l \in Landings |-> TRUE]

\* The claim a worker presents with each fenced write.
\* Seeded fault: any running row will do, the fencing token is not compared.
HoldsJobUnfenced(w) == job[worker[w].landing].state = "running"
HoldsJob(w) == Holds(job[worker[w].landing], w, worker[w].fence)
SetJob(l, row) == job' = [job EXCEPT ![l] = row]
SetState(l, s) == landing' = [landing EXCEPT ![l].state = s]
Free(w)        == worker' = [worker EXCEPT ![w] = Idle]
Goto(w, pc)    == worker' = [worker EXCEPT ![w].pc = pc]
Raise(w, code) == worker' = [worker EXCEPT ![w].pc = "failed", ![w].code = code]

-----------------------------------------------------------------------------
(* Scheduling and claiming.                                                *)

\* ScheduleLanding of a process_webhook job for a merged change: intent, job
\* and check in one transaction; a repeated delivery finds the intent and
\* changes nothing.
ScheduleLanding(l) ==
    /\ landing[l].state = "absent"
    /\ SetState(l, "pending")
    /\ SetJob(l, NewJob)
    /\ check' = [check EXCEPT ![l] = "planning"]
    /\ UNCHANGED <<plans, objects, ref, receipts, worker, session, preview>>

\* recoverExpiredExhaustedJobsTx, first half of every claim transaction: an
\* exhausted final job blocks a running landing and is done, any other
\* exhausted job just fails.
SweptRunning(l) == Exhausted(job[l]) /\ landing[l].state = "running"
SweptJob(l) == IF ~Exhausted(job[l]) THEN job[l]
               ELSE IF SweptRunning(l) THEN Completed(job[l])
                                       ELSE GaveUp(job[l])
\* Seeded fault: the sweep blocks the intent without the check.
SweepSilently ==
    /\ landing' = [l \in Landings |->
           IF SweptRunning(l)
             THEN [landing[l] EXCEPT !.state = "blocked", !.attempts = @ + 1]
             ELSE landing[l]]
    /\ UNCHANGED check
Sweep == /\ landing' = [l \in Landings |->
                IF SweptRunning(l)
                  THEN [landing[l] EXCEPT !.state = "blocked",
                                          !.attempts = @ + 1]
                  ELSE landing[l]]
         /\ check' = [l \in Landings |->
                IF SweptRunning(l) THEN "blocked" ELSE check[l]]

ClaimFinal(w) ==
    /\ worker[w] = Idle
    /\ Sweep
    /\ \/ \E l \in Landings :
            /\ Claimable(job[l])
            /\ job' = [k \in Landings |->
                         IF k = l THEN Leased(job[l], w) ELSE SweptJob(k)]
            /\ worker' = [worker EXCEPT
                            ![w] = [Idle EXCEPT !.pc = "read", !.landing = l,
                                        !.fence = job[l].fence + 1]]
       \/ /\ \A l \in Landings : ~Claimable(job[l])
          /\ \E l \in Landings : Exhausted(job[l])
          /\ job' = [l \in Landings |-> SweptJob(l)]
          /\ UNCHANGED worker
    /\ UNCHANGED <<plans, objects, ref, receipts, session, preview>>

-----------------------------------------------------------------------------
(* runFinal, one transaction or external call at a time.                   *)

\* Read the intent and choose.  A landed intent completes the job at once.
ReadIntent(w) ==
    LET l == worker[w].landing  s == landing[l].state IN
    /\ worker[w].pc = "read"
    /\ IF s = "landed"
         THEN /\ SetJob(l, IF HoldsJob(w) THEN Completed(job[l]) ELSE job[l])
              /\ Free(w)
         ELSE /\ UNCHANGED job
              /\ CASE s \in {"pending", "retryable"} ->
                        worker' = [worker EXCEPT ![w].pc = "start",
                                                 ![w].seen = s]
                   [] s = "running" -> Goto(w, "gather")
                   [] OTHER -> Raise(w, "permanent")
    /\ UNCHANGED <<landing, plans, objects, ref, receipts, check, session, preview>>

\* TransitionLanding from the state that was read, not fenced by the claim.
StartLanding(w) ==
    LET l == worker[w].landing IN
    /\ worker[w].pc = "start"
    /\ IF landing[l].state = worker[w].seen
         THEN SetState(l, "running") /\ Goto(w, "gather")
         ELSE UNCHANGED landing /\ Raise(w, "transient")
    /\ UNCHANGED <<job, plans, objects, ref, receipts, check, session, preview>>

\* A candidate is planned on the version it was published on, or not at all
\* (validateLandingPlanInput, for the coordinator and for a recovery).
Plannable(l, b) == PinnedTo[l] \in {0, b}

\* GetChange, checkout and indexing succeed, then canonicalContext reads the
\* ref and PlanLanding plans on this version.
Gather(w) ==
    /\ worker[w].pc = "gather"
    /\ IF Plannable(worker[w].landing, Len(ref))
         THEN worker' = [worker EXCEPT ![w].pc = "save", ![w].base = Len(ref)]
         ELSE Raise(w, "permanent")
    /\ UNCHANGED <<durable, session, preview>>

\* SaveCurrentPlan: a plan row is immutable, and its payload is compared as a
\* whole with the one already stored under the same id.
PlanOf(w) == [id    |-> AutoPlan(worker[w].landing, worker[w].base),
              stamp |-> worker[w].fence]
PlanCollides(w) ==
    \E p \in plans : p.id = PlanOf(w).id /\ p.stamp # PlanOf(w).stamp

SavePlan(w) ==
    /\ worker[w].pc = "save"
    /\ IF PlanCollides(w)
         THEN UNCHANGED plans /\ Raise(w, "permanent")
         ELSE plans' = plans \union {PlanOf(w)} /\ Goto(w, "assign")
    /\ UNCHANGED <<job, landing, objects, ref, receipts, check, session, preview>>

\* SetLandingPlan: only while the intent is running, not fenced by the claim.
AssignPlan(w) ==
    LET l == worker[w].landing IN
    /\ worker[w].pc = "assign"
    /\ IF landing[l].state = "running"
         THEN /\ landing' = [landing EXCEPT ![l].plan = PlanOf(w).id]
              /\ Goto(w, IF <<l, worker[w].base>> \in Conflicting
                        THEN "block" ELSE "publish")
         ELSE UNCHANGED landing /\ Raise(w, "transient")
    /\ UNCHANGED <<job, plans, objects, ref, receipts, check, session, preview>>

\* CommitBlockedLanding: intent, check and job in one transaction that needs
\* a running intent and the claim.
BlockedCommit(w) ==
    LET l == worker[w].landing IN
    /\ SetState(l, "blocked")
    /\ check' = [check EXCEPT ![l] = "blocked"]
    /\ SetJob(l, Completed(job[l]))
\* Seeded fault: the failure transactions do not compare the intent's state.
CanBlockAnyState(w) == HoldsJob(w)
CanBlock(w) == landing[worker[w].landing].state = "running" /\ HoldsJob(w)

BlockConflicts(w) ==
    /\ worker[w].pc = "block"
    /\ IF CanBlock(w)
         THEN BlockedCommit(w) /\ Free(w)
         ELSE UNCHANGED <<landing, check, job>> /\ Raise(w, "transient")
    /\ UNCHANGED <<plans, objects, ref, receipts, session, preview>>

ObjectOf(w) == Commit(worker[w].landing, worker[w].fence, PlanOf(w).id)

Publish(w) ==
    /\ worker[w].pc = "publish"
    /\ objects' = objects \union {ObjectOf(w)}
    /\ Goto(w, "advance")
    /\ UNCHANGED <<job, landing, plans, ref, receipts, check, session, preview>>

-----------------------------------------------------------------------------
(* The receipt/ref transaction (LandingRefService.advance).                *)

Advanceable == {"running", "recovering", "pending"}

\* The receipt is indexed with this very object: only converge the intent.
AlreadyIndexed(c) == receipts[c.landing] = c
\* Seeded fault: the ref is not compared with the expected version.
MayAdvanceBlindly(c, b) ==
    /\ receipts[c.landing] = NoCommit
    /\ landing[c.landing].plan = c.plan
    /\ landing[c.landing].state \in Advanceable
\* Every check of the transaction, against a ref read at version b.
MayAdvance(c, b) ==
    /\ receipts[c.landing] = NoCommit
    /\ Len(ref) = b
    /\ landing[c.landing].plan = c.plan
    /\ landing[c.landing].state \in Advanceable

Land(c) ==
    landing' = [landing EXCEPT ![c.landing].state = "landed",
                               ![c.landing].plan = c.plan,
                               ![c.landing].commit = c]
\* Seeded fault: the intent is left out of the transaction.
AdvanceRefOnly(c) ==
    /\ ref' = Append(ref, Entry(c, {c.landing}))
    /\ receipts' = [receipts EXCEPT ![c.landing] = c]
    /\ UNCHANGED landing
Advance(c) ==
    /\ ref' = Append(ref, Entry(c, {c.landing}))
    /\ receipts' = [receipts EXCEPT ![c.landing] = c]
    /\ Land(c)
\* convergeLandedIntent
Converge(c) ==
    /\ landing' = IF landing[c.landing].state = "landed" THEN landing
                  ELSE [landing EXCEPT ![c.landing].state = "landed",
                                       ![c.landing].commit = c]
    /\ UNCHANGED <<ref, receipts>>

\* AdvanceWithCheck by a worker.  An object that lost the race, or that was
\* indexed from another run, is refused; the codes differ.
AdvanceRef(w) ==
    LET c == ObjectOf(w)  l == c.landing IN
    /\ worker[w].pc = "advance"
    /\ \/ /\ \/ AlreadyIndexed(c) /\ Converge(c)
             \/ MayAdvance(c, worker[w].base) /\ Advance(c)
          /\ check' = [check EXCEPT ![l] = "landed"]
          /\ Goto(w, "finish")
       \/ /\ ~AlreadyIndexed(c) /\ ~MayAdvance(c, worker[w].base)
          /\ Raise(w, IF \/ receipts[l] # NoCommit
                         \/ Len(ref) = worker[w].base /\ landing[l].plan # c.plan
                        THEN "permanent" ELSE "transient")
          /\ UNCHANGED <<landing, ref, receipts, check>>
    /\ UNCHANGED <<job, plans, objects, session, preview>>

\* completeJob; a stale claim ends in handleFinalFailure, which finds the
\* intent no longer running and gives up.
Finish(w) ==
    LET l == worker[w].landing IN
    /\ worker[w].pc = "finish"
    /\ SetJob(l, IF HoldsJob(w) THEN Completed(job[l]) ELSE job[l])
    /\ Free(w)
    /\ UNCHANGED <<landing, plans, objects, ref, receipts, check, session, preview>>

-----------------------------------------------------------------------------
(* Failures of a run.                                                      *)

\* A call of the run fails.  The store and the object store only fail
\* transiently; the provider and the runner may also refuse for good
\* (authorization, stale merge, coverage) or return a payload this release
\* cannot read, the job's own payload may be one, its planner or repository may
\* not be configured, and the object may not pass the validation of the build
\* or of the advance.
Fault(w) ==
    /\ worker[w].pc \notin {"idle", "failed"}
    /\ \E code \in {"transient", "permanent", "incompatible"} :
         /\ code = "permanent" =>
              worker[w].pc \in {"read", "gather", "publish", "advance"}
         /\ code = "incompatible" => worker[w].pc \in {"read", "gather"}
         /\ Raise(w, code)
    /\ UNCHANGED <<durable, session, preview>>

\* CommitLandingFailure: the intent counts its own attempts.
RecordFailure(w) ==
    LET l == worker[w].landing  n == landing[l].attempts + 1 IN
    IF n >= MaxAttempts
      THEN /\ landing' = [landing EXCEPT ![l].state = "blocked",
                                         ![l].attempts = n]
           /\ check' = [check EXCEPT ![l] = "blocked"]
           /\ SetJob(l, Completed(job[l]))
      ELSE /\ landing' = [landing EXCEPT ![l].state = "retryable",
                                         ![l].attempts = n]
           /\ SetJob(l, FailedOnce(job[l]))
           /\ UNCHANGED check

\* FailClaim without touching the intent: handleFinalFailure falls back to it
\* when a permanent failure finds the intent not running, and when it cannot
\* read the intent or its generation.
FailOnly(w) ==
    LET l == worker[w].landing IN
    /\ SetJob(l, IF HoldsJob(w) THEN FailedOnce(job[l]) ELSE job[l])
    /\ UNCHANGED <<landing, check>>

\* handleFinalFailure.  When its transaction is refused (the intent moved or
\* the claim is stale) nothing at all is recorded.
HandleFailure(w) ==
    LET l == worker[w].landing  code == worker[w].code IN
    /\ worker[w].pc = "failed"
    /\ \/ /\ code = "incompatible"
          /\ SetJob(l, IF HoldsJob(w) THEN Rejected(job[l]) ELSE job[l])
          /\ UNCHANGED <<landing, check>>
       \/ /\ code = "permanent" /\ CanBlock(w)
          /\ BlockedCommit(w)
       \/ /\ code = "transient" /\ CanBlock(w)
          /\ RecordFailure(w)
       \/ /\ code # "incompatible"
          /\ FailOnly(w)
       \/ /\ code # "incompatible" /\ ~CanBlock(w)
          /\ UNCHANGED <<job, landing, check>>
    /\ Free(w)
    /\ UNCHANGED <<plans, objects, ref, receipts, session, preview>>

\* The process shuts down in an orderly way: AbandonClaim.
Abandon(w) ==
    LET l == worker[w].landing IN
    /\ worker[w].pc \notin {"idle", "failed"}
    /\ MayAbandon(job[l])
    /\ SetJob(l, IF HoldsJob(w) THEN Abandoned(job[l]) ELSE job[l])
    /\ Free(w)
    /\ UNCHANGED <<landing, plans, objects, ref, receipts, check, session, preview>>

Crash(w) ==
    /\ worker[w] # Idle
    /\ Free(w)
    /\ UNCHANGED <<durable, session, preview>>

Lapse(l) ==
    /\ job[l].live
    /\ SetJob(l, Lapsed(job[l]))
    /\ UNCHANGED <<landing, plans, objects, ref, receipts, check, worker,
                   session, preview>>

-----------------------------------------------------------------------------
(* The other writers of the check and of the ref.                          *)

\* PublishPreviewResult of the change's preview job.  The merge does not start
\* a new generation when base and head are the ones already planned, so a slow
\* or retried preview still publishes after it.
FinishPreview(l) ==
    /\ preview[l]
    /\ preview' = [preview EXCEPT ![l] = FALSE]
    /\ check' = [check EXCEPT ![l] = "ready"]
    /\ UNCHANGED <<job, landing, plans, objects, ref, receipts, worker, session>>

\* Ordinary push (CompareAndSwapRef): a commit without receipt on the tip.
Push ==
    LET c == Plain(Len(ref)) IN
    /\ Cardinality({v \in 1..Len(ref) : ref[v].commit.landing = NoLanding})
         <= MaxPushes
    /\ objects' = objects \union {c}
    /\ ref' = Append(ref, Entry(c, {}))
    /\ UNCHANGED <<job, landing, plans, receipts, check, worker, session, preview>>

\* thread-keep landing recover: LandingRecovery claims the intent and returns
\* the ref; the client plans again on it, if it can, and resolves the conflicts
\* locally.
Recover(c, l) ==
    /\ session[c] = NoSession
    /\ landing[l].state \in {"blocked", "recovering"}
    /\ SetState(l, "recovering")
    /\ session' = IF Plannable(l, Len(ref))
                  THEN [session EXCEPT ![c] = [pc |-> "ready", landing |-> l,
                                               base |-> Len(ref)]]
                  ELSE session
    /\ UNCHANGED <<job, plans, objects, ref, receipts, check, worker,
                   preview>>

\* thread-keep landing commit: refused when the remote ref moved.
CommitLanding(c) ==
    /\ session[c].pc = "ready"
    /\ Len(ref) = session[c].base
    /\ session' = [session EXCEPT ![c].pc = "committed"]
    /\ UNCHANGED <<durable, worker, preview>>

SessionCommit(c) ==
    Commit(session[c].landing, c,
           ManualPlan(session[c].landing, session[c].base))

\* The client refuses a history that would hold one receipt twice
\* (validateObjectChain) and a ref that is not in its own history.
\* Seeded fault: the chain may hold one receipt twice.
PushAcceptedTwice(c) == Len(ref) = session[c].base
PushAccepted(c) == /\ Len(ref) = session[c].base
                   /\ ~InHistory(session[c].landing)

\* thread-keep remote push: publish the object, then serveRefCAS routes an
\* object with a receipt to the landing transaction, without a check.  The
\* answer may be lost, so the push can be repeated.
PushRecovery(c) ==
    LET o == SessionCommit(c) IN
    /\ session[c].pc = "committed"
    /\ PushAccepted(c) \/ AlreadyIndexed(o)
    /\ objects' = objects \union {o}
    /\ \/ AlreadyIndexed(o) /\ Converge(o)
       \/ MayAdvance(o, session[c].base) /\ Advance(o)
       \/ /\ ~AlreadyIndexed(o) /\ ~MayAdvance(o, session[c].base)
          /\ UNCHANGED <<landing, ref, receipts>>
    /\ UNCHANGED <<job, plans, check, worker, session, preview>>

\* The clone commits again before it pushes: the pushed tip has no receipt,
\* so the plain CAS takes it, and the landing object comes in as an ancestor.
PushDescendant(c) ==
    LET o == SessionCommit(c)  tip == Plain(c) IN
    /\ session[c].pc = "committed"
    /\ PushAccepted(c)
    /\ objects' = objects \union {o, tip}
    /\ ref' = Append(ref, Entry(tip, {session[c].landing}))
    /\ session' = [session EXCEPT ![c] = NoSession]
    /\ UNCHANGED <<job, landing, plans, receipts, check, worker,
                   preview>>

\* The user gives the session up, or is done with it.
EndSession(c) ==
    /\ session[c] # NoSession
    /\ session' = [session EXCEPT ![c] = NoSession]
    /\ UNCHANGED <<durable, worker, preview>>

-----------------------------------------------------------------------------
RunStep(w) == \/ ReadIntent(w) \/ StartLanding(w) \/ Gather(w) \/ SavePlan(w)
              \/ AssignPlan(w) \/ BlockConflicts(w) \/ Publish(w)
              \/ AdvanceRef(w) \/ Finish(w) \/ HandleFailure(w)

WorkerStep(w) == ClaimFinal(w) \/ RunStep(w) \/ Fault(w) \/ Abandon(w)
                 \/ Crash(w)
ClientStep(c) == \/ CommitLanding(c) \/ PushRecovery(c) \/ PushDescendant(c)
                 \/ EndSession(c)
                 \/ \E l \in Landings : Recover(c, l)

Next == \/ \E l \in Landings : \/ ScheduleLanding(l) \/ Lapse(l)
                               \/ FinishPreview(l)
        \/ \E w \in Workers : WorkerStep(w)
        \/ \E c \in Clients : ClientStep(c)
        \/ Push

Spec == Init /\ [][Next]_vars

-----------------------------------------------------------------------------
(* Properties.                                                             *)

TypeOK ==
    /\ job \in [Landings -> JobRow]
    /\ landing \in [Landings ->
            [state : States, attempts : Nat, plan : PlanIds \union {NoPlan},
             commit : Commits \union {NoCommit}]]
    /\ \A p \in plans : p \in [id : PlanIds, stamp : Nat]
    /\ \A c \in objects : c \in Commits
    /\ \A v \in 1..Len(ref) : ref[v] \in [commit : Commits,
                                         lands : SUBSET Landings]
    /\ receipts \in [Landings -> Commits \union {NoCommit}]
    /\ check \in [Landings ->
                    {"none", "planning", "ready", "blocked", "landed"}]
    /\ worker \in [Workers ->
            [pc : PCs, landing : Landings \union {NoLanding}, fence : Nat,
             seen : States, base : Nat, code : Codes]]
    /\ session \in [Clients ->
            [pc : {"none", "ready", "committed"},
             landing : Landings \union {NoLanding}, base : Nat]]
    /\ preview \in [Landings -> BOOLEAN]

\* A receipt is indexed exactly for the landed intents, names the commit that
\* landed, and that commit is one version of the ref: the intent, the index and
\* the ref move together (LandingRefService.advance, convergeLandedIntent),
\* although workers race, lose their lease and repeat the transaction.
LandedIffReceipt ==
    \A l \in Landings :
        /\ landing[l].state = "landed" <=> receipts[l] # NoCommit
        /\ landing[l].commit = receipts[l]
        /\ receipts[l] # NoCommit =>
             Cardinality({v \in 1..Len(ref) : ref[v].commit = receipts[l]}) = 1

\* A landing is built on the very version it replaces: no push or landing got
\* between the ref its plan was computed on and its own commit, and the intent
\* names that plan.
BaseFresh ==
    \A v \in 1..Len(ref) : LET c == ref[v].commit IN c.landing # NoLanding =>
        /\ c.plan.base = v - 1
        /\ landing[c.landing].plan = c.plan

\* A change reaches the history once, however many runs of its job, recovery
\* sessions and descendants of a recovery commit carry it.
LandedOnce ==
    \A u, v \in 1..Len(ref) : u # v => ref[u].lands \cap ref[v].lands = {}

\* A landing is never blocked silently: whichever of the four transactions
\* blocks the intent (conflict, permanent failure, retries used up, lease lost
\* on the last attempt) also sets the desired check and settles the job.
BlockingIsReported ==
    [][\A l \in Landings :
         landing[l].state # "blocked" /\ landing'[l].state = "blocked" =>
            check'[l] = "blocked" /\ job'[l].state = "done"]_vars

\* Versions of the ref are only ever added, one at a time, and an indexed
\* receipt and a landed intent never change again.
HistoryIsAppendOnly ==
    [][/\ Len(ref') \in {Len(ref), Len(ref) + 1}
       /\ \A v \in 1..Len(ref) : ref'[v] = ref[v]
       /\ \A l \in Landings : receipts[l] # NoCommit =>
             /\ receipts'[l] = receipts[l]
             /\ landing'[l] = landing[l]]_vars

-----------------------------------------------------------------------------
(* What the documentation promises and the code does not keep.             *)

\* The guide's recovery section: the push of a recovered landing commit
\* "detects that receipt and atomically advances the server ref, indexes the
\* receipt, and marks the durable intent landed".  A committed session on an
\* unmoved ref is accepted.
RecoveryPushAccepted ==
    \A c \in Clients :
        /\ session[c].pc = "committed" /\ PushAccepted(c)
        /\ landing[session[c].landing].state = "recovering"
        => MayAdvance(SessionCommit(c), session[c].base)
=============================================================================
