---------------------------- MODULE CheckOutbox -----------------------------
(***************************************************************************)
(* The outbox that publishes the state of one pull request head as a       *)
(* GitHub check run.  Planning and landing transactions set the desired    *)
(* state; every version of it has a durable job of its own; the control    *)
(* worker of a coordinator claims the jobs, reconciles the provider's      *)
(* check runs with what it read, and reports the version it published.     *)
(* Sources: internal/remote/server coordinator_outbox.go (desired checks), *)
(* coordinator.go (RunOneKinds, runCheck), internal/forge/github           *)
(* ReconcileCheck.                                                         *)
(*                                                                         *)
(* Every transaction and every provider call is one action.  A call whose  *)
(* answer is lost is the call followed by a Fault; a call is carried out   *)
(* before the same process sends the next one.  The check runs are numbered*)
(* in the order of their creation, and the listing is never stale.         *)
(***************************************************************************)
EXTENDS JobLease, Sequences, FiniteSets, FiniteSetsExt

CONSTANTS Contents,     \* what a check can say: state, summary and plan URL
          Superseded,   \* what a check run made obsolete says
          MaxVersion,   \* BOUND on the versions of the desired state
          MaxTrouble,   \* BOUND on faults, crashes, shutdowns and overruns
          MaxRestored   \* BOUND on check runs older than the database

ASSUME CheckOutboxAssumption ==
    /\ Superseded \notin Contents
    /\ {MaxVersion, MaxTrouble, MaxRestored} \subseteq Nat

\* Config.Validate (runtime/coordinator.go) demands control_workers = 1.
ASSUME OneControlWorker == \A v, w \in Workers : v = w

VARIABLES
    desired,   \* the desired_checks row
    job,       \* the job of each version: its payload is the version
    runs,      \* the provider's check runs with the head's external id
    worker,    \* [Workers -> the local state of the control worker]
    trouble    \* adversities so far

vars == <<desired, job, runs, worker, trouble>>

Versions == 1..MaxVersion

Idle == [pc |-> "idle", version |-> 0, fence |-> 0, content |-> Superseded,
         run |-> 0, listed |-> {}]

\* A restored database has forgotten check runs that the provider still has.
Init ==
    /\ desired = [version |-> 0, content |-> Superseded, published |-> 0, run |-> 0]
    /\ job = [v \in Versions |-> NoJob]
    /\ runs \in UNION {[1..n -> Contents] : n \in 0..MaxRestored}
    /\ worker = [w \in Workers |-> Idle]
    /\ trouble = 0

HoldsJob(w)    == Holds(job[worker[w].version], w, worker[w].fence)
ActiveJob(w)   == Active(job[worker[w].version], w, worker[w].fence)
Outdated(w)    == worker[w].version < desired.version
Goto(w, pc)    == worker' = [worker EXCEPT ![w].pc = pc]
Free(w)        == worker' = [worker EXCEPT ![w] = Idle]
NoTrouble      == UNCHANGED trouble
Trouble        == trouble < MaxTrouble /\ trouble' = trouble + 1

-----------------------------------------------------------------------------
(* The desired state, and the jobs that publish it.                        *)

\* upsertDesiredCheckTx: other content is a new version; the new version's job
\* is enqueued in the same transaction.  The same content changes nothing.
SetDesiredCheck(c) ==
    /\ c # desired.content
    /\ desired.version < MaxVersion
    /\ desired' = [desired EXCEPT !.version = @ + 1, !.content = c]
    /\ job' = [job EXCEPT ![desired.version + 1] = NewJob]
    /\ UNCHANGED <<runs, worker, trouble>>

\* Seeded fault: a job whose attempts are used up is left alone.
RearmedDoneOnly(j) ==
    IF j.state = "done"
      THEN [state |-> "retryable", attempts |-> 0, owner |-> NoWorker,
            fence |-> j.fence, live |-> FALSE]
      ELSE j
\* ensureCheckJobTx: a finished job is made claimable again, its token kept.
Rearmed(j) ==
    IF j.state \in Terminal
      THEN [state |-> "retryable", attempts |-> 0, owner |-> NoWorker,
            fence |-> j.fence, live |-> FALSE]
      ELSE j

\* RepairDesiredChecks, which the control worker runs before each claim.
RepairDesiredChecks(w) ==
    /\ worker[w] = Idle
    /\ desired.published < desired.version
    /\ Rearmed(job[desired.version]) # job[desired.version]
    /\ job' = [job EXCEPT ![desired.version] = Rearmed(@)]
    /\ UNCHANGED <<desired, runs, worker, trouble>>

\* ClaimJobKinds: the sweep fails exhausted jobs, then one job is leased.
Swept(v) == IF Exhausted(job[v]) THEN GaveUp(job[v]) ELSE job[v]

ClaimCheck(w) ==
    /\ worker[w] = Idle
    /\ \/ \E v \in Versions :
            /\ Claimable(job[v])
            /\ job' = [u \in Versions |->
                         IF u = v THEN Leased(job[v], w) ELSE Swept(u)]
            /\ worker' = [worker EXCEPT
                            ![w] = [Idle EXCEPT !.pc = "read", !.version = v,
                                                !.fence = job[v].fence + 1]]
       \/ /\ \A v \in Versions : ~Claimable(job[v])
          /\ \E v \in Versions : Exhausted(job[v])
          /\ job' = [v \in Versions |-> Swept(v)]
          /\ UNCHANGED worker
    /\ UNCHANGED <<desired, runs, trouble>>

-----------------------------------------------------------------------------
(* runCheck and ReconcileCheck.                                            *)

\* DesiredCheck: what is read here is what the run publishes.
ReadDesired(w) ==
    /\ worker[w].pc = "read"
    /\ worker' = [worker EXCEPT
                    ![w].pc = IF Outdated(w) THEN "supersede" ELSE "validate",
                    ![w].content = desired.content,
                    ![w].run = desired.run]
    /\ NoTrouble /\ UNCHANGED <<desired, job, runs>>

ValidateClaim(w) ==
    /\ worker[w].pc = "validate"
    /\ Goto(w, IF ActiveJob(w) THEN "list" ELSE "failed")
    /\ UNCHANGED <<desired, job, runs, trouble>>

\* The run to write: the stored one if it is listed, else the oldest listed,
\* else 0 for a new one.
Canonical(w) ==
    IF worker[w].run \in DOMAIN runs THEN worker[w].run
    ELSE IF runs = <<>> THEN 0 ELSE Min(DOMAIN runs)

ListRuns(w) ==
    /\ worker[w].pc = "list"
    /\ worker' = [worker EXCEPT ![w].pc = "write", ![w].run = Canonical(w),
                                ![w].listed = DOMAIN runs]
    /\ UNCHANGED <<desired, job, runs, trouble>>

WriteRun(w) ==
    /\ worker[w].pc = "write"
    /\ IF worker[w].run = 0
         THEN /\ runs' = Append(runs, worker[w].content)
              /\ worker' = [worker EXCEPT ![w].pc = "duplicates",
                                          ![w].run = Len(runs) + 1]
         ELSE /\ runs' = [runs EXCEPT ![worker[w].run] = worker[w].content]
              /\ Goto(w, "duplicates")
    /\ UNCHANGED <<desired, job, trouble>>

\* Seeded fault: the duplicates of the listing are left as they are.
SupersedeNone(w) ==
    /\ worker[w].pc = "duplicates"
    /\ Goto(w, "commit")
    /\ UNCHANGED <<desired, job, runs, trouble>>
\* One PATCH per duplicate of the listing.
SupersedeDuplicates(w) ==
    LET left == worker[w].listed \ {worker[w].run} IN
    /\ worker[w].pc = "duplicates"
    /\ IF left = {}
         THEN Goto(w, "commit") /\ UNCHANGED runs
         ELSE /\ runs' = [runs EXCEPT ![Min(left)] = Superseded]
              /\ worker' = [worker EXCEPT ![w].listed = @ \ {Min(left)}]
    /\ UNCHANGED <<desired, job, trouble>>

\* A publication older than the desired state makes the latest one dirty, and
\* its job claimable again unless it is waiting or running.
Dirty == desired' = [desired EXCEPT
                       !.published = Min({@, desired.version - 1})]
CompleteAndRearm(w) ==
    job' = [job EXCEPT ![desired.version] = Rearmed(@),
                       ![worker[w].version] = Completed(@)]

SupersedeCheckClaim(w) ==
    /\ worker[w].pc = "supersede"
    /\ IF ActiveJob(w)
         THEN Dirty /\ CompleteAndRearm(w) /\ Free(w)
         ELSE UNCHANGED <<desired, job>> /\ Goto(w, "failed")
    /\ UNCHANGED <<runs, trouble>>

\* Seeded fault: the version that was read is not compared with the latest.
CommitAnyVersion(w) ==
    /\ worker[w].pc = "commit"
    /\ IF ActiveJob(w)
         THEN /\ desired' = [desired EXCEPT !.published = desired.version,
                                            !.run = worker[w].run]
              /\ job' = [job EXCEPT ![worker[w].version] = Completed(@)]
              /\ Free(w)
         ELSE UNCHANGED <<desired, job>> /\ Goto(w, "failed")
    /\ UNCHANGED <<runs, trouble>>
CommitCheckPublication(w) ==
    /\ worker[w].pc = "commit"
    /\ \/ /\ ActiveJob(w) /\ Outdated(w)
          /\ Dirty /\ CompleteAndRearm(w) /\ Free(w)
       \/ /\ ActiveJob(w) /\ ~Outdated(w)
          /\ desired' = [desired EXCEPT !.published = worker[w].version,
                                        !.run = worker[w].run]
          /\ job' = [job EXCEPT ![worker[w].version] = Completed(@)]
          /\ Free(w)
       \/ /\ ~ActiveJob(w)
          /\ Goto(w, "failed")
          /\ UNCHANGED <<desired, job>>
    /\ UNCHANGED <<runs, trouble>>

-----------------------------------------------------------------------------
(* Failures.                                                               *)

\* A transaction or a provider call of the run fails, or its answer is lost.
Fault(w) ==
    /\ worker[w].pc \notin {"idle", "failed"}
    /\ Goto(w, "failed")
    /\ Trouble
    /\ UNCHANGED <<desired, job, runs>>

\* handleJobFailure: FailClaim, which changes nothing if the claim is stale.
HandleFailure(w) ==
    LET v == worker[w].version IN
    /\ worker[w].pc = "failed"
    /\ job' = IF HoldsJob(w) THEN [job EXCEPT ![v] = FailedOnce(@)] ELSE job
    /\ Free(w)
    /\ UNCHANGED <<desired, runs, trouble>>

\* The payload was written by another release: RejectClaim.
RejectPayload(w) ==
    LET v == worker[w].version IN
    /\ worker[w].pc = "read"
    /\ job' = IF HoldsJob(w) THEN [job EXCEPT ![v] = Rejected(@)] ELSE job
    /\ Free(w)
    /\ Trouble
    /\ UNCHANGED <<desired, runs>>

\* Graceful shutdown in the middle of a run: AbandonClaim.
Abandon(w) ==
    LET v == worker[w].version IN
    /\ worker[w].pc # "idle"
    /\ job' = IF HoldsJob(w) THEN [job EXCEPT ![v] = Abandoned(@)] ELSE job
    /\ Free(w)
    /\ Trouble
    /\ UNCHANGED <<desired, runs>>

\* The process dies; its lease stays until it runs out.
Crash(w) ==
    /\ worker[w].pc # "idle"
    /\ Free(w)
    /\ Trouble
    /\ UNCHANGED <<desired, job, runs>>

\* The lease runs out.  The timeouts are ordered so that its worker has
\* stopped by then; that it has not (a pause, skewed clocks) is an adversity.
Lapse(v) ==
    LET held == \E w \in Workers : /\ worker[w].version = v
                                   /\ worker[w].fence = job[v].fence IN
    /\ job[v].live
    /\ job' = [job EXCEPT ![v] = Lapsed(@)]
    /\ IF held THEN Trouble ELSE NoTrouble
    /\ UNCHANGED <<desired, runs, worker>>

-----------------------------------------------------------------------------
RunStep(w) ==
    \/ ReadDesired(w) \/ ValidateClaim(w) \/ ListRuns(w) \/ WriteRun(w)
    \/ SupersedeDuplicates(w) \/ SupersedeCheckClaim(w)
    \/ CommitCheckPublication(w) \/ HandleFailure(w)

Next == \/ \E c \in Contents : SetDesiredCheck(c)
        \/ \E w \in Workers : \/ RepairDesiredChecks(w) \/ ClaimCheck(w)
                              \/ RunStep(w) \/ Fault(w) \/ RejectPayload(w)
                              \/ Abandon(w) \/ Crash(w)
        \/ \E v \in Versions : Lapse(v)

Spec == Init /\ [][Next]_vars

\* The control worker polls for ever (repair, then claim), a run ends within
\* job_timeout, and a lease runs out.
Fairness == /\ \A w \in Workers : /\ WF_vars(RepairDesiredChecks(w))
                                  /\ WF_vars(ClaimCheck(w))
                                  /\ WF_vars(RunStep(w))
            /\ \A v \in Versions : WF_vars(Lapse(v))

FairSpec == Spec /\ Fairness

-----------------------------------------------------------------------------
(* Properties.                                                             *)

TypeOK ==
    /\ desired \in [version : 0..MaxVersion, content : Contents \union {Superseded},
                    published : 0..MaxVersion, run : 0..Len(runs)]
    /\ desired.published <= desired.version
    /\ job \in [Versions -> JobRow]
    /\ \A r \in DOMAIN runs : runs[r] \in Contents \union {Superseded}
    /\ worker \in [Workers ->
            [pc : {"idle", "read", "supersede", "validate", "list", "write",
                   "duplicates", "commit", "failed"},
             version : 0..MaxVersion, fence : Nat,
             content : Contents \union {Superseded},
             run : 0..Len(runs), listed : SUBSET DOMAIN runs]]
    /\ trouble \in 0..MaxTrouble

Published == desired.version > 0 /\ desired.published = desired.version

\* Once the latest version counts as published (CommitCheckPublication), the
\* stored check run shows it: no crash, lost answer, retry or version set in
\* between leaves an older state on the pull request with nobody to notice.
ShownIsDesired ==
    Published => /\ desired.run \in DOMAIN runs
                 /\ runs[desired.run] = desired.content

\* docs/guides/pr-context-coordinator.md: "Reconciliation looks up the stable
\* external ID, persists the canonical Check run ID, and marks duplicate runs
\* superseded."  When the latest state is published and nothing is left to do,
\* no second run still says something.
AtRest == /\ \A w \in Workers : worker[w] = Idle
          /\ \A v \in Versions : job[v].state \in Terminal \union {"absent"}

NoDuplicateLeft ==
    Published /\ AtRest =>
        \A r \in DOMAIN runs : r # desired.run => runs[r] = Superseded

\* Every desired state is published in the end, or replaced by one that is,
\* although the jobs use up their attempts: RepairDesiredChecks brings them
\* back.
EveryStateIsPublished ==
    desired.published < desired.version ~> Published
=============================================================================
