-------------------------- MODULE RunnerExecution ---------------------------
(***************************************************************************)
(* Indexing a source revision for a claimed job in a runner: a process, a  *)
(* Docker container or a Kubernetes Job.  An execution is identified by    *)
(* the job and its request, so every run of the job comes back to the same *)
(* execution; an attempt of it is a durable row with at most one external  *)
(* resource, whose name is derived from the attempt.  Rows are fenced by   *)
(* the claim that owns them, resources are not.  Sources: internal/runner/ *)
(* backend lifecycle.go, internal/remote/server runner_execution_store.go. *)
(*                                                                         *)
(* One job with one execution.  All workers belong to one coordinator      *)
(* process, which may be killed and started again.                         *)
(***************************************************************************)
EXTENDS JobLease, Sequences, FiniteSets

CONSTANTS Backends,     \* SUBSET {"adoptable", "local"}
          MaxRestarts   \* BOUND on kills of the coordinator process

ASSUME RunnerAssumption == /\ Backends \subseteq {"adoptable", "local"}
                           /\ MaxRestarts \in Nat

VARIABLES
    backend,    \* "adoptable" (Docker, Kubernetes) or "local" (process)
    job,        \* the row of the job
    attempts,   \* runner_executions of the execution, by runner_attempt
    resource,   \* the external resource of each attempt
    instance,   \* InstanceID of the process
    worker,     \* [Workers -> IndexClaimedSource in progress]
    cleaning    \* the attempt whose resource Reconcile has removed, or 0

vars == <<backend, job, attempts, resource, instance, worker, cleaning>>

Open      == {"prepared", "active", "cancel_requested"}
Retryable == {"failed", "cancelled", "lost"}
Finished  == Retryable \union {"succeeded"}
Ownable   == {"prepared", "active", "succeeded"}

NoWork == [pc |-> "idle", fence |-> 0, attempt |-> 0,
           seen |-> "none", owned |-> FALSE, handle |-> FALSE]

Attempt(f) == [state |-> "prepared", fence |-> f, instance |-> instance,
               handle |-> FALSE, cleanup |-> "none"]

Init ==
    /\ backend \in Backends
    /\ job = NewJob
    /\ attempts = <<>>
    /\ resource = <<>>
    /\ instance = 1
    /\ worker = [w \in Workers |-> NoWork]
    /\ cleaning = 0

Current(w)        == worker[w].attempt
Mine(w)      == attempts[Current(w)]
ActiveJob(w) == Active(job, w, worker[w].fence)
Goto(w, pc)  == worker' = [worker EXCEPT ![w].pc = pc]
Set(n, s, c) == attempts' = [attempts EXCEPT ![n].state = s, ![n].cleanup = c]

\* The condition of updateClaimedRunnerExecution: an active claim, and the row
\* still owned by it in one of the given states.
Owns(w, states) == /\ ActiveJob(w)
                   /\ Mine(w).fence = worker[w].fence
                   /\ Mine(w).state \in states

-----------------------------------------------------------------------------
(* The job around the execution.                                           *)

\* The sweep of a claim also ends the open attempts of an exhausted job.
SweptAttempts ==
    [n \in DOMAIN attempts |->
        IF attempts[n].state \in Open
          THEN [attempts[n] EXCEPT !.state = "lost", !.cleanup = "pending"]
          ELSE attempts[n]]

ClaimJob(w) ==
    /\ worker[w] = NoWork
    /\ \/ /\ Claimable(job)
          /\ job' = Leased(job, w)
          /\ worker' = [worker EXCEPT
                          ![w] = [NoWork EXCEPT !.pc = "prepare",
                                                !.fence = job.fence + 1]]
          /\ UNCHANGED attempts
       \/ /\ Exhausted(job)
          /\ job' = GaveUp(job)
          /\ attempts' = SweptAttempts
          /\ UNCHANGED worker
    /\ UNCHANGED <<backend, resource, instance, cleaning>>

\* What the job does with the evidence: it may still fail and be retried.  A
\* run that was cancelled by a shutdown hands its claim back.
Report(w) ==
    /\ worker[w].pc \in {"evidence", "error", "cancelled"}
    /\ IF Holds(job, w, worker[w].fence)
         THEN \/ worker[w].pc = "evidence" /\ job' = Completed(job)
              \/ job' = FailedOnce(job)
              \/ /\ worker[w].pc = "cancelled" /\ MayAbandon(job)
                 /\ job' = Abandoned(job)
         ELSE UNCHANGED job
    /\ worker' = [worker EXCEPT ![w] = NoWork]
    /\ UNCHANGED <<backend, attempts, resource, instance, cleaning>>

-----------------------------------------------------------------------------
(* IndexClaimedSource.                                                     *)

\* What ownAttempt and runAttempt go by: a copy of row n.
Look(w, n, row) ==
    worker' = [worker EXCEPT ![w].attempt = n,
                             ![w].seen = row.state,
                             ![w].owned = (row.fence = worker[w].fence),
                             ![w].handle = row.handle,
                             ![w].pc = "own"]
Run(w, n, hasHandle) ==
    worker' = [worker EXCEPT ![w] = [NoWork EXCEPT
                    !.fence = worker[w].fence, !.attempt = n,
                    !.pc = IF hasHandle THEN "observe" ELSE "ensure"]]
End(w, pc) ==
    worker' = [worker EXCEPT ![w] = [NoWork EXCEPT
                    !.fence = worker[w].fence, !.pc = pc]]
Allocate(w) ==
    /\ attempts' = Append(attempts, Attempt(worker[w].fence))
    /\ resource' = Append(resource, "none")

\* PrepareRunnerExecution: the first attempt, or the latest there is.
Prepare(w) ==
    /\ worker[w].pc = "prepare"
    /\ IF ~ActiveJob(w)
         THEN End(w, "error") /\ UNCHANGED <<attempts, resource>>
         ELSE IF attempts = <<>>
         THEN Allocate(w) /\ Look(w, 1, Attempt(worker[w].fence))
         ELSE /\ Look(w, Len(attempts), attempts[Len(attempts)])
              /\ UNCHANGED <<attempts, resource>>
    /\ UNCHANGED <<backend, job, instance, cleaning>>

\* ownAttempt: this very claim prepared the row.
KeepOwn(w) ==
    /\ worker[w].seen \in Ownable /\ worker[w].owned
    /\ Run(w, Current(w), worker[w].handle)
    /\ UNCHANGED <<attempts, resource>>

\* AdoptRunnerExecution takes the row over, then reads a row of the execution
\* back without naming the attempt.
Adopt(w) ==
    /\ worker[w].seen \in Ownable /\ ~worker[w].owned
    /\ backend = "adoptable"
    /\ ActiveJob(w) /\ Mine(w).state \in Ownable
    /\ attempts' = [attempts EXCEPT ![Current(w)].fence = worker[w].fence]
    /\ \E n \in DOMAIN attempts : Run(w, n, attempts[n].handle)
    /\ UNCHANGED resource

\* ReplaceLocalRunnerAttempt: an attempt of another process is lost; one of
\* this process is not replaced.
Replace(w) ==
    /\ worker[w].seen \in Ownable /\ ~worker[w].owned
    /\ backend = "local"
    /\ ActiveJob(w) /\ Mine(w).state \in Ownable
    /\ Mine(w).instance # instance
    /\ Current(w) = Len(attempts)
    /\ attempts' = Append(
            [attempts EXCEPT
               ![Current(w)].state = IF @ = "succeeded" THEN @ ELSE "lost",
               ![Current(w)].cleanup = "pending"],
            Attempt(worker[w].fence))
    /\ resource' = Append(resource, "none")
    /\ Run(w, Current(w) + 1, FALSE)

\* Seeded fault: any attempt may be advanced, whatever its state.
AllocateNextAnyState(w) ==
    /\ ~worker[w].owned
    /\ ActiveJob(w)
    /\ Current(w) = Len(attempts)
    /\ Allocate(w)
    /\ Run(w, Current(w) + 1, FALSE)
\* AllocateRunnerAttempt.
AllocateNext(w) ==
    /\ worker[w].seen \in Retryable
    /\ ActiveJob(w)
    /\ Mine(w).state \in Retryable /\ Current(w) = Len(attempts)
    /\ Allocate(w)
    /\ Run(w, Current(w) + 1, FALSE)

\* No transaction took the attempt: it changed since it was read, it belongs
\* to this process, its cancellation never ended, or the claim is stale.
NotRunnable(w) ==
    LET ownable == worker[w].seen \in Ownable IN
    /\ ~(ownable /\ worker[w].owned)
    /\ \/ ~ActiveJob(w)
       \/ worker[w].seen = "cancel_requested"
       \/ ownable /\ Mine(w).state \notin Ownable
       \/ ownable /\ backend = "local" /\ \/ Mine(w).instance = instance
                                          \/ Current(w) # Len(attempts)
       \/ worker[w].seen \in Retryable /\ Current(w) # Len(attempts)
    /\ End(w, "error")
    /\ UNCHANGED <<attempts, resource>>

OwnAttempt(w) ==
    /\ worker[w].pc = "own"
    /\ \/ KeepOwn(w) \/ Adopt(w) \/ Replace(w) \/ AllocateNext(w)
       \/ NotRunnable(w)
    /\ UNCHANGED <<backend, job, instance, cleaning>>

\* Ensure creates the resource of the attempt unless it is there already.  A
\* local backend runs it to its end.  The call may fail before or after it
\* created something, and name what it created or not.
Ensured(n) ==
    IF resource[n] \notin {"none", "gone"} THEN {resource[n]}
    ELSE IF backend = "local" THEN {"done", "failed"} ELSE {"running"}

Ensure(w) ==
    LET n == Current(w) IN
    /\ worker[w].pc = "ensure"
    /\ \/ \E r \in Ensured(n) :
            /\ resource' = [resource EXCEPT ![n] = r]
            /\ \/ Goto(w, "record") /\ UNCHANGED attempts
               \/ /\ Goto(w, "fail")
                  /\ backend = "adoptable"
                  /\ \/ attempts' = [attempts EXCEPT ![n].handle = TRUE]
                     \/ UNCHANGED attempts
       \/ Goto(w, "fail") /\ UNCHANGED <<attempts, resource>>
    /\ UNCHANGED <<backend, job, instance, cleaning>>

\* RecordRunnerHandle, or RecordDiscoveredRunnerHandle if that is refused.
RecordHandle(w) ==
    LET n == Current(w)  ok == Owns(w, {"prepared", "active"}) IN
    /\ worker[w].pc = "record"
    /\ attempts' = [attempts EXCEPT ![n].handle = TRUE,
                                    ![n].state = IF ok THEN "active" ELSE @]
    /\ IF ok THEN Goto(w, "observe") ELSE End(w, "error")
    /\ UNCHANGED <<backend, job, resource, instance, cleaning>>

\* One round of the observation loop that does not find the runner running.
\* A container that has handed out its result exits and has no result then.
Observe(w) ==
    LET n == Current(w) IN
    /\ worker[w].pc = "observe"
    /\ \/ /\ resource[n] = "done"
          /\ Goto(w, "complete")
          /\ \/ /\ backend = "adoptable"
                /\ resource' = [resource EXCEPT ![n] = "exited"]
             \/ UNCHANGED resource
       \/ /\ resource[n] \in {"none", "failed", "exited", "gone"}
          /\ Goto(w, "fail") /\ UNCHANGED resource
       \/ /\ End(w, "error") /\ UNCHANGED resource   \* the engine is away
       \/ /\ Goto(w, "begin_cancel") /\ UNCHANGED resource  \* ctx is done
    /\ UNCHANGED <<backend, job, attempts, instance, cleaning>>

\* CompleteRunnerExecution: a result that may not be recorded fails the run.
CompleteExecution(w) ==
    /\ worker[w].pc = "complete"
    /\ IF Owns(w, {"active"})
         THEN Set(Current(w), "succeeded", "pending") /\ End(w, "evidence")
         ELSE UNCHANGED attempts /\ End(w, "error")
    /\ UNCHANGED <<backend, job, resource, instance, cleaning>>

\* recordFailure: two transactions, the second one not fenced.
\* Seeded fault: the failure is recorded whatever became of the attempt.
FailUnfenced(w) ==
    /\ worker[w].pc = "fail"
    /\ Set(Current(w), "failed", Mine(w).cleanup) /\ Goto(w, "mark_pending")
    /\ UNCHANGED <<backend, job, resource, instance, cleaning>>
FailExecution(w) ==
    /\ worker[w].pc = "fail"
    /\ IF Owns(w, Open)
         THEN Set(Current(w), "failed", Mine(w).cleanup) /\ Goto(w, "mark_pending")
         ELSE UNCHANGED attempts /\ End(w, "error")
    /\ UNCHANGED <<backend, job, resource, instance, cleaning>>

MarkCleanupPending(w) ==
    /\ worker[w].pc = "mark_pending"
    /\ IF Mine(w).state \in Finished
         THEN Set(Current(w), Mine(w).state, "pending") ELSE UNCHANGED attempts
    /\ End(w, "error")
    /\ UNCHANGED <<backend, job, resource, instance, cleaning>>

\* cancelCurrentAttempt: request, stop the resource, record.
\*
\* Seeded fault: the request to cancel already asks for cleanup.
BeginCancelEager(w) ==
    /\ worker[w].pc = "begin_cancel"
    /\ IF Owns(w, {"prepared", "active"})
         THEN Set(Current(w), "cancel_requested", "pending") /\ Goto(w, "cancel")
         ELSE UNCHANGED attempts /\ End(w, "error")
    /\ UNCHANGED <<backend, job, resource, instance, cleaning>>
BeginCancel(w) ==
    /\ worker[w].pc = "begin_cancel"
    /\ IF Owns(w, {"prepared", "active"})
         THEN Set(Current(w), "cancel_requested", Mine(w).cleanup) /\ Goto(w, "cancel")
         ELSE UNCHANGED attempts /\ End(w, "error")
    /\ UNCHANGED <<backend, job, resource, instance, cleaning>>

Cancel(w) ==
    LET n == Current(w) IN
    /\ worker[w].pc = "cancel"
    /\ \/ /\ resource' = [resource EXCEPT ![n] =
                IF @ \in {"none", "gone"} /\ backend = "adoptable" THEN @
                ELSE "failed"]
          /\ Goto(w, "mark_cancelled")
       \/ Goto(w, "fail") /\ UNCHANGED resource
    /\ UNCHANGED <<backend, job, attempts, instance, cleaning>>

MarkCancelled(w) ==
    /\ worker[w].pc = "mark_cancelled"
    /\ IF Owns(w, {"cancel_requested"})
         THEN Set(Current(w), "cancelled", "pending") /\ End(w, "cancelled")
         ELSE UNCHANGED attempts /\ End(w, "error")
    /\ UNCHANGED <<backend, job, resource, instance, cleaning>>

-----------------------------------------------------------------------------
(* Reconcile, and the world outside.                                       *)

\* What ListRunnerExecutionsForReconciliation selects and Reconcile keeps.
Due(n) == attempts[n].cleanup \in {"pending", "failed"}

\* The resource is removed by its handle, or found by its name.
CleanUp(n) ==
    /\ cleaning = 0 /\ Due(n)
    /\ resource' = [resource EXCEPT ![n] = "gone"]
    /\ cleaning' = n
    /\ UNCHANGED <<backend, job, attempts, instance, worker>>

MarkCleaned ==
    /\ cleaning # 0
    /\ attempts' = [attempts EXCEPT ![cleaning].cleanup =
                      IF Due(cleaning) THEN "cleaned" ELSE @]
    /\ cleaning' = 0
    /\ UNCHANGED <<backend, job, resource, instance, worker>>

\* RecordRunnerCleanupFailure, after the backend refused.
RecordCleanupFailure(n) ==
    /\ cleaning = 0 /\ Due(n)
    /\ Set(n, attempts[n].state, "failed")
    /\ UNCHANGED <<backend, job, resource, instance, worker, cleaning>>

RunnerEnds(n) ==
    /\ resource[n] = "running"
    /\ \E r \in {"done", "failed"} : resource' = [resource EXCEPT ![n] = r]
    /\ UNCHANGED <<backend, job, attempts, instance, worker, cleaning>>

\* The coordinator process is killed.  The results of a local backend lived
\* in its memory; the containers go on.
Restart ==
    /\ instance <= MaxRestarts
    /\ instance' = instance + 1
    /\ worker' = [w \in Workers |-> NoWork]
    /\ cleaning' = 0
    /\ resource' = IF backend = "local"
                     THEN [n \in DOMAIN resource |-> "gone"] ELSE resource
    /\ UNCHANGED <<backend, job, attempts>>

\* lease_until passes, even under a worker that is still at it.
Lapse == /\ job.live
         /\ job' = Lapsed(job)
         /\ UNCHANGED <<backend, attempts, resource, instance, worker, cleaning>>

RunStep(w) ==
    \/ Report(w) \/ Prepare(w) \/ OwnAttempt(w) \/ Ensure(w) \/ RecordHandle(w)
    \/ Observe(w) \/ CompleteExecution(w) \/ FailExecution(w)
    \/ MarkCleanupPending(w) \/ BeginCancel(w) \/ Cancel(w) \/ MarkCancelled(w)

Next == \/ \E w \in Workers : ClaimJob(w) \/ RunStep(w)
        \/ \E n \in DOMAIN attempts : \/ CleanUp(n) \/ RunnerEnds(n)
                                      \/ RecordCleanupFailure(n)
        \/ MarkCleaned \/ Restart \/ Lapse

Spec == Init /\ [][Next]_vars

-----------------------------------------------------------------------------
(* Properties.                                                             *)

TypeOK ==
    /\ backend \in Backends
    /\ job \in JobRow
    /\ \A n \in DOMAIN attempts : attempts[n] \in
            [state : Open \union Finished, fence : Nat, instance : Nat,
             handle : BOOLEAN,
             cleanup : {"none", "pending", "failed", "cleaned"}]
    /\ DOMAIN resource = DOMAIN attempts
    /\ \A n \in DOMAIN resource : resource[n] \in
            {"none", "running", "done", "failed", "exited", "gone"}
    /\ instance \in 1..(MaxRestarts + 1)
    /\ worker \in [Workers ->
            [pc : {"idle", "prepare", "own", "ensure", "record", "observe",
                   "complete", "fail", "mark_pending", "begin_cancel", "cancel",
                   "mark_cancelled", "evidence", "error", "cancelled"},
             fence : Nat, attempt : 0..Len(attempts),
             seen : {"none"} \union Open \union Finished,
             owned : BOOLEAN, handle : BOOLEAN]]
    /\ cleaning \in 0..Len(attempts)

\* Only the latest attempt of an execution is open: however claims lapse and
\* workers race through ownAttempt, no two rows of one execution are runnable.
OneOpenAttempt ==
    \A n \in DOMAIN attempts : attempts[n].state \in Open => n = Len(attempts)

\* A finished attempt keeps its outcome: the late result, failure or
\* cancellation of a worker that lost its lease does not overwrite it.
OutcomeIsFinal ==
    [][\A n \in DOMAIN attempts : attempts[n].state \in Finished =>
            attempts'[n].state = attempts[n].state]_vars

\* Reconcile only takes the resource of an attempt whose outcome is recorded:
\* nothing open is ever marked for cleanup or cleaned.
OpenIsNotCleaned ==
    \A n \in DOMAIN attempts : attempts[n].state \in Open =>
        attempts[n].cleanup = "none"
=============================================================================
