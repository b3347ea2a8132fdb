------------------------------ MODULE JobQueue ------------------------------
(***************************************************************************)
(* The durable job queue of the coordinator: webhook, preview, final and   *)
(* check jobs in one table, claimed by worker goroutines under a lease     *)
(* with a fencing token, executed at least once.  What a job does is left  *)
(* out here (Landing, CheckOutbox and RunnerExecution model it); the       *)
(* worker only remembers the claim it was given and later presents it.     *)
(***************************************************************************)
EXTENDS JobLease, FiniteSets

CONSTANTS Jobs,         \* the dedupe keys: one row each
          Kind,         \* [Jobs -> kind]
          Kinds,        \* [Workers -> set of kinds the worker claims]
          Priority,     \* [Jobs -> Nat]
          NoClaim

Claims == [job : Jobs, fence : Nat]

ASSUME JobQueueAssumption == NoClaim \notin Claims

VARIABLES job,    \* the table: one row per dedupe key
          claim   \* [Workers -> the JobClaim the goroutine holds in memory]

vars == <<job, claim>>

Present == {j \in Jobs : job[j].state # "absent"}

Init == /\ job = [j \in Jobs |-> NoJob]
        /\ claim = [w \in Workers |-> NoClaim]

\* enqueueJobTx: the dedupe key is unique, a second enqueue is a no-op.
Enqueue(j) ==
    /\ j \notin Present
    /\ job' = [job EXCEPT ![j] = NewJob]
    /\ UNCHANGED claim

\* recoverExpiredExhaustedJobsTx on the whole table: an exhausted row fails,
\* except that the row of a final job is done when the same transaction could
\* block its running landing (Landing says when; here it is a choice).
Swept(blocked) == [j \in Jobs |->
                     IF ~Exhausted(job[j]) THEN job[j]
                     ELSE IF j \in blocked THEN Completed(job[j])
                                           ELSE GaveUp(job[j])]
ExhaustedFinals == {j \in Jobs : Kind[j] = "final_plan" /\ Exhausted(job[j])}

Eligible(w) == {j \in Present : Kind[j] \in Kinds[w] /\ Claimable(job[j])}

\* ORDER BY priority DESC: the ties are broken by time, here by choice.
Foremost(S) == {j \in S : \A k \in S : Priority[k] <= Priority[j]}

\* ClaimJobKinds by a free worker; a claim that finds nothing still sweeps.
ClaimJobKinds(w) ==
    /\ claim[w] = NoClaim
    /\ \E blocked \in SUBSET ExhaustedFinals :
       \/ \E j \in Foremost(Eligible(w)) :
            /\ job' = [Swept(blocked) EXCEPT ![j] = Leased(job[j], w)]
            /\ claim' = [claim EXCEPT
                           ![w] = [job |-> j, fence |-> job[j].fence + 1]]
       \/ /\ Eligible(w) = {}
          /\ job' = Swept(blocked)
          /\ UNCHANGED claim

\* One claim-fenced UPDATE, then the goroutine is free again: a stale claim
\* changes no row, and the worker drops its claim either way.
Settle(w, row) ==
    LET c == claim[w] IN
    /\ c # NoClaim
    /\ job' = IF Holds(job[c.job], w, c.fence)
                THEN [job EXCEPT ![c.job] = row] ELSE job
    /\ claim' = [claim EXCEPT ![w] = NoClaim]

CompleteClaim(w) == Settle(w, Completed(job[claim[w].job]))
FailClaim(w)     == Settle(w, FailedOnce(job[claim[w].job]))
RejectClaim(w)   == Settle(w, Rejected(job[claim[w].job]))
AbandonClaim(w)  == /\ claim[w] # NoClaim
                    /\ MayAbandon(job[claim[w].job])
                    /\ Settle(w, Abandoned(job[claim[w].job]))

\* The process dies, or the goroutine is stopped without reporting.
Crash(w) == /\ claim[w] # NoClaim
            /\ claim' = [claim EXCEPT ![w] = NoClaim]
            /\ UNCHANGED job

\* lease_until passes, whether or not the worker is still at it.
Lapse(j) == /\ job[j].live
            /\ job' = [job EXCEPT ![j] = Lapsed(job[j])]
            /\ UNCHANGED claim

Execute(w) == CompleteClaim(w) \/ FailClaim(w) \/ RejectClaim(w)

Next == \/ \E j \in Jobs : Enqueue(j) \/ Lapse(j)
        \/ \E w \in Workers : \/ ClaimJobKinds(w) \/ Execute(w)
                              \/ AbandonClaim(w)  \/ Crash(w)

Spec == Init /\ [][Next]_vars

\* Every worker polls for ever and every job it runs ends (job_timeout); a
\* lease that nobody releases runs out.
Fairness == /\ \A w \in Workers : /\ WF_vars(ClaimJobKinds(w))
                                  /\ WF_vars(Execute(w))
            /\ \A j \in Jobs : WF_vars(Lapse(j))

FairSpec == Spec /\ Fairness

-----------------------------------------------------------------------------
(* Properties.                                                             *)

TypeOK == /\ job \in [Jobs -> JobRow]
          /\ claim \in [Workers -> Claims \union {NoClaim}]

\* At most one worker can still settle a job: of all the goroutines that
\* remember a claim on it, only one is not fenced off.
OneHolder ==
    \A v, w \in Workers :
        /\ claim[v] # NoClaim /\ claim[w] # NoClaim
        /\ claim[v].job = claim[w].job
        /\ claim[v].fence = claim[w].fence
        => v = w

\* A waiting job can be claimed: no combination of failures, abandons and
\* lapses leaves a pending or retryable row whose attempts are used up, which
\* neither the claim query nor the exhausted-job sweep would ever pick again.
NoDeadRow ==
    \A j \in Present : job[j].state \in Waiting =>
        job[j].attempts < MaxAttempts

\* While a lease is live nobody else takes the job over: the fencing token
\* moves only from a row that is waiting or whose lease has run out.
NoTakeoverOfLiveLease ==
    [][\A j \in Present : job'[j].fence # job[j].fence =>
            /\ job'[j].fence = job[j].fence + 1
            /\ ~job[j].live]_vars

\* Only the newest claim settles a job: a worker that gives its claim up and
\* changes the table by it held the last token issued for that row.
StaleClaimChangesNothing ==
    [][\A w \in Workers :
            claim[w] # NoClaim /\ claim'[w] = NoClaim /\ job' # job =>
                claim[w].fence = job[claim[w].job].fence]_vars

\* A job that is done, failed or rejected stays so: nothing in the queue
\* itself runs it again.
TerminalIsFinal ==
    [][\A j \in Present : job[j].state \in Terminal =>
            job'[j] = job[j]]_vars

\* Every job that is enqueued ends, whatever crashes, failures and graceful
\* shutdowns (finitely many) happen on the way.
EveryJobEnds ==
    \A j \in Jobs : j \in Present ~> job[j].state \in Terminal
=============================================================================
