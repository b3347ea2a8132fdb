--------------------------- MODULE JobQueueProofs ---------------------------
(***************************************************************************)
(* The fencing guarantees of the durable queue, for any number of workers  *)
(* and jobs and any retry limit; and that overlapping coordinators         *)
(* implement the queue, for any number of runs.                            *)
(*                                                                         *)
(* OneHolder is not inductive alone: a fresh token only differs from every *)
(* token in memory because none of those is newer than the row              *)
(* (ClaimsIssued).  The action properties need that a lease is live only   *)
(* while its row is running, and that a row starts with token zero         *)
(* (RowsConsistent).                                                       *)
(*                                                                         *)
(* The refinement needs no invariant: acquiring, losing and releasing the  *)
(* slot leaves the table alone, and whatever a worker does, in whichever   *)
(* phase its run is, is a step the queue allows.  What is proved of the    *)
(* queue then holds of the coordinators.                                   *)
(***************************************************************************)
EXTENDS Coordinator, TLAPS

\* No goroutine remembers a token the row has not issued yet.
ClaimsIssued ==
    \A w \in Workers : claim[w] # NoClaim =>
        /\ claim[w].job \in Present
        /\ claim[w].fence <= job[claim[w].job].fence

\* Every transaction that takes a row out of "running" clears lease_until; a row
\* that was never inserted has issued no token.
RowsConsistent ==
    \A j \in Jobs : /\ job[j].live => job[j].state = "running"
                    /\ job[j].state = "absent" => job[j].fence = 0

IInv == TypeOK /\ ClaimsIssued /\ OneHolder /\ NoDeadRow /\ RowsConsistent

-----------------------------------------------------------------------------
(* What the updates of JobLease make of one row.                           *)

\* A row that is settled, however it is settled, is a row again; it keeps its
\* token, is no longer leased, and if it is to wait it has an attempt left.
LEMMA SettledRow ==
    ASSUME NEW r \in JobRow, r.state = "running",
           NEW s \in {Completed(r), Rejected(r), FailedOnce(r), Abandoned(r),
                      GaveUp(r)}
    PROVE  /\ s \in JobRow
           /\ s.state \in Waiting \union Terminal
           /\ s.fence = r.fence
           /\ ~s.live
           /\ s.state \in Waiting => s.attempts < MaxAttempts
<1> USE JobLeaseAssumption DEF JobRow, Released, Terminal, Waiting
<1>1. CASE s = Completed(r)
  BY <1>1 DEF Completed
<1>2. CASE s = Rejected(r)
  BY <1>2 DEF Rejected
<1>3. CASE s = FailedOnce(r)
  <2>1. CASE r.attempts >= MaxAttempts
    <3>1. FailedOnce(r) = GaveUp(r)
      BY <2>1 DEF FailedOnce, GaveUp
    <3> QED
      BY <1>3, <3>1 DEF GaveUp
  <2>2. CASE ~(r.attempts >= MaxAttempts)
    <3>1. FailedOnce(r) = Released(r, "retryable")
      BY <2>2 DEF FailedOnce
    <3> QED
      BY <1>3, <2>2, <3>1
  <2> QED
    BY <2>1, <2>2
<1>4. CASE s = Abandoned(r)
  <2>1. CASE r.attempts > 0
    BY <1>4, <2>1 DEF Abandoned
  <2>2. CASE ~(r.attempts > 0)
    BY <1>4, <2>2 DEF Abandoned
  <2> QED
    BY <2>1, <2>2
<1>5. CASE s = GaveUp(r)
  BY <1>5 DEF GaveUp
<1> QED
  BY <1>1, <1>2, <1>3, <1>4, <1>5

\* A claim uses one attempt and issues the next token.
LEMMA LeasedRow ==
    ASSUME NEW r \in JobRow, Claimable(r), NEW w \in Workers
    PROVE  /\ Leased(r, w) \in JobRow
           /\ Leased(r, w).state = "running"
           /\ Leased(r, w).fence = r.fence + 1
  BY JobLeaseAssumption DEF JobRow, Leased, Claimable

-----------------------------------------------------------------------------
(* What a step does to one row.                                            *)

\* The sweep settles the exhausted rows and leaves the others alone.
LEMMA SweptRow ==
    ASSUME TypeOK, NEW blocked \in SUBSET Jobs, NEW j \in Jobs
    PROVE  /\ Swept(blocked)[j] \in {job[j], Completed(job[j]), GaveUp(job[j])}
           /\ Swept(blocked)[j] # job[j] => Exhausted(job[j])
  BY DEF Swept

Settled(r) == {Completed(r), Rejected(r), FailedOnce(r), Abandoned(r), GaveUp(r)}

RowNext(r, s) ==
    \/ s = r
    \/ r.state = "absent" /\ s = NewJob
    \/ r.state = "running" /\ s \in Settled(r)
    \/ Claimable(r) /\ \E w \in Workers : s = Leased(r, w)
    \/ r.live /\ s = Lapsed(r)

\* Every transaction changes each row by one of the row updates, or not at all.
LEMMA RowSteps ==
    ASSUME TypeOK, [Next]_vars
    PROVE  /\ job' = [j \in Jobs |-> job'[j]]
           /\ \A j \in Jobs : RowNext(job[j], job'[j])
<1> USE DEF TypeOK
<1>1. ASSUME NEW j \in Jobs, Enqueue(j)
      PROVE  /\ job' = [k \in Jobs |-> job'[k]]
             /\ \A k \in Jobs : RowNext(job[k], job'[k])
  BY <1>1 DEF Enqueue, Present, RowNext
<1>2. ASSUME NEW j \in Jobs, Lapse(j)
      PROVE  /\ job' = [k \in Jobs |-> job'[k]]
             /\ \A k \in Jobs : RowNext(job[k], job'[k])
  BY <1>2 DEF Lapse, RowNext
<1>3. ASSUME NEW w \in Workers, ClaimJobKinds(w)
      PROVE  /\ job' = [k \in Jobs |-> job'[k]]
             /\ \A k \in Jobs : RowNext(job[k], job'[k])
  <2>1. PICK blocked \in SUBSET Jobs :
           \/ \E j \in Eligible(w) :
                 job' = [Swept(blocked) EXCEPT ![j] = Leased(job[j], w)]
           \/ job' = Swept(blocked)
    BY <1>3 DEF ClaimJobKinds, ExhaustedFinals, Foremost
  <2>2. \A k \in Jobs : RowNext(job[k], Swept(blocked)[k])
    BY SweptRow DEF RowNext, Settled, Exhausted
  <2>3. Swept(blocked) = [k \in Jobs |-> Swept(blocked)[k]]
    BY DEF Swept
  <2>4. CASE job' = Swept(blocked)
    BY <2>2, <2>3, <2>4
  <2>5. ASSUME NEW j \in Eligible(w),
               job' = [Swept(blocked) EXCEPT ![j] = Leased(job[j], w)]
        PROVE  /\ job' = [k \in Jobs |-> job'[k]]
               /\ \A k \in Jobs : RowNext(job[k], job'[k])
    <3>1. j \in Jobs /\ Claimable(job[j])
      BY <2>5 DEF Eligible, Present
    <3>2. job'[j] = Leased(job[j], w)
      BY <2>3, <2>5, <3>1
    <3>3. \A k \in Jobs : k # j => job'[k] = Swept(blocked)[k]
      BY <2>3, <2>5
    <3>4. RowNext(job[j], job'[j])
      BY <3>1, <3>2 DEF RowNext
    <3>5. job' = [k \in Jobs |-> job'[k]]
      BY <2>3, <2>5
    <3> QED
      BY <2>2, <3>3, <3>4, <3>5
  <2> QED
    BY <2>1, <2>4, <2>5
<1>4. ASSUME NEW w \in Workers, claim[w] # NoClaim,
             NEW row \in Settled(job[claim[w].job]), Settle(w, row)
      PROVE  /\ job' = [k \in Jobs |-> job'[k]]
             /\ \A k \in Jobs : RowNext(job[k], job'[k])
  <2>1. claim[w].job \in Jobs
    BY <1>4 DEF Claims
  <2> QED
    BY <1>4, <2>1 DEF Settle, Holds, RowNext
<1>5. ASSUME NEW w \in Workers, Crash(w)
      PROVE  /\ job' = [k \in Jobs |-> job'[k]]
             /\ \A k \in Jobs : RowNext(job[k], job'[k])
  BY <1>5 DEF Crash, RowNext
<1>6. CASE UNCHANGED vars
  BY <1>6 DEF vars, RowNext
<1>7. ASSUME NEW w \in Workers, Execute(w) \/ AbandonClaim(w)
      PROVE  claim[w] # NoClaim
             /\ \E row \in Settled(job[claim[w].job]) : Settle(w, row)
  BY <1>7 DEF Execute, AbandonClaim, CompleteClaim, FailClaim, RejectClaim,
              Settle, Settled
<1> QED
  BY <1>1, <1>2, <1>3, <1>4, <1>5, <1>6, <1>7 DEF Next

-----------------------------------------------------------------------------
(* What the row updates preserve.                                          *)

RowInv(r) == /\ r \in JobRow
             /\ r.live => r.state = "running"
             /\ r.state = "absent" => r.fence = 0
             /\ r.state \in Waiting => r.attempts < MaxAttempts

\* A row stays a row whose lease is live only while it runs and which has an
\* attempt left while it waits; its token never goes back, and moves by one
\* only when no lease is live; a terminal row does not change at all.
LEMMA RowNextFacts ==
    ASSUME NEW r, NEW s, RowInv(r), RowNext(r, s)
    PROVE  /\ RowInv(s)
           /\ \/ s.fence = r.fence
              \/ s.fence = r.fence + 1 /\ ~r.live
           /\ r.state \in Terminal => s = r
           /\ r.state # "absent" => s.state # "absent"
<1>1. CASE s = r
  BY <1>1
<1>2. CASE r.state = "absent" /\ s = NewJob
  <2>1. RowInv(NewJob)
    BY JobLeaseAssumption DEF RowInv, JobRow, NewJob, Waiting, Terminal
  <2> QED
    BY <1>2, <2>1 DEF RowInv, NewJob, Terminal
<1>3. CASE r.state = "running" /\ s \in Settled(r)
  <2>1. /\ s \in JobRow /\ s.state \in Waiting \union Terminal
        /\ s.fence = r.fence /\ ~s.live
        /\ s.state \in Waiting => s.attempts < MaxAttempts
    BY <1>3, SettledRow DEF RowInv, Settled
  <2> QED
    BY <1>3, <2>1 DEF RowInv, Waiting, Terminal
<1>4. CASE Claimable(r) /\ \E w \in Workers : s = Leased(r, w)
  <2>1. /\ s \in JobRow /\ s.state = "running" /\ s.fence = r.fence + 1
    BY <1>4, LeasedRow DEF RowInv
  <2>2. \/ r.state \in Waiting
        \/ r.state = "running" /\ ~r.live
    BY <1>4 DEF Claimable
  <2>3. ~r.live /\ r.state \notin Terminal
    BY <2>2 DEF RowInv, Waiting, Terminal
  <2> QED
    BY <2>1, <2>3 DEF RowInv, Waiting
<1>5. CASE r.live /\ s = Lapsed(r)
  <2>1. /\ s \in JobRow /\ s.state = r.state /\ s.fence = r.fence
        /\ ~s.live /\ s.attempts = r.attempts
    BY <1>5 DEF RowInv, JobRow, Lapsed
  <2>2. r.state = "running"
    BY <1>5 DEF RowInv
  <2> QED
    BY <2>1, <2>2 DEF RowInv, Waiting, Terminal
<1> QED
  BY <1>1, <1>2, <1>3, <1>4, <1>5 DEF RowNext

LEMMA RowInvOf ==
    ASSUME TypeOK, NoDeadRow, RowsConsistent
    PROVE  \A j \in Jobs : RowInv(job[j])
  BY DEF TypeOK, NoDeadRow, RowsConsistent, RowInv, Present, Waiting

\* The table's part of the inductive invariant.
LEMMA TableStep ==
    ASSUME TypeOK, NoDeadRow, RowsConsistent, [Next]_vars
    PROVE  /\ job' \in [Jobs -> JobRow]
           /\ NoDeadRow' /\ RowsConsistent'
           /\ \A j \in Jobs :
                /\ \/ job'[j].fence = job[j].fence
                   \/ job'[j].fence = job[j].fence + 1 /\ ~job[j].live
                /\ job[j].state \in Terminal => job'[j] = job[j]
           /\ Present \subseteq Present'
<1>1. \A j \in Jobs : RowInv(job[j]) /\ RowNext(job[j], job'[j])
  BY RowInvOf, RowSteps
<1>2. \A j \in Jobs :
        /\ RowInv(job'[j])
        /\ \/ job'[j].fence = job[j].fence
           \/ job'[j].fence = job[j].fence + 1 /\ ~job[j].live
        /\ job[j].state \in Terminal => job'[j] = job[j]
        /\ job[j].state # "absent" => job'[j].state # "absent"
  BY <1>1, RowNextFacts
<1>3. job' \in [Jobs -> JobRow]
  BY <1>2, RowSteps DEF RowInv
<1>4. NoDeadRow' /\ RowsConsistent'
  BY <1>2 DEF NoDeadRow, RowsConsistent, RowInv, Present
<1>5. Present \subseteq Present'
  BY <1>2 DEF Present
<1> QED
  BY <1>2, <1>3, <1>4, <1>5

-----------------------------------------------------------------------------
(* The claims in memory.                                                   *)

\* Whose claim changes in a step, and how.
KeepsClaims   == claim' = claim
DropsClaim(w) == claim[w] # NoClaim /\ claim' = [claim EXCEPT ![w] = NoClaim]
TakesClaim(w) ==
    \E j \in Present :
        /\ claim[w] = NoClaim
        /\ claim' = [claim EXCEPT
                       ![w] = [job |-> j, fence |-> job[j].fence + 1]]
        /\ job'[j].fence = job[j].fence + 1

\* A claim is kept, dropped, or taken as the token its row has just issued.
LEMMA ClaimSteps ==
    ASSUME TypeOK, [Next]_vars
    PROVE  KeepsClaims \/ \E w \in Workers : DropsClaim(w) \/ TakesClaim(w)
<1>1. ASSUME NEW j \in Jobs, Enqueue(j) \/ Lapse(j)
      PROVE  KeepsClaims
  BY <1>1 DEF Enqueue, Lapse, KeepsClaims
<1>2. CASE UNCHANGED vars
  BY <1>2 DEF vars, KeepsClaims
<1>3. ASSUME NEW w \in Workers, Execute(w) \/ AbandonClaim(w) \/ Crash(w)
      PROVE  DropsClaim(w)
  BY <1>3 DEF Execute, CompleteClaim, FailClaim, RejectClaim, AbandonClaim,
              Crash, Settle, DropsClaim
<1>4. ASSUME NEW w \in Workers, ClaimJobKinds(w)
      PROVE  KeepsClaims \/ TakesClaim(w)
  <2>1. CASE UNCHANGED claim
    BY <2>1 DEF KeepsClaims
  <2>2. ASSUME NEW blocked \in SUBSET Jobs, NEW j \in Eligible(w),
               job' = [Swept(blocked) EXCEPT ![j] = Leased(job[j], w)],
               claim' = [claim EXCEPT
                           ![w] = [job |-> j, fence |-> job[j].fence + 1]]
        PROVE  TakesClaim(w)
    <3>1. j \in Present /\ j \in Jobs
      BY DEF Eligible, Present
    <3>2. job'[j] = Leased(job[j], w)
      BY <2>2, <3>1 DEF Swept
    <3>3. job'[j].fence = job[j].fence + 1
      BY <3>2 DEF Leased
    <3> QED
      BY <1>4, <2>2, <3>1, <3>3 DEF TakesClaim, ClaimJobKinds
  <2> QED
    BY <1>4, <2>1, <2>2 DEF ClaimJobKinds, ExhaustedFinals, Foremost
<1> QED
  BY <1>1, <1>2, <1>3, <1>4 DEF Next

-----------------------------------------------------------------------------
(* The inductive invariant.                                                *)

LEMMA InitIInv == Init => IInv
  BY JobLeaseAssumption, JobQueueAssumption
  DEF Init, IInv, TypeOK, ClaimsIssued, OneHolder, NoDeadRow, RowsConsistent,
      Present, NoJob, JobRow, Waiting, Terminal

LEMMA NextIInv == IInv /\ [Next]_vars => IInv'
<1> SUFFICES ASSUME IInv, [Next]_vars
             PROVE  IInv'
  OBVIOUS
<1> USE JobQueueAssumption DEF IInv
<1>1. /\ job' \in [Jobs -> JobRow] /\ NoDeadRow' /\ RowsConsistent'
      /\ Present \subseteq Present'
      /\ \A j \in Jobs : /\ job[j].fence \in Nat /\ job'[j].fence \in Nat
                         /\ job'[j].fence >= job[j].fence
  <2>1. job' \in [Jobs -> JobRow] /\ NoDeadRow' /\ RowsConsistent'
        /\ Present \subseteq Present'
        /\ \A j \in Jobs : job'[j].fence \in {job[j].fence, job[j].fence + 1}
    BY TableStep
  <2>2. \A j \in Jobs : job[j].fence \in Nat
    BY DEF TypeOK, JobRow
  <2> QED
    BY <2>1, <2>2
<1>2. \A w \in Workers : claim[w] # NoClaim =>
        /\ claim[w] \in Claims /\ claim[w].job \in Present
        /\ claim[w].job \in Jobs /\ claim[w].fence \in Nat
        /\ claim[w].fence <= job[claim[w].job].fence
  BY DEF TypeOK, ClaimsIssued, Claims, Present
<1>3. CASE KeepsClaims
  <2>1. TypeOK'
    BY <1>1, <1>3 DEF KeepsClaims, TypeOK
  <2>2. ClaimsIssued'
    BY <1>1, <1>2, <1>3 DEF KeepsClaims, ClaimsIssued
  <2>3. OneHolder'
    BY <1>3 DEF KeepsClaims, OneHolder
  <2> QED
    BY <1>1, <2>1, <2>2, <2>3
<1>4. ASSUME NEW w \in Workers, DropsClaim(w)
      PROVE  IInv'
  <2>1. TypeOK'
    BY <1>1, <1>4 DEF DropsClaim, TypeOK
  <2>2. \A v \in Workers : claim'[v] = claim[v] \/ claim'[v] = NoClaim
    BY <1>4 DEF DropsClaim, TypeOK
  <2>3. ClaimsIssued'
    BY <1>1, <1>2, <2>2 DEF ClaimsIssued
  <2>4. OneHolder'
    BY <2>2 DEF OneHolder
  <2> QED
    BY <1>1, <2>1, <2>3, <2>4
<1>5. ASSUME NEW w \in Workers, TakesClaim(w)
      PROVE  IInv'
  <2>1. PICK j \in Present :
          /\ claim' = [claim EXCEPT
                         ![w] = [job |-> j, fence |-> job[j].fence + 1]]
          /\ job'[j].fence = job[j].fence + 1
    BY <1>5 DEF TakesClaim
  <2>2. j \in Jobs /\ j \in Present' /\ job[j].fence \in Nat
    BY <1>1 DEF Present
  <2>3. /\ claim'[w] = [job |-> j, fence |-> job[j].fence + 1]
        /\ \A v \in Workers : v # w => claim'[v] = claim[v]
    BY <2>1 DEF TypeOK
  <2>4. TypeOK'
    BY <1>1, <2>1, <2>2 DEF TypeOK, Claims
  <2>5. ClaimsIssued'
    BY <1>1, <1>2, <2>1, <2>2, <2>3 DEF ClaimsIssued
  <2>6. \A v \in Workers : v # w /\ claim[v] # NoClaim /\ claim[v].job = j =>
          claim[v].fence # claim'[w].fence
    BY <1>2, <2>2, <2>3
  <2>7. OneHolder'
    BY <2>3, <2>6 DEF OneHolder
  <2> QED
    BY <1>1, <2>4, <2>5, <2>7
<1> QED
  BY <1>3, <1>4, <1>5, ClaimSteps

THEOREM Invariance == Spec => []IInv
  BY InitIInv, NextIInv, PTL DEF Spec

-----------------------------------------------------------------------------
(* What the queue promises.                                                *)

\* The table and the claims in memory stay well formed in every execution of
\* the claim, settle, sweep, crash and lapse transactions.
THEOREM TypeCorrect == Spec => []TypeOK
  BY Invariance, PTL DEF IInv

\* Fencing: of all the goroutines that still remember a claim on a job, at most
\* one holds the token that the claim-fenced updates accept.
THEOREM Fencing == Spec => []OneHolder
  BY Invariance, PTL DEF IInv

\* No sequence of failures, abandons, lapses and sweeps produces a waiting row
\* that neither the claim query nor the sweep would pick.
THEOREM NoRowIsDead == Spec => []NoDeadRow
  BY Invariance, PTL DEF IInv

\* A live lease is never taken over by another claim.
THEOREM LeaseIsExclusive == Spec => NoTakeoverOfLiveLease
<1>1. IInv /\ [Next]_vars =>
        [\A j \in Present : job'[j].fence # job[j].fence =>
            /\ job'[j].fence = job[j].fence + 1
            /\ ~job[j].live]_vars
  BY TableStep DEF IInv, Present
<1> QED
  BY <1>1, Invariance, PTL DEF Spec, NoTakeoverOfLiveLease

\* A job that ended stays as it is.
THEOREM EndedForGood == Spec => TerminalIsFinal
<1>1. IInv /\ [Next]_vars =>
        [\A j \in Present : job[j].state \in Terminal => job'[j] = job[j]]_vars
  BY TableStep DEF IInv, Present
<1> QED
  BY <1>1, Invariance, PTL DEF Spec, TerminalIsFinal

\* A worker that lost its lease changes no row by reporting.
THEOREM StaleClaimsAreFenced == Spec => StaleClaimChangesNothing
<1>1. IInv /\ [Next]_vars =>
        [\A w \in Workers :
            claim[w] # NoClaim /\ claim'[w] = NoClaim /\ job' # job =>
                claim[w].fence = job[claim[w].job].fence]_vars
  <2> SUFFICES ASSUME TypeOK, Next, NEW w \in Workers,
                      claim[w] # NoClaim, claim'[w] = NoClaim, job' # job
               PROVE  claim[w].fence = job[claim[w].job].fence
    BY DEF IInv, vars
  <2>1. ~ \E j \in Jobs : Enqueue(j) \/ Lapse(j)
    BY DEF Enqueue, Lapse
  <2>2. ASSUME NEW v \in Workers, ClaimJobKinds(v)
        PROVE  FALSE
    <3>1. v # w
      BY <2>2 DEF ClaimJobKinds
    <3> QED
      BY <2>2, <3>1 DEF ClaimJobKinds, TypeOK
  <2>3. ASSUME NEW v \in Workers, Crash(v)
        PROVE  FALSE
    BY <2>3 DEF Crash
  <2>4. ASSUME NEW v \in Workers, NEW row, Settle(v, row)
        PROVE  claim[w].fence = job[claim[w].job].fence
    <3>1. v = w
      BY <2>4 DEF Settle, TypeOK
    <3> QED
      BY <2>4, <3>1 DEF Settle, Holds
  <2> QED
    BY <2>1, <2>2, <2>3, <2>4
    DEF Next, Execute, CompleteClaim, FailClaim, RejectClaim, AbandonClaim
<1> QED
  BY <1>1, Invariance, PTL DEF Spec, StaleClaimChangesNothing

-----------------------------------------------------------------------------
(* Overlapping coordinators.                                               *)

\* Steps of the processes are stutters of the queue.
LEMMA ProcessStep ==
    ASSUME NEW c \in Coordinators,
           \/ AcquireCoordinator(c) \/ RefreshFails(c)
           \/ ReleaseCoordinator(c) \/ Killed(c)
    PROVE  UNCHANGED vars
  BY DEF AcquireCoordinator, RefreshFails, ReleaseCoordinator, Killed, vars

\* Steps of the workers and of the table are steps of the queue.
LEMMA WorkerStep ==
    ASSUME NEW w \in Workers, Claim(w) \/ Work(w) \/ HandBack(w) \/ Dies(w)
    PROVE  Next
<1>1. CASE Claim(w)
  BY <1>1 DEF Claim, Next
<1>2. CASE Work(w)
  BY <1>2 DEF Work, Next
<1>3. CASE HandBack(w)
  BY <1>3 DEF HandBack, Next
<1>4. CASE Dies(w)
  BY <1>4 DEF Dies, Next
<1> QED
  BY <1>1, <1>2, <1>3, <1>4

LEMMA CoordStep == [CoordNext]_coordVars => [Next]_vars
<1> SUFFICES ASSUME [CoordNext]_coordVars
             PROVE  [Next]_vars
  OBVIOUS
<1>1. CASE UNCHANGED coordVars
  BY <1>1 DEF coordVars, vars
<1>2. ASSUME NEW c \in Coordinators,
             \/ AcquireCoordinator(c) \/ RefreshFails(c)
             \/ ReleaseCoordinator(c) \/ Killed(c)
      PROVE  [Next]_vars
  BY <1>2, ProcessStep
<1>3. CASE HeartbeatExpires
  BY <1>3 DEF HeartbeatExpires, vars
<1>4. ASSUME NEW w \in Workers, Claim(w) \/ Work(w) \/ HandBack(w) \/ Dies(w)
      PROVE  [Next]_vars
  BY <1>4, WorkerStep
<1>5. ASSUME NEW j \in Jobs, Table(j)
      PROVE  [Next]_vars
  BY <1>5 DEF Table, Next
<1> QED
  BY <1>1, <1>2, <1>3, <1>4, <1>5 DEF CoordNext

\* The queue of overlapping runs takes no step of its own.
LEMMA QueueOfRuns == CoordSpec => Spec
<1>1. CoordInit => Init
  BY DEF CoordInit
<1> QED
  BY <1>1, CoordStep, PTL DEF CoordSpec, Spec

\* Only one goroutine of all runs, replaced ones included, holds the newest
\* token of a job.
THEOREM FencingAcrossRuns == CoordSpec => []OneHolder
  BY QueueOfRuns, Fencing

\* The slot and the phases keep their types.
LEMMA SlotTypes ==
    CoordSpec => [](/\ slot \in [holder : Coordinators \union {NoCoordinator},
                                 live : BOOLEAN]
                    /\ phase \in [Coordinators ->
                                     {"new", "running", "stopping", "gone"}])
<1> DEFINE T == /\ slot \in [holder : Coordinators \union {NoCoordinator},
                             live : BOOLEAN]
                /\ phase \in [Coordinators ->
                                 {"new", "running", "stopping", "gone"}]
<1>1. CoordInit => T
  BY DEF CoordInit, NoHeartbeat
<1>2. T /\ [CoordNext]_coordVars => T'
  <2> SUFFICES ASSUME T, [CoordNext]_coordVars
               PROVE  T'
    OBVIOUS
  <2>1. CASE UNCHANGED coordVars
    BY <2>1 DEF coordVars
  <2>2. ASSUME NEW c \in Coordinators,
               \/ AcquireCoordinator(c) \/ RefreshFails(c)
               \/ ReleaseCoordinator(c) \/ Killed(c)
        PROVE  T'
    <3>1. CASE AcquireCoordinator(c)
      BY <3>1 DEF AcquireCoordinator
    <3>2. CASE RefreshFails(c) \/ Killed(c)
      BY <3>2 DEF RefreshFails, Killed
    <3>3. CASE ReleaseCoordinator(c)
      <4>1. slot' \in {NoHeartbeat, slot}
        BY <3>3 DEF ReleaseCoordinator
      <4>2. NoHeartbeat \in [holder : Coordinators \union {NoCoordinator},
                             live : BOOLEAN]
        BY DEF NoHeartbeat
      <4> QED
        BY <3>3, <4>1, <4>2 DEF ReleaseCoordinator
    <3> QED
      BY <2>2, <3>1, <3>2, <3>3
  <2>3. CASE HeartbeatExpires
    BY <2>3 DEF HeartbeatExpires
  <2>4. ASSUME NEW w \in Workers, Claim(w) \/ Work(w) \/ HandBack(w) \/ Dies(w)
        PROVE  T'
    BY <2>4 DEF Claim, Work, HandBack, Dies
  <2>5. ASSUME NEW j \in Jobs, Table(j)
        PROVE  T'
    BY <2>5 DEF Table
  <2> QED
    BY <2>1, <2>2, <2>3, <2>4, <2>5 DEF CoordNext
<1> QED
  BY <1>1, <1>2, PTL DEF CoordSpec

\* No run takes the slot from one that keeps refreshing it: a start finds the
\* live row, and a late release deletes by instance and token.
THEOREM SlotIsKept == CoordSpec => []SurvivorKeepsSlot
<1> DEFINE T == /\ phase = [c \in Coordinators |-> phase[c]]
                /\ SurvivorKeepsSlot
<1>1. CoordInit => T
  BY CoordinatorAssumption DEF CoordInit, SurvivorKeepsSlot
<1>2. T /\ [CoordNext]_coordVars => T'
  <2> SUFFICES ASSUME T, [CoordNext]_coordVars
               PROVE  T'
    OBVIOUS
  <2> USE CoordinatorAssumption DEF SurvivorKeepsSlot
  <2>1. CASE UNCHANGED coordVars
    BY <2>1 DEF coordVars
  <2>2. ASSUME NEW c \in Coordinators, AcquireCoordinator(c)
        PROVE  T'
    <3>1. /\ phase[c] = "new" /\ ~slot.live
          /\ slot' = [holder |-> c, live |-> TRUE]
          /\ phase' = [phase EXCEPT ![c] = "running"]
      BY <2>2 DEF AcquireCoordinator
    <3>2. phase[Survivor] # "running"
      BY <3>1
    <3>3. CASE c = Survivor
      BY <3>1, <3>3
    <3>4. CASE c # Survivor
      BY <3>1, <3>2, <3>4
    <3> QED
      BY <3>3, <3>4
  <2>3. ASSUME NEW c \in Coordinators, RefreshFails(c)
        PROVE  T'
    BY <2>3 DEF RefreshFails
  <2>4. ASSUME NEW c \in Coordinators, ReleaseCoordinator(c)
        PROVE  T'
    <3>1. /\ phase[c] = "stopping"
          /\ phase' = [phase EXCEPT ![c] = "gone"]
          /\ slot' = IF slot.holder = c THEN NoHeartbeat ELSE slot
      BY <2>4 DEF ReleaseCoordinator
    <3>2. c # Survivor
      BY <3>1
    <3>3. phase[Survivor] = "running" => slot' = slot
      BY <3>1, <3>2
    <3> QED
      BY <3>1, <3>2, <3>3
  <2>5. ASSUME NEW c \in Coordinators, Killed(c)
        PROVE  T'
    BY <2>5 DEF Killed
  <2>6. CASE HeartbeatExpires
    BY <2>6 DEF HeartbeatExpires
  <2>7. ASSUME NEW w \in Workers, Claim(w) \/ Work(w) \/ HandBack(w) \/ Dies(w)
        PROVE  T'
    BY <2>7 DEF Claim, Work, HandBack, Dies
  <2>8. ASSUME NEW j \in Jobs, Table(j)
        PROVE  T'
    BY <2>8 DEF Table
  <2> QED
    BY <2>1, <2>2, <2>3, <2>4, <2>5, <2>6, <2>7, <2>8 DEF CoordNext
<1> QED
  BY <1>1, <1>2, PTL DEF CoordSpec

\* Table, claims, slot and phases keep their types whichever runs overlap.
THEOREM CoordinatorTypes == CoordSpec => []CoordTypeOK
<1>1. CoordSpec => []TypeOK
  BY QueueOfRuns, TypeCorrect
<1> QED
  BY <1>1, SlotTypes, PTL DEF CoordTypeOK
=============================================================================
