-------------------------- MODULE CheckOutboxProofs --------------------------
(***************************************************************************)
(* The published check of one pull request head, for any contents, number  *)
(* of versions, faults and check runs from before a restore.               *)
(*                                                                         *)
(* What the control worker read of the desired state is old when it        *)
(* writes, and what it listed of the provider is old when it supersedes.   *)
(* The invariant says what of it still holds (Knows).  It rests on there   *)
(* being one control worker: nobody else writes check runs or publishes    *)
(* while a run is on its way.                                              *)
(***************************************************************************)
EXTENDS CheckOutbox, SequenceTheorems, WellFoundedInduction, NaturalsInduction, TLAPS

Says        == Contents \union {Superseded}
Writing     == {"duplicates", "commit"}
Publishing  == {"validate", "list", "write"} \union Writing
PCs         == Publishing \union {"idle", "read", "supersede", "failed"}
DesiredRows == [version : 0..MaxVersion, content : Says, published : 0..MaxVersion,
                run : Nat]
WorkerRows  == [pc : PCs, version : 0..MaxVersion, fence : Nat, content : Says,
                run : Nat, listed : SUBSET Nat]

-----------------------------------------------------------------------------
(* The inductive invariant.                                                *)

Typed ==
    /\ desired \in DesiredRows /\ desired.published <= desired.version
    /\ runs \in Seq(Says) /\ desired.run <= Len(runs)
    /\ worker \in [Workers -> WorkerRows]
    /\ trouble \in 0..MaxTrouble

\* A version has a job from the moment it is desired, and none before.
Rows == /\ job \in [Versions -> JobRow]
        /\ \A v \in Versions : v > desired.version => job[v] = NoJob

\* What a run claimed, and what it read.  While the latest state counts as
\* published, a run on its way is one that writes the very same again.
Read(w) ==
    LET r == worker[w] IN
    /\ r.pc = "idle" => r = Idle
    /\ r.pc # "idle" => r.version \in Versions /\ r.version <= desired.version
    /\ r.pc = "supersede" => r.version < desired.version
    /\ r.pc \in Publishing /\ r.version = desired.version =>
         r.content = desired.content
    /\ r.pc \in Publishing /\ Published =>
         r.version = desired.version /\ r.run = desired.run

\* What a run did at the provider: its check run says what it read, and what
\* still says something else is a duplicate it listed.
Done(w) ==
    LET r == worker[w] IN
    /\ r.run <= Len(runs) /\ r.listed \subseteq DOMAIN runs
    /\ r.pc = "write" => r.listed = DOMAIN runs
    /\ r.pc \in Writing =>
         /\ r.run \in DOMAIN runs /\ runs[r.run] = r.content
         /\ \A x \in DOMAIN runs \ {r.run} : x \in r.listed \/ runs[x] = Superseded
    /\ r.pc = "commit" => r.listed \subseteq {r.run}

Knows(w) == Read(w) /\ Done(w)

\* The stored check run, and no other, shows the latest state.
Shown ==
    Published => /\ desired.run \in DOMAIN runs
                 /\ runs[desired.run] = desired.content
                 /\ \A x \in DOMAIN runs \ {desired.run} : runs[x] = Superseded

IInv == Typed /\ Rows /\ (\A w \in Workers : Knows(w)) /\ Shown

-----------------------------------------------------------------------------
(* Lemmas.                                                                 *)

\* The least member of a set of numbers.
LEMMA MinOfNumbers ==
    ASSUME NEW T \in SUBSET Nat, T # {}
    PROVE  Min(T) \in T /\ \A y \in T : Min(T) <= y
<1> DEFINE R == {ss \in Nat \X Nat : ss[1] < ss[2]}
<1>1. IsWellFoundedOn(R, Nat)
  BY NatLessThanWellFounded DEF OpToRel
<1>2. \A x, y \in Nat : <<x, y>> \in R <=> x < y
  OBVIOUS
<1> HIDE DEF R
<1>3. PICK x \in T : \A y \in T : <<y, x>> \notin R
  BY <1>1, WFMin
<1>4. ASSUME NEW y \in T
      PROVE  x <= y
  <2>1. x \in Nat /\ y \in Nat
    OBVIOUS
  <2>2. ~(y < x)
    BY <1>2, <1>3, <2>1
  <2> QED
    BY <2>1, <2>2
<1> QED
  BY <1>4 DEF Min

\* The updates of JobLease make rows of rows.
LEMMA FreshRows == NoJob \in JobRow /\ NewJob \in JobRow
  BY JobLeaseAssumption DEF JobRow, NoJob, NewJob, Waiting, Terminal

LEMMA UpdatedRows ==
    ASSUME NEW r \in JobRow
    PROVE  /\ Completed(r) \in JobRow /\ GaveUp(r) \in JobRow
           /\ Rejected(r) \in JobRow /\ FailedOnce(r) \in JobRow
           /\ Abandoned(r) \in JobRow /\ Rearmed(r) \in JobRow
           /\ Lapsed(r) \in JobRow
           /\ Claimable(r) => \A w \in Workers : Leased(r, w) \in JobRow
<1> USE JobLeaseAssumption DEF JobRow, Released, Terminal, Waiting
<1>1. Completed(r) \in JobRow /\ GaveUp(r) \in JobRow /\ Rejected(r) \in JobRow
  BY DEF Completed, GaveUp, Rejected
<1>2. FailedOnce(r) \in JobRow
  BY DEF FailedOnce
<1>3. Abandoned(r) \in JobRow
  <2>1. CASE r.attempts > 0
    BY <2>1 DEF Abandoned
  <2>2. CASE ~(r.attempts > 0)
    BY <2>2 DEF Abandoned
  <2> QED
    BY <2>1, <2>2
<1>4. Rearmed(r) \in JobRow
  BY DEF Rearmed
<1>5. Lapsed(r) \in JobRow
  BY DEF Lapsed
<1>6. Claimable(r) => \A w \in Workers : Leased(r, w) \in JobRow
  BY DEF Claimable, Leased
<1> QED
  BY <1>1, <1>2, <1>3, <1>4, <1>5, <1>6

\* A row that was never inserted stays as it is.
LEMMA AbsentRows ==
    /\ ~Claimable(NoJob) /\ ~Exhausted(NoJob) /\ ~NoJob.live
    /\ NoJob.state # "running"
    /\ Rearmed(NoJob) = NoJob
  BY DEF NoJob, Claimable, Exhausted, Rearmed, Terminal, Waiting

\* Whoever acts is the control worker.
LEMMA WorkerMoved ==
    ASSUME Typed, NEW w \in Workers, NEW r \in WorkerRows,
           worker' = [worker EXCEPT ![w] = r]
    PROVE  /\ worker' \in [Workers -> WorkerRows]
           /\ worker'[w] = r
           /\ \A u \in Workers : u = w
  BY OneControlWorker DEF Typed

LEMMA IdleIsRow ==
    /\ Idle \in WorkerRows
    /\ Idle.pc = "idle" /\ Idle.run = 0 /\ Idle.listed = {}
  BY CheckOutboxAssumption DEF Idle, WorkerRows, PCs, Says

\* An idle worker remembers nothing.
LEMMA IdleKnows ==
    ASSUME NEW w \in Workers, worker[w] = Idle, Len(runs) \in Nat
    PROVE  Knows(w)
<1>1. Read(w)
  BY IdleIsRow DEF Read, Publishing, Writing
<1>2. Done(w)
  BY IdleIsRow DEF Done, Writing
<1> QED
  BY <1>1, <1>2 DEF Knows

\* No check run is gone, and none is written.
LEMMA KnowsAfterFree ==
    ASSUME Typed, Typed', NEW w \in Workers, Free(w)
    PROVE  \A u \in Workers : Knows(u)'
<1>1. \A u \in Workers : worker'[u] = Idle
  BY WorkerMoved, IdleIsRow DEF Free
<1>2. Len(runs') \in Nat
  BY LenProperties DEF Typed
<1>3. ASSUME NEW u \in Workers
      PROVE  Knows(u)'
  <2>1. Read(u)'
    BY <1>1, IdleIsRow DEF Read, Publishing, Writing
  <2>2. Done(u)'
    BY <1>1, <1>2, IdleIsRow DEF Done, Writing
  <2> QED
    BY <2>1, <2>2 DEF Knows
<1> QED
  BY <1>3

LEMMA InitIInv == Init => IInv
<1> SUFFICES ASSUME Init
             PROVE  IInv
  OBVIOUS
<1> USE CheckOutboxAssumption
<1>1. runs \in Seq(Says)
  <2>1. PICK n \in 0..MaxRestored : runs \in [1..n -> Contents]
    BY DEF Init
  <2> QED
    BY <2>1 DEF Says
<1>2. Len(runs) \in Nat
  BY <1>1, LenProperties
<1>3. Typed
  BY <1>1, <1>2, IdleIsRow DEF Init, Typed, DesiredRows, Says
<1>4. Rows
  BY FreshRows DEF Init, Rows
<1>5. \A w \in Workers : Knows(w)
  BY <1>2, IdleKnows DEF Init
<1>6. Shown
  BY DEF Init, Shown, Published
<1> QED
  BY <1>3, <1>4, <1>5, <1>6 DEF IInv

-----------------------------------------------------------------------------
(* Kinds of steps.                                                         *)

LEMMA WorkerRow ==
    ASSUME IInv, NEW w \in Workers
    PROVE  /\ worker[w] \in WorkerRows /\ Read(w) /\ Done(w)
           /\ Len(runs) \in Nat /\ DOMAIN runs = 1..Len(runs)
  BY LenProperties DEF IInv, Typed, Knows

\* The worker goes on with what it remembers.
LEMMA GotoMoves ==
    ASSUME Typed, NEW w \in Workers, NEW pc \in PCs, Goto(w, pc)
    PROVE  /\ worker' \in [Workers -> WorkerRows]
           /\ \A u \in Workers : u = w
           /\ worker'[w].pc = pc /\ worker'[w].version = worker[w].version
           /\ worker'[w].content = worker[w].content
           /\ worker'[w].run = worker[w].run /\ worker'[w].listed = worker[w].listed
<1> DEFINE r == [worker[w] EXCEPT !.pc = pc]
<1>1. worker[w] \in WorkerRows
  BY DEF Typed
<1>2. /\ r \in WorkerRows /\ r.pc = pc /\ r.version = worker[w].version
      /\ r.content = worker[w].content /\ r.run = worker[w].run
      /\ r.listed = worker[w].listed
  BY <1>1 DEF WorkerRows
<1>3. worker' = [worker EXCEPT ![w] = r]
  BY DEF Goto, Typed
<1> HIDE DEF r
<1> QED
  BY <1>2, <1>3, WorkerMoved

\* A row that is wanted is updated.
LEMMA RowsAfter ==
    ASSUME Rows, NEW v \in Versions, v <= desired.version, NEW r \in JobRow,
           job' = [job EXCEPT ![v] = r], desired.version' = desired.version,
           desired.version \in Nat
    PROVE  Rows'
<1>1. job' \in [Versions -> JobRow]
  BY DEF Rows
<1>2. ASSUME NEW u \in Versions, u > desired.version
      PROVE  job'[u] = NoJob
  <2>1. u # v
    BY <1>2 DEF Versions
  <2> QED
    BY <1>2, <2>1 DEF Rows
<1> QED
  BY <1>1, <1>2 DEF Rows

\* A run ends or loses its way; what is published stays.
LEMMA RunEnds ==
    ASSUME IInv, NEW w \in Workers, Free(w) \/ Goto(w, "failed"),
           worker[w].pc # "idle", Rows', trouble' \in 0..MaxTrouble,
           UNCHANGED <<desired, runs>>
    PROVE  IInv'
<1>1. CASE Free(w)
  <2>1. worker' \in [Workers -> WorkerRows]
    BY <1>1, WorkerMoved, IdleIsRow DEF IInv, Free
  <2>2. Typed'
    BY <2>1 DEF IInv, Typed
  <2>3. \A u \in Workers : Knows(u)'
    BY <1>1, <2>2, KnowsAfterFree DEF IInv
  <2>4. Shown'
    BY DEF IInv, Shown, Published
  <2> QED
    BY <2>2, <2>3, <2>4 DEF IInv
<1>2. CASE Goto(w, "failed")
  <2>1. /\ worker' \in [Workers -> WorkerRows]
        /\ \A u \in Workers : u = w
        /\ worker'[w].pc = "failed" /\ worker'[w].version = worker[w].version
        /\ worker'[w].run = worker[w].run /\ worker'[w].listed = worker[w].listed
    BY <1>2, GotoMoves DEF IInv, PCs
  <2>2. Typed'
    BY <2>1 DEF IInv, Typed
  <2>3. Knows(w)'
    BY <2>1, WorkerRow DEF Knows, Read, Done, Publishing, Writing
  <2>4. Shown'
    BY DEF IInv, Shown, Published
  <2> QED
    BY <2>1, <2>2, <2>3, <2>4 DEF IInv
<1> QED
  BY <1>1, <1>2

\* A step on the jobs alone.
LEMMA JobsMove ==
    ASSUME IInv, Rows', UNCHANGED <<desired, runs, worker>>,
           trouble' \in 0..MaxTrouble
    PROVE  IInv'
<1>1. Typed'
  BY DEF IInv, Typed
<1>2. \A u \in Workers : Knows(u)'
  BY DEF IInv, Knows, Read, Done, Published
<1>3. Shown'
  BY DEF IInv, Shown, Published
<1> QED
  BY <1>1, <1>2, <1>3 DEF IInv

-----------------------------------------------------------------------------
(* The desired state and the jobs.                                         *)

LEMMA SetDesiredCheckStep ==
    ASSUME IInv, NEW c \in Contents, SetDesiredCheck(c)
    PROVE  IInv'
<1> USE CheckOutboxAssumption
<1>1. /\ desired \in DesiredRows /\ desired.published <= desired.version
      /\ desired.version < MaxVersion
  BY DEF IInv, Typed, SetDesiredCheck
<1>2. /\ desired' \in DesiredRows /\ desired.version' = desired.version + 1
      /\ desired.published' = desired.published /\ desired.run' = desired.run
  <2>1. desired.version + 1 \in 0..MaxVersion /\ c \in Says
    BY <1>1 DEF DesiredRows, Says
  <2>2. desired' = [desired EXCEPT !.version = desired.version + 1, !.content = c]
    BY <1>1 DEF SetDesiredCheck, DesiredRows
  <2> QED
    BY <1>1, <2>1, <2>2 DEF DesiredRows
<1>3. Typed'
  BY <1>1, <1>2 DEF IInv, Typed, SetDesiredCheck, DesiredRows
<1>4. ~Published'
  BY <1>1, <1>2 DEF Published, DesiredRows
<1>5. Rows'
  <2>1. desired.version + 1 \in Versions
    BY <1>1 DEF DesiredRows, Versions
  <2>2. job' \in [Versions -> JobRow]
    BY <2>1, FreshRows DEF IInv, Rows, SetDesiredCheck
  <2>3. ASSUME NEW v \in Versions, v > desired.version + 1
        PROVE  job'[v] = NoJob
    <3>1. v # desired.version + 1 /\ v > desired.version
      BY <1>1, <2>3 DEF DesiredRows, Versions
    <3> QED
      BY <3>1 DEF IInv, Rows, SetDesiredCheck
  <2> QED
    BY <1>2, <2>2, <2>3 DEF Rows
<1>6. ASSUME NEW w \in Workers
      PROVE  Knows(w)'
  <2>1. worker' = worker /\ runs' = runs
    BY DEF SetDesiredCheck
  <2>2. Done(w)'
    BY <2>1, WorkerRow DEF Done
  <2>3. worker[w] \in WorkerRows /\ Read(w)
    BY WorkerRow
  <2>4. worker[w].version <= desired.version
    BY <1>1, <2>3, IdleIsRow DEF Read, Idle, DesiredRows
  <2>5. worker[w].version < desired.version'
    BY <1>1, <1>2, <2>3, <2>4 DEF DesiredRows, WorkerRows
  <2>6. Read(w)'
    BY <1>1, <1>2, <1>4, <2>1, <2>3, <2>5 DEF Read, DesiredRows, WorkerRows
  <2> QED
    BY <2>2, <2>6 DEF Knows
<1> QED
  BY <1>3, <1>4, <1>5, <1>6 DEF IInv, Shown

LEMMA RepairStep ==
    ASSUME IInv, NEW w \in Workers, RepairDesiredChecks(w)
    PROVE  IInv'
<1>1. desired \in DesiredRows /\ trouble \in 0..MaxTrouble
  BY DEF IInv, Typed
<1>2. desired.version \in Versions
  BY <1>1, CheckOutboxAssumption DEF RepairDesiredChecks, DesiredRows, Versions
<1>3. Rearmed(job[desired.version]) \in JobRow
  BY <1>2, UpdatedRows DEF IInv, Rows
<1>4. job' = [job EXCEPT ![desired.version] = Rearmed(job[desired.version])]
  BY <1>2 DEF RepairDesiredChecks, IInv, Rows
<1>5. Rows'
  <2>1. Rows /\ desired.version \in Nat /\ desired.version' = desired.version
    BY <1>1 DEF IInv, RepairDesiredChecks, DesiredRows
  <2>2. desired.version <= desired.version
    BY <2>1
  <2> QED
    BY <1>2, <1>3, <1>4, <2>1, <2>2, RowsAfter
<1> QED
  BY <1>1, <1>5, JobsMove DEF RepairDesiredChecks

LEMMA LapseStep ==
    ASSUME IInv, NEW v \in Versions, Lapse(v)
    PROVE  IInv'
<1>1. desired \in DesiredRows /\ trouble \in 0..MaxTrouble
  BY DEF IInv, Typed
<1>2. v <= desired.version
  BY <1>1, AbsentRows DEF IInv, Rows, Lapse, DesiredRows, Versions
<1>3. Lapsed(job[v]) \in JobRow
  BY UpdatedRows DEF IInv, Rows
<1>4. job' = [job EXCEPT ![v] = Lapsed(job[v])]
  BY DEF Lapse, IInv, Rows
<1>5. Rows'
  <2>1. Rows /\ desired.version \in Nat /\ desired.version' = desired.version
    BY <1>1 DEF IInv, Lapse, DesiredRows
  <2> QED
    BY <1>2, <1>3, <1>4, <2>1, RowsAfter
<1>6. trouble' \in 0..MaxTrouble
  BY <1>1, CheckOutboxAssumption DEF Lapse, Trouble, NoTrouble
<1> QED
  BY <1>5, <1>6, JobsMove DEF Lapse

\* The sweep fails rows that were leased; the claim leases one that waits.
LEMMA ClaimStep ==
    ASSUME IInv, NEW w \in Workers, ClaimCheck(w)
    PROVE  IInv'
<1>1. desired \in DesiredRows /\ trouble \in 0..MaxTrouble /\ job \in [Versions -> JobRow]
  BY DEF IInv, Typed, Rows
<1>2. /\ \A v \in Versions : Swept(v) \in JobRow
      /\ \A v \in Versions : v > desired.version => Swept(v) = NoJob
  <2>1. \A v \in Versions : Swept(v) \in JobRow
    BY <1>1, UpdatedRows DEF Swept
  <2>2. \A v \in Versions : v > desired.version => Swept(v) = NoJob
    BY AbsentRows DEF IInv, Rows, Swept
  <2> QED
    BY <2>1, <2>2
<1>3. CASE /\ job' = [v \in Versions |-> Swept(v)]
           /\ UNCHANGED worker
  <2>1. Rows'
    BY <1>2, <1>3 DEF ClaimCheck, Rows
  <2> QED
    BY <1>1, <1>3, <2>1, JobsMove DEF ClaimCheck
<1>4. ASSUME NEW v \in Versions, Claimable(job[v]),
             job' = [u \in Versions |->
                       IF u = v THEN Leased(job[v], w) ELSE Swept(u)],
             worker' = [worker EXCEPT
                          ![w] = [Idle EXCEPT !.pc = "read", !.version = v,
                                              !.fence = job[v].fence + 1]]
      PROVE  IInv'
  <2> DEFINE r == [Idle EXCEPT !.pc = "read", !.version = v,
                               !.fence = job[v].fence + 1]
  <2>1. job[v] \in JobRow /\ Leased(job[v], w) \in JobRow
    BY <1>1, <1>4, UpdatedRows
  <2>2. v <= desired.version
    BY <1>1, <1>4, AbsentRows DEF IInv, Rows, DesiredRows, Versions
  <2>3. Rows'
    <3>1. job' \in [Versions -> JobRow]
      BY <1>2, <1>4, <2>1
    <3>2. ASSUME NEW u \in Versions, u > desired.version
          PROVE  job'[u] = NoJob
      <4>1. u # v
        BY <1>1, <2>2, <3>2 DEF DesiredRows, Versions
      <4> QED
        BY <1>2, <1>4, <3>2, <4>1
    <3> QED
      BY <3>1, <3>2 DEF Rows, ClaimCheck
  <2>4. /\ r \in WorkerRows /\ r.pc = "read" /\ r.version = v
        /\ r.run = 0 /\ r.listed = {}
    <3>1. v \in 0..MaxVersion /\ job[v].fence + 1 \in Nat
      BY <2>1 DEF Versions, JobRow
    <3> QED
      BY <3>1, IdleIsRow DEF WorkerRows, PCs
  <2>5. worker' = [worker EXCEPT ![w] = r]
    BY <1>4
  <2> HIDE DEF r
  <2>6. worker' \in [Workers -> WorkerRows] /\ worker'[w] = r /\ \A u \in Workers : u = w
    BY <2>4, <2>5, WorkerMoved DEF IInv
  <2>7. Typed'
    BY <2>6 DEF IInv, Typed, ClaimCheck
  <2>8. Read(w)' /\ Done(w)'
    <3>1. Len(runs) \in Nat /\ runs' = runs /\ desired' = desired
      BY WorkerRow DEF ClaimCheck
    <3> QED
      BY <2>2, <2>4, <2>6, <3>1 DEF Read, Done, Publishing, Writing
  <2>9. Shown'
    BY DEF IInv, Shown, Published, ClaimCheck
  <2> QED
    BY <2>3, <2>6, <2>7, <2>8, <2>9 DEF IInv, Knows
<1> QED
  BY <1>3, <1>4 DEF ClaimCheck

-----------------------------------------------------------------------------
(* A run at the provider.                                                  *)

LEMMA ReadDesiredStep ==
    ASSUME IInv, NEW w \in Workers, ReadDesired(w)
    PROVE  IInv'
<1> DEFINE pc == IF Outdated(w) THEN "supersede" ELSE "validate"
           r  == [worker[w] EXCEPT !.pc = pc, !.content = desired.content,
                                   !.run = desired.run]
<1>1. /\ worker[w] \in WorkerRows /\ Read(w) /\ Done(w) /\ worker[w].pc = "read"
      /\ desired \in DesiredRows /\ desired.run <= Len(runs) /\ Len(runs) \in Nat
  BY WorkerRow DEF ReadDesired, IInv, Typed
<1>2. pc \in PCs
  BY DEF PCs, Publishing
<1>3. worker' = [worker EXCEPT ![w] = r]
  BY DEF ReadDesired, IInv, Typed
<1>4. /\ Outdated(w) => pc = "supersede"
      /\ ~Outdated(w) => pc = "validate"
  OBVIOUS
<1> HIDE DEF pc
<1>5. /\ r \in WorkerRows /\ r.pc = pc /\ r.version = worker[w].version
      /\ r.content = desired.content /\ r.run = desired.run
      /\ r.listed = worker[w].listed
  BY <1>1, <1>2 DEF WorkerRows, DesiredRows
<1> HIDE DEF r
<1>6. worker' \in [Workers -> WorkerRows] /\ worker'[w] = r /\ \A u \in Workers : u = w
  BY <1>3, <1>5, WorkerMoved DEF IInv
<1>7. UNCHANGED <<desired, runs>>
  BY DEF ReadDesired
<1>8. Typed' /\ Rows' /\ Shown'
  BY <1>6 DEF ReadDesired, NoTrouble, IInv, Typed, Rows, Shown, Published
<1>9. Done(w)'
  BY <1>1, <1>4, <1>5, <1>6, <1>7 DEF Done, Writing
<1>10. r.version <= desired.version /\ r.version \in Versions
  BY <1>1, <1>5 DEF Read
<1>11. Read(w)'
  <2>1. CASE Outdated(w)
    BY <1>4, <1>5, <1>6, <1>7, <1>10, <2>1 DEF Read, Outdated, Publishing, Writing
  <2>2. CASE ~Outdated(w)
    <3>1. r.version = desired.version
      BY <1>1, <1>5, <1>10, <2>2 DEF Outdated, WorkerRows, DesiredRows
    <3> QED
      BY <1>4, <1>5, <1>6, <1>7, <1>10, <2>2, <3>1 DEF Read
  <2> QED
    BY <2>1, <2>2
<1> QED
  BY <1>6, <1>8, <1>9, <1>11 DEF IInv, Knows

LEMMA ValidateClaimStep ==
    ASSUME IInv, NEW w \in Workers, ValidateClaim(w)
    PROVE  IInv'
<1>1. trouble \in 0..MaxTrouble /\ Rows'
  BY DEF IInv, Typed, Rows, ValidateClaim
<1>2. CASE Goto(w, "failed")
  BY <1>1, <1>2, RunEnds DEF ValidateClaim
<1>3. CASE Goto(w, "list")
  <2>1. /\ worker' \in [Workers -> WorkerRows]
        /\ \A u \in Workers : u = w
        /\ worker'[w].pc = "list" /\ worker'[w].version = worker[w].version
        /\ worker'[w].content = worker[w].content
        /\ worker'[w].run = worker[w].run /\ worker'[w].listed = worker[w].listed
    BY <1>3, GotoMoves DEF IInv, PCs, Publishing
  <2>2. Typed' /\ Shown'
    BY <2>1 DEF ValidateClaim, IInv, Typed, Shown, Published
  <2>3. /\ Read(w) /\ Done(w) /\ worker[w].pc = "validate"
        /\ UNCHANGED <<desired, runs>>
    BY WorkerRow DEF ValidateClaim
  <2>4. Read(w)'
    BY <2>1, <2>3 DEF Read, Published, Publishing
  <2>5. Done(w)'
    BY <2>1, <2>3 DEF Done, Writing
  <2> QED
    BY <1>1, <2>1, <2>2, <2>4, <2>5 DEF IInv, Knows
<1> QED
  BY <1>2, <1>3 DEF ValidateClaim

\* The run to write exists, or is a new one; the stored one if it exists.
LEMMA CanonicalRun ==
    ASSUME IInv, NEW w \in Workers
    PROVE  /\ Canonical(w) \in Nat /\ Canonical(w) <= Len(runs)
           /\ worker[w].run \in DOMAIN runs => Canonical(w) = worker[w].run
<1>1. worker[w] \in WorkerRows /\ Len(runs) \in Nat /\ DOMAIN runs = 1..Len(runs)
  BY WorkerRow
<1>2. CASE worker[w].run \in DOMAIN runs
  BY <1>1, <1>2 DEF Canonical
<1>3. CASE worker[w].run \notin DOMAIN runs /\ runs = <<>>
  BY <1>1, <1>3 DEF Canonical
<1>4. CASE worker[w].run \notin DOMAIN runs /\ runs # <<>>
  <2>1. DOMAIN runs # {} /\ DOMAIN runs \subseteq Nat
    <3>1. runs \in Seq(Says)
      BY DEF IInv, Typed
    <3>2. Len(runs) # 0
      BY <1>4, <3>1
    <3>3. 1 \in 1..Len(runs) /\ 1..Len(runs) \subseteq Nat
      BY <1>1, <3>2
    <3> QED
      BY <1>1, <3>3, Zenon
  <2>2. Min(DOMAIN runs) \in DOMAIN runs
    BY <2>1, MinOfNumbers
  <2> QED
    BY <1>1, <1>4, <2>2 DEF Canonical
<1> QED
  BY <1>2, <1>3, <1>4

LEMMA ListRunsStep ==
    ASSUME IInv, NEW w \in Workers, ListRuns(w)
    PROVE  IInv'
<1> DEFINE r == [worker[w] EXCEPT !.pc = "write", !.run = Canonical(w),
                                  !.listed = DOMAIN runs]
<1>1. /\ worker[w] \in WorkerRows /\ Read(w) /\ worker[w].pc = "list"
      /\ Len(runs) \in Nat /\ DOMAIN runs = 1..Len(runs)
      /\ UNCHANGED <<desired, runs>>
  BY WorkerRow DEF ListRuns
<1>2. worker' = [worker EXCEPT ![w] = r]
  BY DEF ListRuns, IInv, Typed
<1>3. /\ r \in WorkerRows /\ r.pc = "write" /\ r.version = worker[w].version
      /\ r.content = worker[w].content /\ r.run = Canonical(w)
      /\ r.listed = DOMAIN runs
  <2>1. Canonical(w) \in Nat /\ DOMAIN runs \in SUBSET Nat /\ "write" \in PCs
    BY <1>1, CanonicalRun DEF PCs, Publishing
  <2> QED
    BY <1>1, <2>1 DEF WorkerRows
<1> HIDE DEF r
<1>4. worker' \in [Workers -> WorkerRows] /\ worker'[w] = r /\ \A u \in Workers : u = w
  BY <1>2, <1>3, WorkerMoved DEF IInv
<1>5. Typed' /\ Rows' /\ Shown'
  BY <1>4 DEF ListRuns, IInv, Typed, Rows, Shown, Published
<1>6. Done(w)'
  BY <1>1, <1>3, <1>4, CanonicalRun DEF Done, Writing
<1>7. Read(w)'
  <2>1. Published => desired.run \in DOMAIN runs
    BY DEF IInv, Shown
  <2>2. Published => /\ worker[w].version = desired.version
                     /\ worker[w].run = desired.run
    BY <1>1 DEF Read, Publishing
  <2>3. Published => r.version = desired.version /\ r.run = desired.run
    BY <1>3, <2>1, <2>2, CanonicalRun
  <2>4. Published' = Published
    BY <1>1 DEF Published
  <2> QED
    BY <1>1, <1>3, <1>4, <2>3, <2>4 DEF Read, Publishing
<1> QED
  BY <1>4, <1>5, <1>6, <1>7 DEF IInv, Knows

\* A run says what the worker read.  While the latest state counts as published,
\* that is the stored run, which says it already.
LEMMA WriteRunStep ==
    ASSUME IInv, NEW w \in Workers, WriteRun(w)
    PROVE  IInv'
<1>1. /\ worker[w] \in WorkerRows /\ Read(w) /\ Done(w) /\ worker[w].pc = "write"
      /\ runs \in Seq(Says) /\ Len(runs) \in Nat /\ DOMAIN runs = 1..Len(runs)
      /\ UNCHANGED <<desired, job, trouble>>
      /\ desired \in DesiredRows /\ desired.run <= Len(runs)
  BY WorkerRow DEF WriteRun, IInv, Typed
<1>2. /\ worker[w].run \in Nat /\ worker[w].run <= Len(runs)
      /\ worker[w].content \in Says /\ worker[w].listed = 1..Len(runs)
  BY <1>1 DEF Done, WorkerRows
<1>3. Published => /\ worker[w].run = desired.run /\ worker[w].content = desired.content
                   /\ desired.run \in DOMAIN runs
  BY <1>1 DEF Read, IInv, Shown, Publishing
<1>4. CASE worker[w].run = 0
  <2> DEFINE n == Len(runs) + 1
             r == [worker[w] EXCEPT !.pc = "duplicates", !.run = n]
  <2>1. n \in Nat /\ runs' = Append(runs, worker[w].content)
    BY <1>1, <1>4 DEF WriteRun
  <2>2. /\ runs' \in Seq(Says) /\ Len(runs') = n
        /\ \A i \in 1..Len(runs) : runs'[i] = runs[i]
        /\ runs'[n] = worker[w].content
    BY <1>1, <1>2, <2>1, AppendProperties
  <2>3. DOMAIN runs' = 1..n
    BY <2>2, LenProperties
  <2>4. worker' = [worker EXCEPT ![w] = r]
    BY <1>4 DEF WriteRun, IInv, Typed
  <2> HIDE DEF n
  <2>5. /\ r \in WorkerRows /\ r.pc = "duplicates" /\ r.version = worker[w].version
        /\ r.content = worker[w].content /\ r.run = n /\ r.listed = 1..Len(runs)
    BY <1>1, <1>2, <2>1 DEF WorkerRows, PCs, Publishing, Writing
  <2> HIDE DEF r
  <2>6. worker' \in [Workers -> WorkerRows] /\ worker'[w] = r /\ \A u \in Workers : u = w
    BY <2>4, <2>5, WorkerMoved DEF IInv
  <2>7. ~Published
    BY <1>1, <1>3, <1>4
  <2>8. ~Published' /\ Rows'
    BY <1>1, <2>7 DEF Published, IInv, Rows
  <2>9. n = Len(runs) + 1
    BY DEF n
  <2>10. Typed'
    BY <1>1, <2>2, <2>6, <2>9 DEF IInv, Typed, DesiredRows
  <2>11. Read(w)'
    BY <1>1, <2>5, <2>6, <2>8 DEF Read, Publishing, Writing
  <2>12. Done(w)'
    <3>1. \A x \in DOMAIN runs' \ {n} : x \in 1..Len(runs)
      BY <1>1, <2>3, <2>9
    <3>2. n <= Len(runs') /\ n \in DOMAIN runs' /\ 1..Len(runs) \subseteq DOMAIN runs'
      BY <1>1, <2>1, <2>2, <2>3, <2>9
    <3> QED
      BY <2>2, <2>5, <2>6, <3>1, <3>2 DEF Done, Writing
  <2> QED
    BY <2>6, <2>8, <2>10, <2>11, <2>12 DEF IInv, Knows, Shown
<1>5. CASE worker[w].run # 0
  <2> DEFINE k == worker[w].run
             c == worker[w].content
  <2>1. k \in 1..Len(runs)
    BY <1>1, <1>2, <1>5
  <2>2. runs' = [runs EXCEPT ![k] = c] /\ Goto(w, "duplicates")
    BY <1>5 DEF WriteRun
  <2>3. /\ runs' \in Seq(Says) /\ Len(runs') = Len(runs)
        /\ \A i \in 1..Len(runs) : runs'[i] = IF i = k THEN c ELSE runs[i]
    BY <1>1, <1>2, <2>1, <2>2, ExceptSeq
  <2>4. DOMAIN runs' = 1..Len(runs)
    BY <2>3, LenProperties
  <2>5. /\ worker' \in [Workers -> WorkerRows]
        /\ \A u \in Workers : u = w
        /\ worker'[w].pc = "duplicates" /\ worker'[w].version = worker[w].version
        /\ worker'[w].content = c
        /\ worker'[w].run = k /\ worker'[w].listed = worker[w].listed
    BY <2>2, GotoMoves DEF IInv, PCs, Publishing, Writing
  <2>6. Typed' /\ Rows'
    BY <1>1, <2>3, <2>5 DEF IInv, Typed, Rows
  <2>7. Read(w)'
    BY <1>1, <2>5 DEF Read, Published, Publishing, Writing
  <2>8. Done(w)'
    BY <1>1, <1>2, <2>1, <2>3, <2>4, <2>5 DEF Done, Writing
  <2>9. Shown'
    <3> SUFFICES ASSUME Published
                 PROVE  /\ desired.run \in DOMAIN runs'
                        /\ runs'[desired.run] = desired.content
                        /\ \A x \in DOMAIN runs' \ {desired.run} : runs'[x] = Superseded
      BY <1>1 DEF Shown, Published
    <3>1. \A x \in DOMAIN runs \ {desired.run} : runs[x] = Superseded
      BY DEF IInv, Shown
    <3> QED
      BY <1>1, <1>3, <2>3, <2>4, <3>1
  <2> QED
    BY <2>5, <2>6, <2>7, <2>8, <2>9 DEF IInv, Knows
<1> QED
  BY <1>4, <1>5

\* A duplicate of the listing says nothing any more; the last PATCH is done when
\* none is left.
LEMMA SupersedeDuplicatesStep ==
    ASSUME IInv, NEW w \in Workers, SupersedeDuplicates(w)
    PROVE  IInv'
<1> DEFINE left == worker[w].listed \ {worker[w].run}
<1>1. /\ worker[w] \in WorkerRows /\ Read(w) /\ Done(w) /\ worker[w].pc = "duplicates"
      /\ runs \in Seq(Says) /\ Len(runs) \in Nat /\ DOMAIN runs = 1..Len(runs)
      /\ UNCHANGED <<desired, job, trouble>>
  BY WorkerRow DEF SupersedeDuplicates, IInv, Typed
<1>2. left \in SUBSET Nat /\ left \subseteq DOMAIN runs
  BY <1>1 DEF Done, WorkerRows
<1>3. CASE left = {}
  <2>1. Goto(w, "commit") /\ UNCHANGED runs
    BY <1>3 DEF SupersedeDuplicates
  <2>2. /\ worker' \in [Workers -> WorkerRows]
        /\ \A u \in Workers : u = w
        /\ worker'[w].pc = "commit" /\ worker'[w].version = worker[w].version
        /\ worker'[w].content = worker[w].content
        /\ worker'[w].run = worker[w].run /\ worker'[w].listed = worker[w].listed
    BY <2>1, GotoMoves DEF IInv, PCs, Publishing, Writing
  <2>3. Typed' /\ Rows' /\ Shown'
    BY <1>1, <2>1, <2>2 DEF IInv, Typed, Rows, Shown, Published
  <2>4. Read(w)'
    BY <1>1, <2>2 DEF Read, Published, Publishing, Writing
  <2>5. Done(w)'
    BY <1>1, <1>3, <2>1, <2>2 DEF Done, Writing
  <2> QED
    BY <2>2, <2>3, <2>4, <2>5 DEF IInv, Knows
<1>4. CASE left # {}
  <2> DEFINE m == Min(left)
             r == [worker[w] EXCEPT !.listed = worker[w].listed \ {m}]
  <2>1. m \in left
    <3> HIDE DEF left
    <3> QED
      BY <1>2, <1>4, MinOfNumbers
  <2>2. runs' = [runs EXCEPT ![m] = Superseded] /\ worker' = [worker EXCEPT ![w] = r]
    BY <1>4 DEF SupersedeDuplicates, IInv, Typed
  <2> HIDE DEF m
  <2>3. m \in 1..Len(runs) /\ m # worker[w].run
    BY <1>1, <1>2, <2>1
  <2>4. /\ runs' \in Seq(Says) /\ Len(runs') = Len(runs)
        /\ \A i \in 1..Len(runs) : runs'[i] = IF i = m THEN Superseded ELSE runs[i]
    BY <1>1, <2>2, <2>3, ExceptSeq DEF Says
  <2>5. DOMAIN runs' = 1..Len(runs)
    BY <2>4, LenProperties
  <2>6. /\ r \in WorkerRows /\ r.pc = "duplicates" /\ r.version = worker[w].version
        /\ r.content = worker[w].content /\ r.run = worker[w].run
        /\ r.listed = worker[w].listed \ {m}
    BY <1>1 DEF WorkerRows
  <2> HIDE DEF r
  <2>7. worker' \in [Workers -> WorkerRows] /\ worker'[w] = r /\ \A u \in Workers : u = w
    BY <2>2, <2>6, WorkerMoved DEF IInv
  <2>8. Typed' /\ Rows'
    BY <1>1, <2>4, <2>7 DEF IInv, Typed, Rows
  <2>9. Read(w)'
    BY <1>1, <2>6, <2>7 DEF Read, Published, Publishing, Writing
  <2>10. Done(w)'
    BY <1>1, <2>3, <2>4, <2>5, <2>6, <2>7 DEF Done, Writing
  <2>11. Shown'
    <3> SUFFICES ASSUME Published
                 PROVE  /\ desired.run \in DOMAIN runs'
                        /\ runs'[desired.run] = desired.content
                        /\ \A x \in DOMAIN runs' \ {desired.run} : runs'[x] = Superseded
      BY <1>1 DEF Shown, Published
    <3>1. /\ desired.run \in DOMAIN runs /\ runs[desired.run] = desired.content
          /\ \A x \in DOMAIN runs \ {desired.run} : runs[x] = Superseded
      BY DEF IInv, Shown
    <3>2. worker[w].run = desired.run
      BY <1>1 DEF Read, Publishing, Writing
    <3> QED
      BY <1>1, <2>3, <2>4, <2>5, <3>1, <3>2
  <2> QED
    BY <2>7, <2>8, <2>9, <2>10, <2>11 DEF IInv, Knows
<1> QED
  BY <1>3, <1>4

-----------------------------------------------------------------------------
(* The end of a publication.                                               *)

\* The published version of a publication that came too late is an older one.
LEMMA DirtyIsUnpublished ==
    ASSUME desired \in DesiredRows, desired.published <= desired.version,
           desired.version > 0, Dirty
    PROVE  /\ desired' \in DesiredRows /\ desired.version' = desired.version
           /\ desired.run' = desired.run
           /\ desired.published' <= desired.version' /\ ~Published'
<1> DEFINE p == Min({desired.published, desired.version - 1})
<1>1. /\ desired.published \in 0..MaxVersion /\ desired.version \in 0..MaxVersion
      /\ MaxVersion \in Nat
  BY CheckOutboxAssumption DEF DesiredRows
<1>2. {desired.published, desired.version - 1} \in SUBSET Nat
  BY <1>1
<1>3. /\ p \in {desired.published, desired.version - 1}
      /\ \A y \in {desired.published, desired.version - 1} : p <= y
  <2>1. {desired.published, desired.version - 1} # {}
    OBVIOUS
  <2> HIDE DEF p
  <2>2. p = Min({desired.published, desired.version - 1})
    BY DEF p
  <2> QED
    BY <1>2, <2>1, <2>2, MinOfNumbers
<1>4. desired' = [desired EXCEPT !.published = p]
  BY DEF Dirty, DesiredRows
<1> HIDE DEF p
<1>5. p \in 0..MaxVersion /\ p <= desired.version - 1
  BY <1>1, <1>3
<1>6. /\ desired' \in DesiredRows /\ desired.version' = desired.version
      /\ desired.run' = desired.run /\ desired.published' = p
  BY <1>4, <1>5 DEF DesiredRows
<1> QED
  BY <1>1, <1>5, <1>6 DEF Published

\* The job of the publication is done, and that of the latest version waits.
LEMMA CompleteAndRearmRows ==
    ASSUME IInv, NEW w \in Workers, worker[w].pc # "idle",
           worker[w].version < desired.version, CompleteAndRearm(w),
           desired.version' = desired.version
    PROVE  Rows'
<1> DEFINE v == worker[w].version
           n == desired.version
<1>1. /\ desired.version \in Nat /\ v \in Versions /\ n \in Versions
      /\ job \in [Versions -> JobRow]
  <2>1. desired \in DesiredRows /\ worker[w] \in WorkerRows /\ v \in Versions
    BY WorkerRow DEF IInv, Typed, Read
  <2> QED
    BY <2>1, CheckOutboxAssumption DEF DesiredRows, WorkerRows, Versions, IInv, Rows
<1>2. v # n
  BY <1>1 DEF Versions
<1>3. job' = [[job EXCEPT ![n] = Rearmed(job[n])] EXCEPT ![v] = Completed(job[v])]
  BY <1>1, <1>2 DEF CompleteAndRearm
<1>4. Rearmed(job[n]) \in JobRow /\ Completed(job[v]) \in JobRow
  BY <1>1, UpdatedRows
<1>5. job' \in [Versions -> JobRow]
  BY <1>1, <1>3, <1>4
<1>6. ASSUME NEW u \in Versions, u > desired.version
      PROVE  job'[u] = NoJob
  <2>1. u # n /\ u # v
    BY <1>1, <1>6 DEF Versions
  <2> QED
    BY <1>1, <1>3, <1>6, <2>1 DEF IInv, Rows
<1> QED
  BY <1>5, <1>6 DEF Rows

\* A publication that came too late leaves the latest state unpublished.
LEMMA TooLate ==
    ASSUME IInv, NEW w \in Workers, worker[w].pc # "idle",
           worker[w].version < desired.version,
           Dirty, CompleteAndRearm(w), Free(w), UNCHANGED <<runs, trouble>>
    PROVE  IInv'
<1>1. /\ desired \in DesiredRows /\ desired.published <= desired.version
      /\ worker[w] \in WorkerRows
  BY WorkerRow DEF IInv, Typed
<1>2. desired.version > 0
  BY <1>1 DEF DesiredRows, WorkerRows
<1>3. /\ desired' \in DesiredRows /\ desired.version' = desired.version
      /\ desired.run' = desired.run
      /\ desired.published' <= desired.version' /\ ~Published'
  BY <1>1, <1>2, DirtyIsUnpublished
<1>4. Rows'
  BY <1>3, CompleteAndRearmRows
<1>5. worker' \in [Workers -> WorkerRows]
  BY WorkerMoved, IdleIsRow DEF IInv, Free
<1>6. Typed'
  BY <1>3, <1>5 DEF IInv, Typed
<1>7. \A u \in Workers : Knows(u)'
  BY <1>6, KnowsAfterFree DEF IInv
<1>8. Shown'
  BY <1>3 DEF Shown
<1> QED
  BY <1>4, <1>6, <1>7, <1>8 DEF IInv

LEMMA SupersedeCheckClaimStep ==
    ASSUME IInv, NEW w \in Workers, SupersedeCheckClaim(w)
    PROVE  IInv'
<1>1. worker[w].version < desired.version /\ worker[w].pc # "idle"
  BY WorkerRow DEF SupersedeCheckClaim, Read
<1>2. CASE ActiveJob(w)
  BY <1>1, <1>2, TooLate DEF SupersedeCheckClaim
<1>3. CASE ~ActiveJob(w)
  <2>1. trouble' \in 0..MaxTrouble /\ Rows'
    BY <1>3 DEF SupersedeCheckClaim, IInv, Typed, Rows
  <2> QED
    BY <1>1, <1>3, <2>1, RunEnds DEF SupersedeCheckClaim
<1> QED
  BY <1>2, <1>3

\* A version is published by a run that wrote it, kept the stored check run if
\* there was one, and superseded every other.
LEMMA CommitStep ==
    ASSUME IInv, NEW w \in Workers, CommitCheckPublication(w)
    PROVE  IInv'
<1> DEFINE v == worker[w].version
<1>1. /\ worker[w] \in WorkerRows /\ Read(w) /\ Done(w) /\ worker[w].pc = "commit"
      /\ desired \in DesiredRows /\ Len(runs) \in Nat
      /\ UNCHANGED <<runs, trouble>>
  BY WorkerRow DEF CommitCheckPublication, IInv, Typed
<1>2. CASE ActiveJob(w) /\ Outdated(w)
  <2>1. Dirty /\ CompleteAndRearm(w) /\ Free(w)
    BY <1>2 DEF CommitCheckPublication
  <2> QED
    BY <1>1, <1>2, <2>1, TooLate DEF Outdated
<1>3. CASE ~ActiveJob(w)
  <2>1. Goto(w, "failed") /\ UNCHANGED <<desired, job>>
    BY <1>3 DEF CommitCheckPublication
  <2>2. trouble' \in 0..MaxTrouble /\ Rows'
    BY <1>1, <2>1 DEF IInv, Typed, Rows
  <2> QED
    BY <1>1, <2>1, <2>2, RunEnds
<1>4. CASE ActiveJob(w) /\ ~Outdated(w)
  <2>1. /\ desired' = [desired EXCEPT !.published = v, !.run = worker[w].run]
        /\ job' = [job EXCEPT ![v] = Completed(job[v])]
        /\ Free(w)
    BY <1>4 DEF CommitCheckPublication, IInv, Rows
  <2>2. v \in Versions /\ v = desired.version /\ v \in 0..MaxVersion
    BY <1>1, <1>4 DEF Read, Outdated, WorkerRows, DesiredRows
  <2>3. worker[w].run \in Nat /\ worker[w].run <= Len(runs)
    BY <1>1 DEF Done, WorkerRows
  <2>4. /\ desired' \in DesiredRows /\ desired.version' = desired.version
        /\ desired.published' = v /\ desired.run' = worker[w].run
        /\ desired.content' = desired.content
    BY <1>1, <2>1, <2>2, <2>3 DEF DesiredRows
  <2>5. Rows'
    <3>1. Rows /\ desired.version \in Nat /\ v <= desired.version
      BY <1>1, <2>2 DEF IInv, DesiredRows
    <3>2. Completed(job[v]) \in JobRow
      BY <2>2, <3>1, UpdatedRows DEF Rows
    <3> QED
      BY <2>1, <2>2, <2>4, <3>1, <3>2, RowsAfter
  <2>6. worker' \in [Workers -> WorkerRows]
    BY <2>1, WorkerMoved, IdleIsRow DEF IInv, Free
  <2>7. Typed'
    <3>1. desired.published' <= desired.version'
      BY <2>2, <2>4 DEF Versions
    <3> QED
      BY <1>1, <2>3, <2>4, <2>6, <3>1 DEF IInv, Typed
  <2>8. \A u \in Workers : Knows(u)'
    BY <2>1, <2>7, KnowsAfterFree DEF IInv
  <2>9. Shown'
    <3>1. worker[w].content = desired.content
      BY <1>1, <2>2 DEF Read, Publishing, Writing
    <3>2. /\ worker[w].run \in DOMAIN runs /\ runs[worker[w].run] = worker[w].content
          /\ \A x \in DOMAIN runs \ {worker[w].run} : runs[x] = Superseded
      BY <1>1 DEF Done, Writing
    <3> QED
      BY <1>1, <2>4, <3>1, <3>2 DEF Shown
  <2> QED
    BY <2>5, <2>7, <2>8, <2>9 DEF IInv
<1> QED
  BY <1>2, <1>3, <1>4

\* The run fails, is refused or handed back, or dies with its process.
LEMMA EndingsStep ==
    ASSUME IInv, NEW w \in Workers,
           Fault(w) \/ HandleFailure(w) \/ RejectPayload(w) \/ Abandon(w) \/ Crash(w)
    PROVE  IInv'
<1> DEFINE v == worker[w].version
<1>1. /\ desired \in DesiredRows /\ trouble \in 0..MaxTrouble
      /\ job \in [Versions -> JobRow] /\ MaxTrouble \in Nat
  BY CheckOutboxAssumption DEF IInv, Typed, Rows
<1>2. worker[w].pc # "idle"
  BY DEF Fault, HandleFailure, RejectPayload, Abandon, Crash
<1>3. /\ Free(w) \/ Goto(w, "failed")
      /\ UNCHANGED <<desired, runs>>
      /\ trouble' = trouble \/ Trouble
  BY DEF Fault, HandleFailure, RejectPayload, Abandon, Crash
<1>4. trouble' \in 0..MaxTrouble
  BY <1>1, <1>3 DEF Trouble
<1>5. v \in Versions /\ v <= desired.version
  BY <1>2, WorkerRow DEF Read
<1>6. \/ job' = job
      \/ job' = [job EXCEPT ![v] = FailedOnce(job[v])]
      \/ job' = [job EXCEPT ![v] = Rejected(job[v])]
      \/ job' = [job EXCEPT ![v] = Abandoned(job[v])]
  BY <1>1, <1>5 DEF Fault, HandleFailure, RejectPayload, Abandon, Crash
<1>7. Rows'
  <2>1. /\ FailedOnce(job[v]) \in JobRow /\ Rejected(job[v]) \in JobRow
        /\ Abandoned(job[v]) \in JobRow
    BY <1>1, <1>5, UpdatedRows
  <2>2. Rows /\ desired.version \in Nat /\ desired.version' = desired.version
    BY <1>1, <1>3 DEF IInv, DesiredRows
  <2>3. CASE job' = job
    BY <2>2, <2>3 DEF Rows
  <2>4. CASE job' = [job EXCEPT ![v] = FailedOnce(job[v])]
    BY <1>5, <2>1, <2>2, <2>4, RowsAfter
  <2>5. CASE job' = [job EXCEPT ![v] = Rejected(job[v])]
    BY <1>5, <2>1, <2>2, <2>5, RowsAfter
  <2>6. CASE job' = [job EXCEPT ![v] = Abandoned(job[v])]
    BY <1>5, <2>1, <2>2, <2>6, RowsAfter
  <2> QED
    BY <1>6, <2>3, <2>4, <2>5, <2>6
<1> QED
  BY <1>2, <1>3, <1>4, <1>7, RunEnds

-----------------------------------------------------------------------------
(* The theorems.                                                           *)

LEMMA NextIInv == IInv /\ [Next]_vars => IInv'
<1> SUFFICES ASSUME IInv, [Next]_vars
             PROVE  IInv'
  OBVIOUS
<1>1. CASE UNCHANGED vars
  <2>1. Rows' /\ trouble' \in 0..MaxTrouble
    BY <1>1 DEF vars, IInv, Typed, Rows
  <2> QED
    BY <1>1, <2>1, JobsMove DEF vars
<1>2. ASSUME NEW c \in Contents, SetDesiredCheck(c)
      PROVE  IInv'
  BY <1>2, SetDesiredCheckStep
<1>3. ASSUME NEW w \in Workers, RunStep(w)
      PROVE  IInv'
  BY <1>3, ReadDesiredStep, ValidateClaimStep, ListRunsStep, WriteRunStep,
     SupersedeDuplicatesStep, SupersedeCheckClaimStep, CommitStep, EndingsStep
     DEF RunStep
<1>4. ASSUME NEW w \in Workers,
             \/ RepairDesiredChecks(w) \/ ClaimCheck(w) \/ Fault(w)
             \/ RejectPayload(w) \/ Abandon(w) \/ Crash(w)
      PROVE  IInv'
  BY <1>4, RepairStep, ClaimStep, EndingsStep
<1>5. ASSUME NEW v \in Versions, Lapse(v)
      PROVE  IInv'
  BY <1>5, LapseStep
<1> QED
  BY <1>1, <1>2, <1>3, <1>4, <1>5 DEF Next

\* What a run read and did still fits what is desired and what the provider
\* shows, in every execution.
THEOREM Invariance == Spec => []IInv
  BY InitIInv, NextIInv, PTL DEF Spec

\* The desired state, the jobs, the runs and the worker stay well formed; a
\* worker only names check runs that exist.
THEOREM TypeCorrect == Spec => []TypeOK
<1>1. IInv => TypeOK
  <2> SUFFICES ASSUME IInv
               PROVE  TypeOK
    OBVIOUS
  <2>1. Len(runs) \in Nat /\ DOMAIN runs = 1..Len(runs) /\ runs \in [1..Len(runs) -> Says]
    BY LenProperties DEF IInv, Typed
  <2>2. desired \in [version : 0..MaxVersion, content : Contents \union {Superseded},
                     published : 0..MaxVersion, run : 0..Len(runs)]
    BY <2>1 DEF IInv, Typed, DesiredRows, Says
  <2>3. worker \in [Workers ->
            [pc : {"idle", "read", "supersede", "validate", "list", "write",
                   "duplicates", "commit", "failed"},
             version : 0..MaxVersion, fence : Nat,
             content : Contents \union {Superseded},
             run : 0..Len(runs), listed : SUBSET DOMAIN runs]]
    <3> SUFFICES ASSUME NEW w \in Workers
                 PROVE  worker[w] \in
            [pc : {"idle", "read", "supersede", "validate", "list", "write",
                   "duplicates", "commit", "failed"},
             version : 0..MaxVersion, fence : Nat,
             content : Contents \union {Superseded},
             run : 0..Len(runs), listed : SUBSET DOMAIN runs]
      BY DEF IInv, Typed
    <3>1. worker[w] \in WorkerRows /\ Done(w)
      BY WorkerRow
    <3> QED
      BY <2>1, <3>1 DEF Done, WorkerRows, PCs, Publishing, Writing, Says
  <2> QED
    BY <2>1, <2>2, <2>3 DEF TypeOK, IInv, Typed, Rows, Says
<1> QED
  BY <1>1, Invariance, PTL

\* Once the latest version counts as published, the stored check run shows it,
\* whatever crashed, was retried or was set anew in between.
THEOREM PublishedIsShown == Spec => []ShownIsDesired
<1>1. IInv => ShownIsDesired
  BY DEF IInv, Shown, ShownIsDesired
<1> QED
  BY <1>1, Invariance, PTL

\* And no other check run of the head still says something.
THEOREM DuplicatesAreSuperseded == Spec => []NoDuplicateLeft
<1>1. IInv => NoDuplicateLeft
  BY DEF IInv, Shown, NoDuplicateLeft
<1> QED
  BY <1>1, Invariance, PTL
=============================================================================
