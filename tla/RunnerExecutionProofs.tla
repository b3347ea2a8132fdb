----------------------- MODULE RunnerExecutionProofs ------------------------
(***************************************************************************)
(* The attempts of a runner execution, for any number of workers, restarts *)
(* and attempts and both kinds of backend.                                 *)
(*                                                                         *)
(* The proof looks at the table of attempts alone: a transaction either    *)
(* moves one row (RowMoved) or appends a row after one that is not open    *)
(* any more (AttemptAdded).  That both kinds keep the promises is proved   *)
(* once; that every action of RunnerExecution is of one kind needs that a  *)
(* goroutine on its way through an attempt points at a row that exists.    *)
(***************************************************************************)
EXTENDS RunnerExecution, TLAPS, SequenceTheorems

Rows       == [state : Open \union Finished, fence : Nat, instance : Nat,
               handle : BOOLEAN,
               cleanup : {"none", "pending", "failed", "cleaned"}]
Outside    == {"none", "running", "done", "failed", "exited", "gone"}
AtAttempt  == {"own", "ensure", "record", "observe", "complete", "fail",
               "mark_pending", "begin_cancel", "cancel", "mark_cancelled"}
PCs        == AtAttempt \union {"idle", "prepare", "evidence", "error", "cancelled"}
WorkerRows == [pc : PCs, fence : Nat, attempt : Nat,
               seen : {"none"} \union Open \union Finished,
               owned : BOOLEAN, handle : BOOLEAN]

-----------------------------------------------------------------------------
(* The updates of JobLease make rows of rows.                              *)

\* The row as it is inserted, and the one before it.
LEMMA FreshRow == NoJob \in JobRow /\ NewJob \in JobRow
  BY JobLeaseAssumption DEF JobRow, NoJob, NewJob, Waiting, Terminal

\* However a run is settled, its row is a row again.
LEMMA SettledIsRow ==
    ASSUME NEW r \in JobRow
    PROVE  /\ Completed(r) \in JobRow /\ GaveUp(r) \in JobRow
           /\ Rejected(r) \in JobRow /\ FailedOnce(r) \in JobRow
           /\ Abandoned(r) \in JobRow
<1> USE DEF JobRow, Released, Terminal, Waiting
<1>1. Completed(r) \in JobRow /\ GaveUp(r) \in JobRow /\ Rejected(r) \in JobRow
  BY JobLeaseAssumption DEF Completed, GaveUp, Rejected
<1>2. FailedOnce(r) \in JobRow
  BY JobLeaseAssumption DEF FailedOnce
<1>3. CASE r.attempts > 0
  BY <1>1, <1>2, <1>3, JobLeaseAssumption DEF Abandoned
<1>4. CASE ~(r.attempts > 0)
  BY <1>1, <1>2, <1>4, JobLeaseAssumption DEF Abandoned
<1> QED
  BY <1>3, <1>4

\* A claim uses one attempt and issues the next token.
LEMMA LeasedRow ==
    ASSUME NEW r \in JobRow, Claimable(r), NEW w \in Workers
    PROVE  /\ Leased(r, w) \in JobRow
           /\ Leased(r, w).state = "running"
           /\ Leased(r, w).fence = r.fence + 1
  BY JobLeaseAssumption DEF JobRow, Leased, Claimable

\* A lease that runs out leaves the row a row.
LEMMA LapsedRow ==
    ASSUME NEW r \in JobRow
    PROVE  Lapsed(r) \in JobRow
  BY DEF JobRow, Lapsed

-----------------------------------------------------------------------------
(* The inductive invariant.                                                *)

\* A goroutine on its way through an attempt points at a row of the table.
Placed(r) == /\ r.attempt <= Len(attempts)
             /\ r.pc \in AtAttempt => r.attempt # 0

\* One external resource, or its place, for each row.
Tables == /\ attempts \in Seq(Rows) /\ resource \in Seq(Outside)
          /\ Len(resource) = Len(attempts)

Process == /\ worker \in [Workers -> WorkerRows]
           /\ \A w \in Workers : Placed(worker[w])
           /\ cleaning \in 0..Len(attempts)
           /\ instance \in 1..(MaxRestarts + 1)

IInv == /\ backend \in Backends /\ job \in JobRow
        /\ Tables /\ Process
        /\ OneOpenAttempt /\ OpenIsNotCleaned

\* The coordinator starts with a pending job and no attempt.
LEMMA InitIInv == Init => IInv
<1> SUFFICES ASSUME Init
             PROVE  IInv
  OBVIOUS
<1>1. Tables /\ Len(attempts) = 0
  BY DEF Init, Tables
<1>2. Process
  BY <1>1, RunnerAssumption
  DEF Init, Process, Placed, NoWork, WorkerRows, PCs, AtAttempt
<1> QED
  BY <1>1, <1>2, FreshRow DEF Init, IInv, OneOpenAttempt, OpenIsNotCleaned

-----------------------------------------------------------------------------
(* The two kinds of transaction on the table of attempts.                  *)

\* What every transaction on the table keeps.
KeepsPromises == /\ Tables' /\ OneOpenAttempt' /\ OpenIsNotCleaned'
                 /\ Len(attempts) <= Len(attempts')
                 /\ \A n \in DOMAIN attempts : attempts[n].state \in Finished =>
                        attempts'[n].state = attempts[n].state

\* A row moves on: nothing finished changes its outcome, nothing reopens, and
\* only what is not open is up for cleanup.
Moves(a, b) == /\ b \in Rows
               /\ a.state \in Finished => b.state = a.state
               /\ b.state \in Open => a.state \in Open /\ b.cleanup = "none"

\* What a proof about the tables needs of them.
LEMMA TableTypes ==
    ASSUME Tables
    PROVE  /\ DOMAIN attempts = 1..Len(attempts) /\ Len(attempts) \in Nat
           /\ DOMAIN resource = 1..Len(attempts)
           /\ \A n \in 1..Len(attempts) : attempts[n] \in Rows /\ resource[n] \in Outside
           /\ Open \cap Finished = {}
  BY DEF Tables, Open, Finished, Retryable

\* Transactions that leave every row where it is, or move it on.
LEMMA RowsMoved ==
    ASSUME Tables, OneOpenAttempt, OpenIsNotCleaned,
           attempts' \in [1..Len(attempts) -> Rows],
           resource' \in [1..Len(attempts) -> Outside],
           \A n \in 1..Len(attempts) : attempts'[n] = attempts[n]
                                      \/ Moves(attempts[n], attempts'[n])
    PROVE  KeepsPromises /\ Len(attempts') = Len(attempts)
<1>1. /\ attempts' \in Seq(Rows) /\ Len(attempts') = Len(attempts)
      /\ resource' \in Seq(Outside) /\ Len(resource') = Len(attempts)
  BY TableTypes
<1>2. Tables' /\ DOMAIN attempts' = 1..Len(attempts)
  BY <1>1 DEF Tables
<1>3. OneOpenAttempt' /\ OpenIsNotCleaned'
  BY <1>1, <1>2, TableTypes DEF OneOpenAttempt, OpenIsNotCleaned, Moves
<1> QED
  BY <1>1, <1>2, <1>3, TableTypes DEF KeepsPromises, Moves

\* A transaction that moves one row.
LEMMA RowMoved ==
    ASSUME Tables, OneOpenAttempt, OpenIsNotCleaned, UNCHANGED resource,
           NEW n \in 1..Len(attempts), NEW r, attempts' = [attempts EXCEPT ![n] = r],
           Moves(attempts[n], r)
    PROVE  KeepsPromises /\ Len(attempts') = Len(attempts)
<1>1. /\ attempts \in [1..Len(attempts) -> Rows]
      /\ resource \in [1..Len(attempts) -> Outside]
  BY DEF Tables
<1>2. attempts' \in [1..Len(attempts) -> Rows]
  BY <1>1 DEF Moves
<1>3. \A m \in 1..Len(attempts) : attempts'[m] = IF m = n THEN r ELSE attempts[m]
  BY <1>1
<1> QED
  BY <1>1, <1>2, <1>3, RowsMoved

\* Steps that only the resources notice, or nothing at all.
LEMMA ResourceMoved ==
    ASSUME Tables, OneOpenAttempt, OpenIsNotCleaned, UNCHANGED attempts,
           \/ UNCHANGED resource
           \/ \E n, r : r \in Outside /\ resource' = [resource EXCEPT ![n] = r]
           \/ resource' = [n \in DOMAIN resource |-> "gone"]
    PROVE  KeepsPromises /\ Len(attempts') = Len(attempts)
<1>1. /\ attempts \in [1..Len(attempts) -> Rows]
      /\ resource \in [1..Len(attempts) -> Outside]
  BY DEF Tables
<1>2. ASSUME NEW n, NEW r \in Outside, resource' = [resource EXCEPT ![n] = r]
      PROVE  resource' \in [1..Len(attempts) -> Outside]
  BY <1>1, <1>2
<1>3. ASSUME resource' = [n \in DOMAIN resource |-> "gone"]
      PROVE  resource' \in [1..Len(attempts) -> Outside]
  BY <1>1, <1>3 DEF Outside
<1>4. resource' \in [1..Len(attempts) -> Outside]
  BY <1>1, <1>2, <1>3
<1> QED
  BY <1>1, <1>4, RowsMoved

\* A new attempt follows a table without an open one.
LEMMA AttemptAdded ==
    ASSUME Tables, OneOpenAttempt, OpenIsNotCleaned, NEW f \in Nat, instance \in Nat,
           NEW sealed \in Seq(Rows), Len(sealed) = Len(attempts),
           \A n \in 1..Len(attempts) :
              /\ sealed[n].state \notin Open
              /\ attempts[n].state \in Finished => sealed[n].state = attempts[n].state,
           attempts' = Append(sealed, Attempt(f)), resource' = Append(resource, "none")
    PROVE  KeepsPromises /\ Len(attempts') = Len(attempts) + 1
<1> DEFINE a == Attempt(f)
<1>1. a \in Rows /\ a.cleanup = "none"
  BY DEF Attempt, Rows, Open
<1> HIDE DEF a
<1>2. /\ attempts' \in Seq(Rows) /\ Len(attempts') = Len(attempts) + 1
      /\ attempts'[Len(attempts) + 1] = a
      /\ \A n \in 1..Len(attempts) : attempts'[n] = sealed[n]
      /\ DOMAIN attempts' = 1..(Len(attempts) + 1)
  BY <1>1 DEF Tables, a
<1>3. resource' \in Seq(Outside) /\ Len(resource') = Len(attempts) + 1
  BY DEF Tables, Outside
<1>4. \A n \in DOMAIN attempts' : n \in 1..Len(attempts) \/ n = Len(attempts) + 1
  BY <1>2, TableTypes
<1> QED
  BY <1>1, <1>2, <1>3, <1>4, TableTypes
  DEF KeepsPromises, Tables, OneOpenAttempt, OpenIsNotCleaned

-----------------------------------------------------------------------------
(* Every action is of one kind.                                            *)

\* What a goroutine may rely on while it is at an attempt.
LEMMA AtRow ==
    ASSUME IInv, NEW w \in Workers
    PROVE  /\ worker[w] \in WorkerRows
           /\ worker[w].pc \in AtAttempt =>
                /\ Current(w) \in 1..Len(attempts)
                /\ Mine(w) = attempts[Current(w)] /\ Mine(w) \in Rows
<1>1. worker[w] \in WorkerRows /\ Placed(worker[w])
  BY DEF IInv, Process
<1>2. Len(attempts) \in Nat
  BY TableTypes DEF IInv
<1>3. worker[w].attempt \in Nat
  BY <1>1 DEF WorkerRows
<1>4. worker[w].pc \in AtAttempt => worker[w].attempt \in 1..Len(attempts)
  BY <1>1, <1>2, <1>3 DEF Placed
<1> QED
  BY <1>1, <1>4, TableTypes DEF Current, Mine, IInv

\* The write of one state and cleanup mark.
LEMMA RowSet ==
    ASSUME IInv, UNCHANGED resource, NEW n \in 1..Len(attempts),
           NEW s \in Open \union Finished,
           NEW c \in {"none", "pending", "failed", "cleaned"}, Set(n, s, c),
           attempts[n].state \in Finished => s = attempts[n].state,
           s \in Open => attempts[n].state \in Open /\ c = "none"
    PROVE  KeepsPromises /\ Len(attempts') = Len(attempts)
<1> DEFINE r == [attempts[n] EXCEPT !.state = s, !.cleanup = c]
<1>1. Tables /\ attempts[n] \in Rows /\ n \in DOMAIN attempts
  BY TableTypes DEF IInv
<1>2. r \in Rows /\ r.state = s /\ r.cleanup = c
  BY <1>1 DEF Rows
<1>3. attempts' = [attempts EXCEPT ![n] = r]
  BY <1>1 DEF Set
<1> HIDE DEF r
<1>4. Moves(attempts[n], r)
  BY <1>2 DEF Moves
<1> QED
  BY <1>1, <1>3, <1>4, RowMoved DEF IInv

\* Claiming: the sweep of a given-up job loses its open attempts.
LEMMA SweepTable ==
    ASSUME IInv, NEW w \in Workers, ClaimJob(w)
    PROVE  KeepsPromises
<1>1. Tables /\ UNCHANGED resource
  BY DEF IInv, ClaimJob
<1>2. CASE UNCHANGED attempts
  BY <1>1, <1>2, ResourceMoved DEF IInv
<1>3. CASE attempts' = SweptAttempts
  <2>1. ASSUME NEW n \in 1..Len(attempts)
        PROVE  /\ attempts'[n] \in Rows
               /\ attempts'[n] = attempts[n] \/ Moves(attempts[n], attempts'[n])
    <3>1. attempts[n] \in Rows /\ n \in DOMAIN attempts
      BY <1>1, TableTypes
    <3>2. CASE attempts[n].state \in Open
      <4>1. attempts'[n] = [attempts[n] EXCEPT !.state = "lost", !.cleanup = "pending"]
        BY <1>3, <3>1, <3>2 DEF SweptAttempts
      <4>2. attempts'[n] \in Rows /\ attempts'[n].state = "lost"
        BY <3>1, <4>1 DEF Rows, Finished, Retryable
      <4> QED
        BY <1>1, <3>2, <4>2, TableTypes DEF Moves, Open
    <3>3. CASE attempts[n].state \notin Open
      BY <1>3, <3>1, <3>3 DEF SweptAttempts
    <3> QED
      BY <3>2, <3>3
  <2>2. attempts' = [n \in 1..Len(attempts) |-> attempts'[n]]
    BY <1>1, <1>3, TableTypes DEF SweptAttempts
  <2>3. attempts' \in [1..Len(attempts) -> Rows]
    BY <2>1, <2>2
  <2>4. resource' \in [1..Len(attempts) -> Outside]
    BY <1>1 DEF Tables
  <2> QED
    BY <1>1, <2>1, <2>3, <2>4, RowsMoved DEF IInv
<1> QED
  BY <1>2, <1>3 DEF ClaimJob

\* Preparing the first attempt of an execution, or looking at the latest.
LEMMA PrepareTable ==
    ASSUME IInv, NEW w \in Workers, Prepare(w)
    PROVE  KeepsPromises /\ (attempts' # attempts => Len(attempts') = 1)
<1>1. worker[w].fence \in Nat /\ instance \in Nat
  BY AtRow, RunnerAssumption DEF WorkerRows, IInv, Process
<1>2. CASE attempts = <<>> /\ Allocate(w)
  <2>1. /\ Tables /\ OneOpenAttempt /\ OpenIsNotCleaned
        /\ attempts \in Seq(Rows) /\ Len(attempts) = 0
    BY <1>2 DEF IInv, Tables
  <2>2. \A n \in 1..Len(attempts) : FALSE
    BY <2>1
  <2>3. /\ attempts' = Append(attempts, Attempt(worker[w].fence))
        /\ resource' = Append(resource, "none")
    BY <1>2 DEF Allocate
  <2>4. KeepsPromises /\ Len(attempts') = Len(attempts) + 1
    BY ONLY <1>1, <2>1, <2>2, <2>3, AttemptAdded
  <2> QED
    BY <2>1, <2>4
<1>3. CASE UNCHANGED <<attempts, resource>>
  BY <1>3, ResourceMoved DEF IInv
<1> QED
  BY <1>2, <1>3 DEF Prepare

\* ownAttempt: a new attempt only ever follows one that is not open any more.
LEMMA OwnTable ==
    ASSUME IInv, NEW w \in Workers, OwnAttempt(w)
    PROVE  /\ KeepsPromises
           /\ Replace(w) \/ AllocateNext(w) => Len(attempts') = Len(attempts) + 1
           /\ Adopt(w) => Len(attempts') = Len(attempts)
<1> DEFINE n == Current(w)
<1>1. /\ n \in 1..Len(attempts) /\ Mine(w) = attempts[n] /\ attempts[n] \in Rows
      /\ worker[w].fence \in Nat /\ Tables
  BY AtRow DEF OwnAttempt, AtAttempt, WorkerRows, IInv
<1>2. instance \in Nat
  BY RunnerAssumption DEF IInv, Process
<1>3. ASSUME NEW m \in 1..Len(attempts), m # Len(attempts)
      PROVE  attempts[m].state \notin Open
  BY <1>1, <1>3, TableTypes DEF IInv, OneOpenAttempt
<1> HIDE DEF n
<1>4. ASSUME Adopt(w)
      PROVE  KeepsPromises /\ Len(attempts') = Len(attempts)
  <2> DEFINE r == [attempts[n] EXCEPT !.fence = worker[w].fence]
  <2>1. /\ r \in Rows /\ r.state = attempts[n].state /\ r.cleanup = attempts[n].cleanup
        /\ attempts' = [attempts EXCEPT ![n] = r] /\ UNCHANGED resource
    BY <1>1, <1>4 DEF Rows, Adopt, n
  <2> HIDE DEF r
  <2>2. Moves(attempts[n], r)
    BY <1>1, <2>1, TableTypes DEF Moves, IInv, OpenIsNotCleaned
  <2> QED
    BY <1>1, <2>1, <2>2, RowMoved DEF IInv
<1>5. ASSUME Replace(w)
      PROVE  KeepsPromises /\ Len(attempts') = Len(attempts) + 1
  <2> DEFINE s == IF attempts[n].state = "succeeded" THEN "succeeded" ELSE "lost"
             r == [attempts[n] EXCEPT !.state = s, !.cleanup = "pending"]
             sealed == [attempts EXCEPT ![n] = r]
  <2>1. s \in Finished /\ (attempts[n].state \in Finished => s = attempts[n].state)
    BY <1>1, <1>5 DEF Replace, Ownable, Finished, Retryable
  <2>2. /\ attempts' = Append(sealed, Attempt(worker[w].fence))
        /\ resource' = Append(resource, "none") /\ n = Len(attempts)
    BY <1>1, <1>5, TableTypes DEF Replace, n
  <2> HIDE DEF s
  <2>3. r \in Rows /\ r.state = s
    BY <1>1, <2>1 DEF Rows
  <2> HIDE DEF r
  <2>4. /\ sealed \in Seq(Rows) /\ Len(sealed) = Len(attempts)
        /\ \A m \in 1..Len(attempts) : sealed[m] = IF m = n THEN r ELSE attempts[m]
    BY <1>1, <2>3 DEF Tables
  <2> HIDE DEF sealed
  <2>5. \A m \in 1..Len(attempts) :
           /\ sealed[m].state \notin Open
           /\ attempts[m].state \in Finished => sealed[m].state = attempts[m].state
    BY <1>1, <1>3, <2>1, <2>2, <2>3, <2>4, TableTypes
  <2> QED
    BY <1>1, <1>2, <2>2, <2>4, <2>5, AttemptAdded DEF IInv
<1>6. ASSUME AllocateNext(w)
      PROVE  KeepsPromises /\ Len(attempts') = Len(attempts) + 1
  <2>1. attempts[n].state \in Finished /\ n = Len(attempts) /\ Allocate(w)
    BY <1>1, <1>6 DEF AllocateNext, Finished, n
  <2>2. \A m \in 1..Len(attempts) : attempts[m].state \notin Open
    BY <1>1, <1>3, <2>1, TableTypes
  <2> QED
    BY <1>1, <1>2, <2>1, <2>2, AttemptAdded DEF IInv, Allocate, Tables
<1>7. ASSUME KeepOwn(w) \/ NotRunnable(w)
      PROVE  KeepsPromises
  BY <1>7, ResourceMoved DEF KeepOwn, NotRunnable, IInv
<1> QED
  BY <1>4, <1>5, <1>6, <1>7 DEF OwnAttempt

\* Every transaction keeps the promises of the table.
LEMMA TableSteps ==
    ASSUME IInv, [Next]_vars
    PROVE  KeepsPromises
<1> DEFINE Kinds == {"none", "pending", "failed", "cleaned"}
<1>1. /\ Tables /\ OneOpenAttempt /\ OpenIsNotCleaned
      /\ \A n \in 1..Len(attempts) :
            /\ attempts[n].state \in Open \union Finished
            /\ attempts[n].cleanup \in Kinds
            /\ attempts[n].state \in Open => attempts[n].cleanup = "none"
  BY TableTypes DEF IInv, Rows, OpenIsNotCleaned
<1>2. ASSUME NEW w \in Workers, RecordHandle(w)
      PROVE  KeepsPromises
  <2> DEFINE n == Current(w)
             s == IF Owns(w, {"prepared", "active"}) THEN "active" ELSE attempts[n].state
             r == [attempts[n] EXCEPT !.handle = TRUE, !.state = s]
  <2>1. n \in 1..Len(attempts) /\ Mine(w) = attempts[n] /\ attempts[n] \in Rows
    BY <1>2, AtRow DEF RecordHandle, AtAttempt
  <2>2. /\ s \in Open \union Finished
        /\ s = attempts[n].state \/ (attempts[n].state \in Open /\ s = "active")
    BY <1>1, <2>1 DEF Owns, Open
  <2>3. attempts' = [attempts EXCEPT ![n] = r] /\ UNCHANGED resource
    BY <1>1, <1>2, <2>1, TableTypes DEF RecordHandle
  <2> HIDE DEF s
  <2>4. r \in Rows /\ r.state = s /\ r.cleanup = attempts[n].cleanup
    BY <2>1, <2>2 DEF Rows
  <2> HIDE DEF r, n
  <2>5. Moves(attempts[n], r)
    BY <1>1, <2>1, <2>2, <2>4, TableTypes DEF Moves
  <2> QED
    BY <1>1, <2>1, <2>3, <2>5, RowMoved
<1>3. ASSUME NEW w \in Workers, Ensure(w)
      PROVE  KeepsPromises
  <2> DEFINE n == Current(w)
  <2>1. n \in 1..Len(attempts) /\ attempts[n] \in Rows
    BY <1>3, AtRow DEF Ensure, AtAttempt
  <2>2. \A r \in Ensured(n) : r \in Outside
    BY <1>1, <2>1, TableTypes DEF Ensured, Outside
  <2>3. CASE UNCHANGED attempts
    BY <1>1, <1>3, <2>2, <2>3, ResourceMoved DEF Ensure
  <2>4. CASE /\ attempts' = [attempts EXCEPT ![n].handle = TRUE]
             /\ \E r \in Ensured(n) : resource' = [resource EXCEPT ![n] = r]
    <3> DEFINE a == [attempts[n] EXCEPT !.handle = TRUE]
    <3>1. /\ a \in Rows /\ a.state = attempts[n].state
          /\ a.cleanup = attempts[n].cleanup
          /\ attempts' = [attempts EXCEPT ![n] = a]
      BY <1>1, <2>1, <2>4, TableTypes DEF Rows
    <3> HIDE DEF a, n
    <3>2. Moves(attempts[n], a)
      BY <1>1, <2>1, <3>1, TableTypes DEF Moves
    <3>3. /\ attempts \in [1..Len(attempts) -> Rows]
          /\ resource \in [1..Len(attempts) -> Outside]
      BY <1>1 DEF Tables
    <3>4. /\ attempts' \in [1..Len(attempts) -> Rows]
          /\ resource' \in [1..Len(attempts) -> Outside]
      BY <2>1, <2>2, <2>4, <3>1, <3>3
    <3>5. \A m \in 1..Len(attempts) : attempts'[m] = IF m = n THEN a ELSE attempts[m]
      BY <3>1, <3>3
    <3> QED
      BY <1>1, <3>2, <3>4, <3>5, RowsMoved
  <2> QED
    BY <1>3, <2>3, <2>4 DEF Ensure
<1>4. ASSUME NEW w \in Workers,
             \/ CompleteExecution(w) \/ FailExecution(w) \/ MarkCleanupPending(w)
             \/ BeginCancel(w) \/ MarkCancelled(w)
      PROVE  KeepsPromises
  <2> DEFINE n == Current(w)
  <2>1. n \in 1..Len(attempts) /\ Mine(w) = attempts[n] /\ UNCHANGED resource
    BY <1>4, AtRow
    DEF CompleteExecution, FailExecution, MarkCleanupPending, BeginCancel,
        MarkCancelled, AtAttempt
  <2>2. CASE UNCHANGED attempts
    BY <1>1, <2>1, <2>2, ResourceMoved
  <2> HIDE DEF n
  <2>3. ASSUME attempts[n].state \in Open,
               \/ \E s \in Finished, c \in Kinds : Set(n, s, c)
               \/ Set(n, "cancel_requested", attempts[n].cleanup)
        PROVE  KeepsPromises
    BY <1>1, <2>1, <2>3, RowSet, TableTypes DEF Open
  <2>4. ASSUME attempts[n].state \in Finished, Set(n, attempts[n].state, "pending")
        PROVE  KeepsPromises
    BY <1>1, <2>1, <2>4, RowSet, TableTypes
  <2>5. \/ UNCHANGED attempts
        \/ attempts[n].state \in Finished /\ Set(n, attempts[n].state, "pending")
        \/ /\ attempts[n].state \in Open
           /\ \/ \E s \in Finished, c \in Kinds : Set(n, s, c)
              \/ Set(n, "cancel_requested", attempts[n].cleanup)
    <3>1. attempts[n].cleanup \in Kinds
      BY <1>1, <2>1
    <3> QED
      BY <1>4, <2>1, <3>1
      DEF n, CompleteExecution, FailExecution, MarkCleanupPending, BeginCancel,
          MarkCancelled, Owns, Open, Finished, Retryable
  <2> QED
    BY <2>2, <2>3, <2>4, <2>5
<1>5. ASSUME NEW w \in Workers, Observe(w) \/ Cancel(w)
      PROVE  KeepsPromises
  <2>1. /\ UNCHANGED attempts
        /\ UNCHANGED resource
           \/ \E n, r : r \in Outside /\ resource' = [resource EXCEPT ![n] = r]
    <3>1. Current(w) \in 1..Len(attempts)
      BY <1>5, AtRow DEF Observe, Cancel, AtAttempt
    <3>2. resource[Current(w)] \in Outside
      BY <1>1, <3>1, TableTypes
    <3> QED
      BY <1>5, <3>2 DEF Observe, Cancel, Outside
  <2> QED
    BY <1>1, <2>1, ResourceMoved
<1>6. ASSUME NEW n \in DOMAIN attempts, CleanUp(n) \/ RunnerEnds(n)
      PROVE  KeepsPromises
  BY <1>1, <1>6, ResourceMoved DEF CleanUp, RunnerEnds, Outside
<1>7. ASSUME NEW n \in DOMAIN attempts, RecordCleanupFailure(n)
      PROVE  KeepsPromises
  BY <1>1, <1>7, RowSet, TableTypes DEF RecordCleanupFailure, Due
<1>8. ASSUME MarkCleaned
      PROVE  KeepsPromises
  <2> DEFINE n == cleaning
             c == IF Due(n) THEN "cleaned" ELSE attempts[n].cleanup
  <2>1. n \in 1..Len(attempts)
    BY <1>1, <1>8, TableTypes DEF MarkCleaned, IInv, Process
  <2>2. c \in Kinds /\ (attempts[n].state \in Open => c = "none")
    BY <1>1, <2>1 DEF Due
  <2> DEFINE r == [attempts[n] EXCEPT !.cleanup = c]
  <2>3. attempts' = [attempts EXCEPT ![n] = r] /\ UNCHANGED resource
    BY <1>1, <1>8, <2>1, TableTypes DEF MarkCleaned
  <2> HIDE DEF c
  <2>4. r \in Rows /\ r.state = attempts[n].state /\ r.cleanup = c
    BY <1>1, <2>1, <2>2, TableTypes DEF Rows
  <2> HIDE DEF r, n
  <2>5. Moves(attempts[n], r)
    BY <1>1, <2>1, <2>2, <2>4, TableTypes DEF Moves
  <2> QED
    BY <1>1, <2>1, <2>3, <2>5, RowMoved
<1>9. ASSUME Restart \/ Lapse \/ (\E w \in Workers : Report(w)) \/ UNCHANGED vars
      PROVE  KeepsPromises
  BY <1>1, <1>9, ResourceMoved DEF Restart, Lapse, Report, vars
<1> HIDE DEF Kinds
<1> QED
  BY <1>2, <1>3, <1>4, <1>5, <1>6, <1>7, <1>8, <1>9, SweepTable, PrepareTable, OwnTable
  DEF Next, RunStep

\* The goroutines stay on rows that exist.
WorkersPlaced == /\ worker' \in [Workers -> WorkerRows]
                 /\ \A w \in Workers : Placed(worker[w])'

\* A goroutine goes on from where it is, ends, or turns to a row.
LEMMA Turns ==
    ASSUME IInv, KeepsPromises, NEW w \in Workers,
           NEW r \in WorkerRows, worker' = [worker EXCEPT ![w] = r],
           r.attempt <= Len(attempts'), r.pc \in AtAttempt => r.attempt # 0
    PROVE  WorkersPlaced
<1>1. worker \in [Workers -> WorkerRows] /\ \A v \in Workers : Placed(worker[v])
  BY DEF IInv, Process
<1>2. Len(attempts) \in Nat /\ Len(attempts') \in Nat /\ Len(attempts) <= Len(attempts')
  BY TableTypes DEF KeepsPromises, IInv, Tables
<1>3. worker' \in [Workers -> WorkerRows]
  BY <1>1
<1>4. ASSUME NEW v \in Workers
      PROVE  Placed(worker[v])'
  <2>1. worker[v].attempt \in Nat
    BY <1>1 DEF WorkerRows
  <2>2. worker'[v] = IF v = w THEN r ELSE worker[v]
    BY <1>1
  <2> QED
    BY <1>1, <1>2, <2>1, <2>2 DEF Placed
<1> QED
  BY <1>3, <1>4 DEF WorkersPlaced

\* The ways the actions of RunnerExecution turn a goroutine.
LEMMA NamedTurns ==
    ASSUME IInv, KeepsPromises, NEW w \in Workers
    PROVE  /\ \A pc \in PCs :
                 (pc \in AtAttempt => worker[w].pc \in AtAttempt) /\ Goto(w, pc)
                    => WorkersPlaced
           /\ \A pc \in PCs \ AtAttempt : End(w, pc) => WorkersPlaced
           /\ worker' = [worker EXCEPT ![w] = NoWork] => WorkersPlaced
           /\ \A n \in 1..Len(attempts'), h \in BOOLEAN : Run(w, n, h) => WorkersPlaced
           /\ \A n \in 1..Len(attempts'), row \in Rows : Look(w, n, row) => WorkersPlaced
<1>1. worker \in [Workers -> WorkerRows] /\ worker[w] \in WorkerRows /\ Placed(worker[w])
  BY DEF IInv, Process
<1>2. Len(attempts) \in Nat /\ Len(attempts') \in Nat /\ Len(attempts) <= Len(attempts')
  BY TableTypes DEF KeepsPromises, IInv, Tables
<1>3. worker[w].fence \in Nat /\ worker[w].attempt \in Nat
  BY <1>1 DEF WorkerRows
<1>4. ASSUME NEW pc \in PCs, pc \in AtAttempt => worker[w].pc \in AtAttempt, Goto(w, pc)
      PROVE  WorkersPlaced
  <2> DEFINE r == [worker[w] EXCEPT !.pc = pc]
  <2>1. r \in WorkerRows /\ r.pc = pc /\ r.attempt = worker[w].attempt
    BY <1>1 DEF WorkerRows
  <2>2. worker' = [worker EXCEPT ![w] = r]
    BY <1>1, <1>4 DEF Goto
  <2>3. r.attempt <= Len(attempts') /\ (r.pc \in AtAttempt => r.attempt # 0)
    BY <1>1, <1>2, <1>3, <1>4, <2>1 DEF Placed
  <2> HIDE DEF r
  <2> QED
    BY <2>1, <2>2, <2>3, Turns
<1>5. ASSUME NEW pc \in PCs \ AtAttempt, End(w, pc)
      PROVE  WorkersPlaced
  <2> DEFINE r == [NoWork EXCEPT !.fence = worker[w].fence, !.pc = pc]
  <2>1. r \in WorkerRows /\ r.pc = pc /\ r.attempt = 0
    BY <1>3 DEF WorkerRows, NoWork
  <2>2. worker' = [worker EXCEPT ![w] = r]
    BY <1>5 DEF End
  <2>3. r.attempt <= Len(attempts') /\ r.pc \notin AtAttempt
    BY <1>2, <2>1
  <2> HIDE DEF r
  <2> QED
    BY <2>1, <2>2, <2>3, Turns
<1>6. ASSUME worker' = [worker EXCEPT ![w] = NoWork]
      PROVE  WorkersPlaced
  <2>1. NoWork \in WorkerRows /\ NoWork.attempt = 0 /\ NoWork.pc \notin AtAttempt
    BY DEF WorkerRows, NoWork, PCs, AtAttempt
  <2>2. NoWork.attempt <= Len(attempts')
    BY <1>2, <2>1
  <2> HIDE DEF NoWork
  <2> QED
    BY <1>6, <2>1, <2>2, Turns
<1>7. ASSUME NEW n \in 1..Len(attempts'), NEW h \in BOOLEAN, Run(w, n, h)
      PROVE  WorkersPlaced
  <2>1. PICK pc \in AtAttempt : pc = IF h THEN "observe" ELSE "ensure"
    BY DEF AtAttempt
  <2>2. PICK f \in Nat : f = worker[w].fence
    BY <1>3
  <2>3. n \in Nat /\ n # 0 /\ n <= Len(attempts') /\ pc \in PCs
    BY <1>2 DEF PCs
  <2> DEFINE r == [NoWork EXCEPT !.fence = f, !.attempt = n, !.pc = pc]
  <2>4. worker' = [worker EXCEPT ![w] = r]
    BY <1>7, <2>1, <2>2 DEF Run
  <2>5. r \in WorkerRows /\ r.attempt = n
    BY <2>3 DEF WorkerRows, NoWork
  <2> HIDE DEF r
  <2> QED
    BY <2>3, <2>4, <2>5, Turns
<1>8. ASSUME NEW n \in 1..Len(attempts'), NEW row \in Rows, Look(w, n, row)
      PROVE  WorkersPlaced
  <2>1. PICK o \in BOOLEAN : o = (row.fence = worker[w].fence)
    OBVIOUS
  <2>2. PICK s \in Open \union Finished, h \in BOOLEAN : s = row.state /\ h = row.handle
    BY DEF Rows
  <2>3. n \in Nat /\ n # 0 /\ n <= Len(attempts') /\ "own" \in PCs
    BY <1>2 DEF PCs, AtAttempt
  <2> DEFINE r == [worker[w] EXCEPT !.attempt = n, !.seen = s, !.owned = o,
                                    !.handle = h, !.pc = "own"]
  <2>4. worker' = [worker EXCEPT ![w] = r]
    BY <1>1, <1>8, <2>1, <2>2 DEF Look
  <2>5. r \in WorkerRows /\ r.attempt = n
    BY <1>1, <2>3 DEF WorkerRows
  <2> HIDE DEF r
  <2> QED
    BY <2>3, <2>4, <2>5, Turns
<1> QED
  BY <1>4, <1>5, <1>6, <1>7, <1>8

\* No step leaves a goroutine on a row that does not exist.
LEMMA WorkerSteps ==
    ASSUME IInv, [Next]_vars, KeepsPromises
    PROVE  WorkersPlaced
<1>1. /\ worker \in [Workers -> WorkerRows]
      /\ \A w \in Workers : Placed(worker[w]) /\ worker[w].attempt \in Nat
      /\ job.fence \in Nat
  BY DEF IInv, Process, WorkerRows, JobRow
<1>2. Len(attempts) \in Nat /\ Len(attempts') \in Nat /\ Len(attempts) <= Len(attempts')
  BY TableTypes DEF KeepsPromises, IInv, Tables
<1>3. CASE UNCHANGED worker
  BY <1>1, <1>2, <1>3 DEF WorkersPlaced, Placed
<1>4. ASSUME NEW w \in Workers, ClaimJob(w)
      PROVE  WorkersPlaced
  <2>1. PICK f \in Nat : f = job.fence + 1
    BY <1>1
  <2> DEFINE r == [NoWork EXCEPT !.pc = "prepare", !.fence = f]
  <2>2. r \in WorkerRows /\ r.attempt = 0 /\ r.pc = "prepare"
    BY DEF WorkerRows, NoWork, PCs
  <2>3. worker' = [worker EXCEPT ![w] = r] \/ UNCHANGED worker
    BY <1>4, <2>1 DEF ClaimJob
  <2> HIDE DEF r
  <2> QED
    BY <1>2, <1>3, <2>2, <2>3, Turns DEF AtAttempt
<1>5. ASSUME NEW w \in Workers, Report(w)
      PROVE  WorkersPlaced
  BY <1>5, NamedTurns DEF Report
<1>6. ASSUME NEW w \in Workers, Prepare(w)
      PROVE  WorkersPlaced
  <2>1. CASE End(w, "error")
    BY <2>1, NamedTurns DEF PCs, AtAttempt
  <2>2. CASE Allocate(w) /\ Look(w, 1, Attempt(worker[w].fence)) /\ attempts = <<>>
    <3>1. Attempt(worker[w].fence) \in Rows
      BY AtRow, RunnerAssumption DEF Attempt, Rows, Open, WorkerRows, IInv, Process
    <3>2. Len(attempts') = 1
      BY <2>2 DEF Allocate
    <3> QED
      BY <2>2, <3>1, <3>2, NamedTurns
  <2>3. CASE Look(w, Len(attempts), attempts[Len(attempts)]) /\ attempts # <<>>
    <3>1. Len(attempts) \in 1..Len(attempts)
      BY <1>2, <2>3 DEF IInv, Tables
    <3>2. Len(attempts) \in 1..Len(attempts') /\ attempts[Len(attempts)] \in Rows
      BY <1>2, <3>1, TableTypes DEF IInv
    <3> QED
      BY <2>3, <3>2, NamedTurns
  <2> QED
    BY <1>6, <2>1, <2>2, <2>3 DEF Prepare
<1>7. ASSUME NEW w \in Workers, OwnAttempt(w)
      PROVE  WorkersPlaced
  <2>1. Current(w) \in 1..Len(attempts) /\ worker[w] \in WorkerRows
    BY <1>7, AtRow DEF OwnAttempt, AtAttempt
  <2>2. ASSUME KeepOwn(w)
        PROVE  WorkersPlaced
    BY <1>2, <2>1, <2>2, NamedTurns DEF KeepOwn, WorkerRows
  <2>3. ASSUME Adopt(w)
        PROVE  WorkersPlaced
    <3>1. \A n \in DOMAIN attempts : n \in 1..Len(attempts') /\ attempts[n].handle \in BOOLEAN
      BY <1>2, TableTypes DEF IInv, Rows
    <3> QED
      BY <2>3, <3>1, NamedTurns DEF Adopt
  <2>4. ASSUME Replace(w) \/ AllocateNext(w)
        PROVE  WorkersPlaced
    <3>1. Current(w) = Len(attempts) /\ Len(attempts') = Len(attempts) + 1
      BY <1>7, <2>4, OwnTable DEF Replace, AllocateNext
    <3>2. Current(w) + 1 \in 1..Len(attempts')
      BY <1>2, <3>1
    <3> QED
      BY <2>4, <3>2, NamedTurns DEF Replace, AllocateNext
  <2>5. ASSUME NotRunnable(w)
        PROVE  WorkersPlaced
    BY <2>5, NamedTurns DEF NotRunnable, PCs, AtAttempt
  <2> QED
    BY <1>7, <2>2, <2>3, <2>4, <2>5 DEF OwnAttempt
<1>8. ASSUME NEW w \in Workers,
             \/ Ensure(w) \/ RecordHandle(w) \/ Observe(w) \/ CompleteExecution(w)
             \/ FailExecution(w) \/ MarkCleanupPending(w) \/ BeginCancel(w)
             \/ Cancel(w) \/ MarkCancelled(w)
      PROVE  WorkersPlaced
  <2>1. worker[w].pc \in AtAttempt
    BY <1>8 DEF Ensure, RecordHandle, Observe, CompleteExecution, FailExecution,
                MarkCleanupPending, BeginCancel, Cancel, MarkCancelled, AtAttempt
  <2>2. \/ \E pc \in PCs : Goto(w, pc)
        \/ \E pc \in PCs \ AtAttempt : End(w, pc)
    BY <1>8 DEF Ensure, RecordHandle, Observe, CompleteExecution, FailExecution,
                MarkCleanupPending, BeginCancel, Cancel, MarkCancelled, AtAttempt, PCs
  <2> QED
    BY <2>1, <2>2, NamedTurns
<1>9. ASSUME Restart
      PROVE  WorkersPlaced
  <2>1. NoWork \in WorkerRows /\ NoWork.attempt = 0 /\ NoWork.pc \notin AtAttempt
    BY DEF WorkerRows, NoWork, PCs, AtAttempt
  <2> QED
    BY <1>2, <1>9, <2>1 DEF Restart, WorkersPlaced, Placed
<1>10. ASSUME \/ \E n \in DOMAIN attempts : CleanUp(n) \/ RunnerEnds(n) \/ RecordCleanupFailure(n)
              \/ MarkCleaned \/ Lapse \/ UNCHANGED vars
       PROVE  UNCHANGED worker
  BY <1>10 DEF CleanUp, RunnerEnds, RecordCleanupFailure, MarkCleaned, Lapse, vars
<1> QED
  BY <1>3, <1>4, <1>5, <1>6, <1>7, <1>8, <1>9, <1>10 DEF Next, RunStep

\* The job's row stays a row.
LEMMA JobSteps ==
    ASSUME IInv, [Next]_vars
    PROVE  job' \in JobRow
<1>1. job \in JobRow
  BY DEF IInv
<1>2. ASSUME NEW w \in Workers, ClaimJob(w)
      PROVE  job' \in JobRow
  BY <1>1, <1>2, LeasedRow, SettledIsRow DEF ClaimJob, Exhausted
<1>3. ASSUME NEW w \in Workers, Report(w)
      PROVE  job' \in JobRow
  BY <1>1, <1>3, SettledIsRow DEF Report, Holds
<1>4. ASSUME Lapse
      PROVE  job' \in JobRow
  BY <1>1, <1>4, LapsedRow DEF Lapse
<1>5. ASSUME NEW w \in Workers, RunStep(w), ~Report(w)
      PROVE  UNCHANGED job
  BY <1>5 DEF RunStep, Prepare, OwnAttempt, Ensure, RecordHandle, Observe,
      CompleteExecution, FailExecution, MarkCleanupPending, BeginCancel, Cancel,
      MarkCancelled
<1>6. ASSUME \/ \E n \in DOMAIN attempts :
                  CleanUp(n) \/ RunnerEnds(n) \/ RecordCleanupFailure(n)
             \/ MarkCleaned \/ Restart \/ UNCHANGED vars
      PROVE  UNCHANGED job
  BY <1>6 DEF CleanUp, RunnerEnds, RecordCleanupFailure, MarkCleaned, Restart, vars
<1> QED
  BY <1>1, <1>2, <1>3, <1>4, <1>5, <1>6 DEF Next

\* Reconcile works on a row that exists, and the process counts its restarts.
LEMMA ProcessSteps ==
    ASSUME IInv, [Next]_vars, KeepsPromises
    PROVE  /\ cleaning' \in 0..Len(attempts')
           /\ instance' \in 1..(MaxRestarts + 1)
           /\ backend' \in Backends
<1>1. /\ cleaning \in 0..Len(attempts) /\ instance \in 1..(MaxRestarts + 1)
      /\ backend \in Backends /\ MaxRestarts \in Nat
      /\ DOMAIN attempts = 1..Len(attempts)
  BY RunnerAssumption, TableTypes DEF IInv, Process
<1>2. Len(attempts) \in Nat /\ Len(attempts') \in Nat /\ Len(attempts) <= Len(attempts')
  BY TableTypes DEF KeepsPromises, IInv, Tables
<1>3. ASSUME NEW n \in DOMAIN attempts, CleanUp(n)
      PROVE  cleaning' \in 0..Len(attempts') /\ UNCHANGED <<instance, backend>>
  BY <1>1, <1>2, <1>3 DEF CleanUp
<1>4. ASSUME MarkCleaned
      PROVE  cleaning' = 0 /\ UNCHANGED <<instance, backend>>
  BY <1>4 DEF MarkCleaned
<1>5. ASSUME Restart
      PROVE  /\ cleaning' = 0 /\ UNCHANGED backend
             /\ instance' \in 1..(MaxRestarts + 1)
  BY <1>1, <1>5 DEF Restart
<1>6. ASSUME NEW w \in Workers, ClaimJob(w) \/ RunStep(w)
      PROVE  UNCHANGED <<cleaning, instance, backend>>
  BY <1>6 DEF ClaimJob, RunStep, Report, Prepare, OwnAttempt, Ensure, RecordHandle,
      Observe, CompleteExecution, FailExecution, MarkCleanupPending, BeginCancel,
      Cancel, MarkCancelled
<1>7. ASSUME \/ \E n \in DOMAIN attempts : RunnerEnds(n) \/ RecordCleanupFailure(n)
             \/ Lapse \/ UNCHANGED vars
      PROVE  UNCHANGED <<cleaning, instance, backend>>
  BY <1>7 DEF RunnerEnds, RecordCleanupFailure, Lapse, vars
<1>8. CASE UNCHANGED <<cleaning, instance, backend>>
  BY <1>1, <1>2, <1>8
<1> QED
  BY <1>1, <1>2, <1>3, <1>4, <1>5, <1>6, <1>7, <1>8 DEF Next

\* The invariant holds in every reachable state.
THEOREM Invariance == Spec => []IInv
<1>1. ASSUME IInv, [Next]_vars
      PROVE  IInv'
  <2>1. KeepsPromises
    BY <1>1, TableSteps
  <2>2. WorkersPlaced /\ job' \in JobRow
    BY <1>1, <2>1, WorkerSteps, JobSteps
  <2>3. /\ cleaning' \in 0..Len(attempts') /\ instance' \in 1..(MaxRestarts + 1)
        /\ backend' \in Backends
    BY <1>1, <2>1, ProcessSteps
  <2> QED
    BY <2>1, <2>2, <2>3 DEF IInv, Process, KeepsPromises, WorkersPlaced
<1> QED
  BY <1>1, InitIInv, PTL DEF Spec

-----------------------------------------------------------------------------
(* What runner executions promise.                                         *)

\* Rows, resources, goroutines and the job stay well formed.
THEOREM TypeCorrect == Spec => []TypeOK
<1>1. IInv => TypeOK
  <2> SUFFICES ASSUME IInv
               PROVE  TypeOK
    OBVIOUS
  <2>1. /\ Tables /\ Len(attempts) \in Nat
        /\ worker \in [Workers -> WorkerRows]
        /\ \A w \in Workers : worker[w].attempt <= Len(attempts)
    BY TableTypes DEF IInv, Process, Placed
  <2>2. worker \in [Workers -> [pc : PCs, fence : Nat, attempt : 0..Len(attempts),
                                seen : {"none"} \union Open \union Finished,
                                owned : BOOLEAN, handle : BOOLEAN]]
    BY <2>1 DEF WorkerRows
  <2> QED
    BY <2>1, <2>2, TableTypes DEF TypeOK, IInv, Process, Rows, Outside, PCs, AtAttempt
<1> QED
  BY <1>1, Invariance, PTL

\* However claims lapse and workers race through ownAttempt, no two rows of
\* one execution are runnable.
THEOREM OnlyTheLatestIsOpen == Spec => []OneOpenAttempt
  BY Invariance, PTL DEF IInv

\* Reconcile never takes the resource of an attempt that may still run.
THEOREM CleanupIsSafe == Spec => []OpenIsNotCleaned
  BY Invariance, PTL DEF IInv

\* A late result, failure or cancellation never overwrites an outcome.
THEOREM OutcomesStand == Spec => OutcomeIsFinal
<1>1. ASSUME IInv, [Next]_vars
      PROVE  \A n \in DOMAIN attempts : attempts[n].state \in Finished =>
                attempts'[n].state = attempts[n].state
  BY <1>1, TableSteps DEF KeepsPromises
<1> QED
  BY <1>1, Invariance, PTL DEF Spec, OutcomeIsFinal
=============================================================================
