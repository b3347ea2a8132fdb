--------------------------- MODULE LandingProofs ----------------------------
(***************************************************************************)
(* The landing ledger (intent, receipt and canonical ref) for any number   *)
(* of changes, workers, recovery clients and pushes.                       *)
(*                                                                         *)
(* The safety properties are not inductive alone.  That a receipt          *)
(* names one version of the ref needs that every landing commit of the ref *)
(* is the indexed one (ReceiptOfVersion), and that a change reaches the    *)
(* history once needs a reason why a worker does not land a change that    *)
(* came in below an ordinary commit of its recovery session: such a change *)
(* is recovering for good, so its plan stays one from before the push      *)
(* (ComesInBelow), and the ref has left the version of that plan.          *)
(*                                                                         *)
(* The action properties follow step by step.  The refinement of the job   *)
(* queue maps every step of a landing run to the one queue operation it    *)
(* performs, or to none; what is proved of the queue is then cited.        *)
(***************************************************************************)
EXTENDS LandingQueue, TLAPS, SequenceTheorems, FiniteSetTheorems

LandingCommits == [landing : Landings, tag : Tags, plan : PlanIds]
Versions       == [commit : Commits, lands : SUBSET Landings]
LandingRows    == [state : States, attempts : Nat, plan : PlanIds \union {NoPlan},
                   commit : Commits \union {NoCommit}]
WorkerRows     == [pc : PCs, landing : Landings \union {NoLanding}, fence : Nat,
                   seen : States, base : Nat, code : Codes]
SessionRows    == [pc : {"none", "ready", "committed"},
                   landing : Landings \union {NoLanding}, base : Nat]

-----------------------------------------------------------------------------
(* The updates of JobLease make rows of rows.                              *)

\* The row as it is inserted, and the one before it.
LEMMA FreshRow == NoJob \in JobRow /\ NewJob \in JobRow
  BY JobLeaseAssumption DEF JobRow, NoJob, NewJob, Waiting, Terminal

\* However a run is settled, its row is a row again.
LEMMA SettledIsRow ==
    ASSUME NEW r \in JobRow
    PROVE  /\ Completed(r) \in JobRow /\ GaveUp(r) \in JobRow
           /\ Rejected(r) \in JobRow /\ FailedOnce(r) \in JobRow
           /\ Abandoned(r) \in JobRow
<1> USE DEF JobRow, Released, Terminal, Waiting
<1>1. Completed(r) \in JobRow /\ GaveUp(r) \in JobRow /\ Rejected(r) \in JobRow
  BY JobLeaseAssumption DEF Completed, GaveUp, Rejected
<1>2. FailedOnce(r) \in JobRow
  BY JobLeaseAssumption DEF FailedOnce
<1>3. CASE r.attempts > 0
  BY <1>1, <1>2, <1>3, JobLeaseAssumption DEF Abandoned
<1>4. CASE ~(r.attempts > 0)
  BY <1>1, <1>2, <1>4, JobLeaseAssumption DEF Abandoned
<1> QED
  BY <1>3, <1>4

\* A claim uses one attempt and issues the next token.
LEMMA LeasedRow ==
    ASSUME NEW r \in JobRow, Claimable(r), NEW w \in Workers
    PROVE  /\ Leased(r, w) \in JobRow
           /\ Leased(r, w).state = "running"
           /\ Leased(r, w).fence = r.fence + 1
  BY JobLeaseAssumption DEF JobRow, Leased, Claimable

\* A lease that runs out leaves the row a row.
LEMMA LapsedRow ==
    ASSUME NEW r \in JobRow
    PROVE  Lapsed(r) \in JobRow
  BY DEF JobRow, Lapsed

-----------------------------------------------------------------------------
(* The inductive invariant.                                                *)

\* What a goroutine remembers of its run: a landing while it is busy, a state
\* it may start from, and a version the ref has reached.
Knows(r) == /\ r.pc = "idle" => r = Idle
            /\ r.pc # "idle" => r.landing \in Landings
            /\ r.pc = "start" => r.seen \in {"pending", "retryable"}
            /\ r.base <= Len(ref)

WorkersKnow == \A w \in Workers : Knows(worker[w])

\* A recovery session is about an intent that only its push can move.
SessionsKnow ==
    \A c \in Clients : session[c].pc # "none" =>
        /\ session[c].landing \in Landings
        /\ landing[session[c].landing].state \in {"recovering", "landed"}
        /\ session[c].base <= Len(ref)

\* The intent and its job are inserted together.
RowsPaired ==
    \A l \in Landings : landing[l].state = "absent" => job[l].state = "absent"

Typed == /\ TypeOK
         /\ ref \in Seq(Versions)
         /\ WorkersKnow /\ SessionsKnow /\ RowsPaired

\* The intent is landed exactly when its receipt is indexed.
IntentOfReceipt ==
    \A l \in Landings :
        /\ landing[l].state = "landed" <=> receipts[l] # NoCommit
        /\ landing[l].commit = receipts[l]

\* An indexed receipt is the object of its landing and is in the ref.
VersionOfReceipt ==
    \A l \in Landings : receipts[l] # NoCommit =>
        /\ receipts[l] \in LandingCommits
        /\ receipts[l].landing = l
        /\ \E v \in 1..Len(ref) : ref[v].commit = receipts[l]

\* Every landing object that is a version of the ref is the indexed one.
ReceiptOfVersion ==
    \A v \in 1..Len(ref) : LET c == ref[v].commit IN c.landing # NoLanding =>
        /\ receipts[c.landing] = c
        /\ c.landing \in ref[v].lands

\* Plans are made on versions the ref has reached.
PlansArePast ==
    \A l \in Landings : landing[l].plan # NoPlan => landing[l].plan.base <= Len(ref)

\* A change that came in below an ordinary commit is recovering for good, and
\* the ref has left the version its plan was made on.
ComesInBelow ==
    \A l \in Landings : InHistory(l) /\ receipts[l] = NoCommit =>
        /\ landing[l].state = "recovering"
        /\ landing[l].plan # NoPlan => landing[l].plan.base < Len(ref)

Ledger == /\ IntentOfReceipt /\ VersionOfReceipt /\ ReceiptOfVersion
          /\ PlansArePast /\ ComesInBelow /\ BaseFresh /\ LandedOnce

IInv == Typed /\ Ledger

-----------------------------------------------------------------------------
(* Types.                                                                  *)

\* The coordinator starts with an empty ledger: one ordinary version, no intents.
LEMMA InitTyped == Init => Typed /\ Ledger
<1> SUFFICES ASSUME Init
             PROVE  Typed /\ Ledger
  OBVIOUS
<1> USE LandingAssumption, EmptyAssumption, FreshRow DEF Init
<1>1. Plain(0) \in Commits /\ Plain(0).landing = NoLanding
  BY DEF Plain, Commits, Tags
<1>2. ref \in Seq(Versions) /\ Len(ref) = 1 /\ ref[1] = Entry(Plain(0), {})
  BY <1>1 DEF Entry, Versions
<1>3. ref[1].commit = Plain(0) /\ ref[1].lands = {}
  BY <1>2 DEF Entry
<1>4. TypeOK
  BY <1>1, <1>2 DEF TypeOK, Idle, NoSession, States, PCs, Codes, Versions
<1>5. WorkersKnow /\ SessionsKnow /\ RowsPaired
  BY <1>2 DEF WorkersKnow, Knows, SessionsKnow, RowsPaired, Idle, NoSession, NoJob
<1>6. Ledger
  BY <1>1, <1>2, <1>3
  DEF Ledger, IntentOfReceipt, VersionOfReceipt, ReceiptOfVersion, PlansArePast,
      ComesInBelow, BaseFresh, LandedOnce, InHistory
<1> QED
  BY <1>2, <1>4, <1>5, <1>6 DEF Typed

-----------------------------------------------------------------------------
(* What a step does to the goroutines.                                     *)

WorkerTurns(w) == /\ worker' \in [Workers -> WorkerRows]
                  /\ \A v \in Workers : v # w => worker'[v] = worker[v]
                  /\ Knows(worker'[w])

\* What a proof about the goroutines needs of the types.
LEMMA WorkerTypes ==
    ASSUME Typed
    PROVE  /\ worker \in [Workers -> WorkerRows]
           /\ \A w \in Workers : Knows(worker[w])
           /\ Len(ref) \in Nat
           /\ Idle \in WorkerRows
  BY DEF Typed, TypeOK, WorkerRows, WorkersKnow, Idle, PCs, Codes, States

\* The three ways a busy goroutine goes on.
LEMMA Turns ==
    ASSUME Typed, NEW w \in Workers, worker[w].pc # "idle"
    PROVE  /\ \A pc \in PCs \ {"idle", "start"} : Goto(w, pc) => WorkerTurns(w)
           /\ \A code \in Codes : Raise(w, code) => WorkerTurns(w)
           /\ Free(w) => WorkerTurns(w)
<1> USE WorkerTypes DEF WorkerTurns
<1>1. ASSUME NEW pc \in PCs \ {"idle", "start"}, Goto(w, pc)
      PROVE  WorkerTurns(w)
  BY <1>1 DEF Goto, WorkerRows, Knows
<1>2. ASSUME NEW code \in Codes, Raise(w, code)
      PROVE  WorkerTurns(w)
  BY <1>2 DEF Raise, WorkerRows, Knows, PCs
<1>3. ASSUME Free(w)
      PROVE  WorkerTurns(w)
  BY <1>3 DEF Free, Knows, Idle
<1> QED
  BY <1>1, <1>2, <1>3

\* A goroutine claims a job, goes on or is done; the others do not notice.
LEMMA WorkerSteps ==
    ASSUME Typed, [Next]_vars
    PROVE  worker' = worker \/ \E w \in Workers : WorkerTurns(w)
<1>1. ASSUME NEW w \in Workers, ClaimFinal(w)
      PROVE  worker' = worker \/ WorkerTurns(w)
  <2>1. ASSUME NEW l \in Landings,
               worker' = [worker EXCEPT
                            ![w] = [Idle EXCEPT !.pc = "read", !.landing = l,
                                        !.fence = job[l].fence + 1]]
        PROVE  WorkerTurns(w)
    <3>1. job[l].fence + 1 \in Nat
      BY DEF Typed, TypeOK, JobRow
    <3> DEFINE r == [Idle EXCEPT !.pc = "read", !.landing = l,
                                 !.fence = job[l].fence + 1]
    <3>2. r \in WorkerRows
      BY <3>1, WorkerTypes DEF WorkerRows, PCs
    <3>3. r.pc = "read" /\ r.landing = l /\ r.base = 0
      BY DEF Idle
    <3>4. worker' = [worker EXCEPT ![w] = r]
      BY <2>1
    <3> HIDE DEF r
    <3> QED
      BY <3>2, <3>3, <3>4, WorkerTypes DEF WorkerTurns, Knows
  <2> QED
    BY <1>1, <2>1 DEF ClaimFinal
<1>2. ASSUME NEW w \in Workers, ReadIntent(w)
      PROVE  WorkerTurns(w)
  <2>1. worker[w].pc # "idle"
    BY <1>2 DEF ReadIntent
  <2> DEFINE s == landing[worker[w].landing].state
  <2>2. CASE s \in {"pending", "retryable"}
    <3>1. worker' = [worker EXCEPT ![w].pc = "start", ![w].seen = s]
      BY <1>2, <2>2 DEF ReadIntent
    <3>2. /\ worker \in [Workers -> WorkerRows]
          /\ worker[w].landing \in Landings /\ worker[w].base <= Len(ref)
      BY <2>1, WorkerTypes DEF Knows
    <3> HIDE DEF s
    <3>3. PICK r : r = worker'[w]
      OBVIOUS
    <3>4. "start" \in PCs /\ s \in States /\ s \in {"pending", "retryable"}
      BY <2>2 DEF PCs, States
    <3>5. /\ r \in WorkerRows /\ r.pc = "start" /\ r.seen = s
          /\ r.landing = worker[w].landing /\ r.base = worker[w].base
      BY ONLY <3>1, <3>2, <3>3, <3>4 DEF WorkerRows
    <3>6. Knows(r)
      BY ONLY <3>2, <3>4, <3>5 DEF Knows
    <3>7. worker' = [worker EXCEPT ![w] = r]
      BY ONLY <3>1, <3>2, <3>3
    <3> QED
      BY ONLY <3>2, <3>3, <3>5, <3>6, <3>7 DEF WorkerTurns
  <2> QED
    BY <1>2, <2>1, <2>2, Turns DEF ReadIntent, PCs, Codes
<1>3. ASSUME NEW w \in Workers, StartLanding(w)
      PROVE  WorkerTurns(w)
  BY <1>3, Turns DEF StartLanding, PCs, Codes
<1>4. ASSUME NEW w \in Workers, Gather(w)
      PROVE  WorkerTurns(w)
  <2>1. ASSUME NEW b \in Nat, b = Len(ref),
               worker' = [worker EXCEPT ![w].pc = "save", ![w].base = b]
        PROVE  WorkerTurns(w)
    <3>1. worker[w].landing \in Landings
      BY <1>4, WorkerTypes DEF Gather, Knows
    <3> DEFINE r == [worker[w] EXCEPT !.pc = "save", !.base = b]
    <3>2. r \in WorkerRows
      BY WorkerTypes DEF WorkerRows, PCs
    <3>3. r.pc = "save" /\ r.landing = worker[w].landing /\ r.base = b
      BY WorkerTypes DEF WorkerRows
    <3>4. worker' = [worker EXCEPT ![w] = r]
      BY <2>1, WorkerTypes
    <3> HIDE DEF r
    <3>5. Knows(r)
      BY <2>1, <3>1, <3>3, WorkerTypes DEF Knows
    <3> QED
      BY <3>2, <3>4, <3>5, WorkerTypes DEF WorkerTurns
  <2> QED
    BY <1>4, <2>1, Turns, WorkerTypes DEF Gather, Codes
<1>5. ASSUME NEW w \in Workers,
             SavePlan(w) \/ AssignPlan(w) \/ BlockConflicts(w) \/ Publish(w)
      PROVE  WorkerTurns(w)
  BY <1>5, Turns DEF SavePlan, AssignPlan, BlockConflicts, Publish, PCs, Codes
<1>6. ASSUME NEW w \in Workers,
             AdvanceRef(w) \/ Finish(w) \/ HandleFailure(w)
      PROVE  WorkerTurns(w)
  BY <1>6, Turns DEF AdvanceRef, Finish, HandleFailure, PCs, Codes
<1>7. ASSUME NEW w \in Workers, Fault(w) \/ Abandon(w)
      PROVE  WorkerTurns(w)
  BY <1>7, Turns DEF Fault, Abandon, Codes
<1>8. ASSUME NEW w \in Workers, Crash(w)
      PROVE  WorkerTurns(w)
  <2>1. worker[w].pc # "idle"
    BY <1>8, WorkerTypes DEF Crash, Knows
  <2> QED
    BY <1>8, <2>1, Turns DEF Crash
<1>9. ASSUME \/ \E l \in Landings : ScheduleLanding(l) \/ Lapse(l) \/ FinishPreview(l)
             \/ \E c \in Clients : ClientStep(c)
             \/ Push \/ UNCHANGED vars
      PROVE  worker' = worker
  BY <1>9 DEF ScheduleLanding, Lapse, FinishPreview, ClientStep, Recover, CommitLanding,
              PushRecovery, PushDescendant, EndSession, Push, vars, durable
<1> QED
  BY <1>1, <1>2, <1>3, <1>4, <1>5, <1>6, <1>7, <1>8, <1>9
  DEF Next, WorkerStep, RunStep

-----------------------------------------------------------------------------
(* What a step does to the ledger: intents, receipts and ref.              *)

\* An intent that is neither landed nor landing now.  Only the push of its
\* recovery takes it out of "recovering", and only a run gives it a plan.
IntentMoves(l) ==
    \/ landing'[l] = landing[l]
    \/ /\ landing[l].state # "landed" /\ landing'[l].state \notin {"landed", "absent"}
       /\ landing[l].state = "recovering" => landing'[l].state = "recovering"
       /\ landing'[l].commit = landing[l].commit
       /\ \/ landing'[l].plan = landing[l].plan
          \/ /\ landing[l].state = "running"
             /\ landing'[l].plan \in PlanIds
             /\ landing'[l].plan.base <= Len(ref)

KeepsHistory == /\ UNCHANGED <<ref, receipts>>
                /\ landing' \in [Landings -> LandingRows]
                /\ \A l \in Landings : IntentMoves(l)

\* The receipt/ref transaction goes through.
LandsObject(c) == /\ receipts[c.landing] = NoCommit
                  /\ Len(ref) = c.plan.base
                  /\ landing[c.landing].plan = c.plan
                  /\ ~InHistory(c.landing)
                  /\ Advance(c)

\* An ordinary commit, with the changes that come in below it.
PushesPlain(c, lands) ==
    /\ UNCHANGED <<landing, receipts>>
    /\ ref' = Append(ref, Entry(c, lands))
    /\ \A l \in lands : ~InHistory(l) /\ landing[l].state \in {"recovering", "landed"}

\* What a proof about the rows needs of the types.
LEMMA LandingTypes ==
    ASSUME Typed
    PROVE  /\ landing \in [Landings -> LandingRows]
           /\ job \in [Landings -> JobRow]
           /\ Len(ref) \in Nat
           /\ receipts \in [Landings -> Commits \union {NoCommit}]
  BY DEF Typed, TypeOK, LandingRows

\* A step that touches neither intents, receipts nor the ref keeps the history.
LEMMA UnchangedLedger ==
    ASSUME Typed, UNCHANGED <<landing, ref, receipts>>
    PROVE  KeepsHistory
  BY LandingTypes DEF KeepsHistory, IntentMoves

\* The updates that only touch the state of one intent.
LEMMA StateSet ==
    ASSUME Typed, NEW l \in Landings, NEW s \in States \ {"landed", "absent"},
           landing[l].state # "landed",
           landing[l].state = "recovering" => s = "recovering",
           SetState(l, s), UNCHANGED <<ref, receipts>>
    PROVE  KeepsHistory
  BY LandingTypes DEF SetState, KeepsHistory, IntentMoves, LandingRows

\* CommitLandingFailure, whatever state it leaves the intent in.
LEMMA AttemptCounted ==
    ASSUME Typed, NEW l \in Landings, NEW s \in {"blocked", "retryable"},
           landing[l].state = "running", UNCHANGED <<ref, receipts>>,
           landing' = [landing EXCEPT ![l].state = s,
                                      ![l].attempts = landing[l].attempts + 1]
    PROVE  KeepsHistory
  BY LandingTypes DEF KeepsHistory, IntentMoves, LandingRows, States

\* The sweep only blocks intents that are running.
LEMMA SweepKeeps ==
    ASSUME Typed, Sweep, UNCHANGED <<ref, receipts>>
    PROVE  KeepsHistory
<1>1. ASSUME NEW l \in Landings
      PROVE  landing'[l] \in LandingRows /\ IntentMoves(l)
  <2>1. CASE SweptRunning(l)
    <3>1. landing'[l] = [landing[l] EXCEPT !.state = "blocked",
                                           !.attempts = landing[l].attempts + 1]
      BY <2>1 DEF Sweep
    <3>2. landing[l] \in LandingRows /\ landing[l].state = "running"
      BY <2>1, LandingTypes DEF SweptRunning
    <3>3. ASSUME NEW n \in Nat,
                 landing'[l] = [landing[l] EXCEPT !.state = "blocked", !.attempts = n]
          PROVE  /\ landing'[l] \in LandingRows /\ landing'[l].state = "blocked"
                 /\ landing'[l].plan = landing[l].plan
                 /\ landing'[l].commit = landing[l].commit
      BY <3>2, <3>3 DEF LandingRows, States
    <3>4. landing[l].attempts + 1 \in Nat
      BY <3>2 DEF LandingRows
    <3> QED
      BY <3>1, <3>2, <3>3, <3>4 DEF IntentMoves
  <2>2. CASE ~SweptRunning(l)
    BY <2>2, LandingTypes DEF Sweep, IntentMoves
  <2> QED
    BY <2>1, <2>2
<1>2. landing' = [l \in Landings |-> landing'[l]]
  BY DEF Sweep
<1> QED
  BY <1>1, <1>2 DEF KeepsHistory

\* What a run publishes, and what a session does.
LEMMA ObjectTypes ==
    ASSUME Typed
    PROVE  /\ \A w \in Workers : worker[w].pc # "idle" =>
                /\ PlanOf(w).id \in PlanIds /\ PlanOf(w).id.base = worker[w].base
                /\ ObjectOf(w) \in LandingCommits
                /\ ObjectOf(w).landing = worker[w].landing
                /\ ObjectOf(w).plan = PlanOf(w).id
                /\ PlanOf(w).stamp \in Nat
           /\ \A c \in Clients : session[c].pc # "none" =>
                /\ SessionCommit(c) \in LandingCommits
                /\ SessionCommit(c).landing = session[c].landing
                /\ SessionCommit(c).plan.base = session[c].base
<1>1. ASSUME NEW w \in Workers, worker[w].pc # "idle"
      PROVE  /\ PlanOf(w).id \in PlanIds /\ PlanOf(w).id.base = worker[w].base
             /\ ObjectOf(w) \in LandingCommits
             /\ ObjectOf(w).landing = worker[w].landing
             /\ ObjectOf(w).plan = PlanOf(w).id
             /\ PlanOf(w).stamp \in Nat
  <2>1. worker[w].landing \in Landings /\ worker[w].base \in Nat /\ worker[w].fence \in Nat
    BY <1>1, WorkerTypes DEF Knows, WorkerRows
  <2> QED
    BY <2>1 DEF PlanOf, AutoPlan, PlanIds, ObjectOf, Commit, LandingCommits, Tags
<1>2. ASSUME NEW c \in Clients, session[c].pc # "none"
      PROVE  /\ SessionCommit(c) \in LandingCommits
             /\ SessionCommit(c).landing = session[c].landing
             /\ SessionCommit(c).plan.base = session[c].base
  <2>1. session[c].landing \in Landings /\ session[c].base \in Nat
    BY <1>2 DEF Typed, TypeOK, SessionsKnow
  <2> QED
    BY <2>1 DEF SessionCommit, ManualPlan, PlanIds, Commit, LandingCommits, Tags
<1> QED
  BY <1>1, <1>2

\* A worker's object is indexed already, lands, or is refused.
LEMMA WorkerLands ==
    ASSUME IInv, NEW w \in Workers, AdvanceRef(w)
    PROVE  KeepsHistory \/ \E c \in LandingCommits : LandsObject(c)
<1> DEFINE c == ObjectOf(w)
           l == worker[w].landing
<1>1. /\ c \in LandingCommits /\ c \in Commits /\ c # NoCommit
      /\ c.landing = l /\ l \in Landings /\ c.plan \in PlanIds /\ c.plan # NoPlan
      /\ c.plan.base = worker[w].base
  <2>1. worker[w].pc # "idle"
    BY DEF AdvanceRef
  <2> QED
    BY <2>1, ObjectTypes, EmptyAssumption, WorkerTypes
    DEF IInv, Knows, Commits, LandingCommits
<1> HIDE DEF c
<1>2. ASSUME AlreadyIndexed(c), Converge(c)
      PROVE  UNCHANGED <<landing, ref, receipts>>
  BY <1>1, <1>2 DEF AlreadyIndexed, Converge, IInv, Ledger, IntentOfReceipt
<1>3. ASSUME MayAdvance(c, worker[w].base), Advance(c)
      PROVE  LandsObject(c)
  <2>1. receipts[l] = NoCommit /\ Len(ref) = c.plan.base /\ landing[l].plan = c.plan
    BY <1>1, <1>3 DEF MayAdvance
  <2>2. ~InHistory(l)
    BY <1>1, <2>1 DEF IInv, Ledger, ComesInBelow
  <2> QED
    BY <1>1, <1>3, <2>1, <2>2 DEF LandsObject
<1>4. \/ AlreadyIndexed(c) /\ Converge(c)
      \/ MayAdvance(c, worker[w].base) /\ Advance(c)
      \/ UNCHANGED <<landing, ref, receipts>>
  BY DEF AdvanceRef, c
<1> QED
  BY <1>1, <1>2, <1>3, <1>4, UnchangedLedger DEF IInv

\* The same for the push of a recovery session.
LEMMA SessionLands ==
    ASSUME IInv, NEW s \in Clients, PushRecovery(s)
    PROVE  KeepsHistory \/ \E c \in LandingCommits : LandsObject(c)
<1> DEFINE c == SessionCommit(s)
           l == session[s].landing
<1>1. /\ c \in LandingCommits /\ c \in Commits /\ c # NoCommit
      /\ c.landing = l /\ l \in Landings /\ c.plan.base = session[s].base
  <2>1. session[s].pc # "none" /\ session[s].landing \in Landings
    BY DEF PushRecovery, IInv, Typed, SessionsKnow
  <2> QED
    BY <2>1, ObjectTypes, EmptyAssumption DEF IInv, Commits, LandingCommits
<1> HIDE DEF c
<1>2. ASSUME AlreadyIndexed(c), Converge(c)
      PROVE  UNCHANGED <<landing, ref, receipts>>
  BY <1>1, <1>2 DEF AlreadyIndexed, Converge, IInv, Ledger, IntentOfReceipt
<1>3. ASSUME MayAdvance(c, session[s].base), Advance(c),
             PushAccepted(s) \/ AlreadyIndexed(c)
      PROVE  LandsObject(c)
  BY <1>1, <1>3 DEF MayAdvance, AlreadyIndexed, PushAccepted, LandsObject
<1>4. /\ PushAccepted(s) \/ AlreadyIndexed(c)
      /\ \/ AlreadyIndexed(c) /\ Converge(c)
         \/ MayAdvance(c, session[s].base) /\ Advance(c)
         \/ UNCHANGED <<landing, ref, receipts>>
  BY DEF PushRecovery, c
<1> QED
  BY <1>1, <1>2, <1>3, <1>4, UnchangedLedger DEF IInv

\* The step of the ledger: nothing but the receipt/ref transaction indexes a
\* receipt or lands an intent.
LEMMA LedgerSteps ==
    ASSUME IInv, [Next]_vars
    PROVE  \/ KeepsHistory
           \/ \E c \in LandingCommits : LandsObject(c)
           \/ \E c \in Commits, lands \in SUBSET Landings :
                 c.landing = NoLanding /\ PushesPlain(c, lands)
<1> USE UnchangedLedger DEF IInv
<1>1. ASSUME NEW l \in Landings, Lapse(l) \/ FinishPreview(l)
      PROVE  KeepsHistory
  BY <1>1 DEF Lapse, FinishPreview
<1>2. ASSUME NEW w \in Workers, ClaimFinal(w)
      PROVE  KeepsHistory
  BY <1>2, SweepKeeps DEF ClaimFinal
<1>3. ASSUME NEW w \in Workers,
             \/ ReadIntent(w) \/ Gather(w) \/ SavePlan(w) \/ Publish(w)
             \/ Finish(w) \/ Fault(w) \/ Abandon(w) \/ Crash(w)
      PROVE  KeepsHistory
  BY <1>3 DEF ReadIntent, Gather, SavePlan, Publish, Finish, Fault, Abandon, Crash,
              durable
<1>4. ASSUME NEW w \in Workers, StartLanding(w)
      PROVE  KeepsHistory
  <2>1. worker[w].landing \in Landings /\ worker[w].seen \in {"pending", "retryable"}
    BY <1>4, WorkerTypes DEF StartLanding, Knows
  <2> QED
    BY <1>4, <2>1, StateSet DEF StartLanding, States
<1>5. ASSUME NEW w \in Workers, AssignPlan(w)
      PROVE  KeepsHistory
  <2> DEFINE l == worker[w].landing
             p == PlanOf(w).id
  <2>1. l \in Landings /\ p \in PlanIds /\ p.base <= Len(ref)
    BY <1>5, WorkerTypes, ObjectTypes DEF AssignPlan, Knows
  <2>2. CASE landing[l].state = "running"
    <3>1. landing' = [landing EXCEPT ![l].plan = p] /\ UNCHANGED <<ref, receipts>>
      BY <1>5, <2>2 DEF AssignPlan
    <3> HIDE DEF p, l
    <3> QED
      BY <2>1, <2>2, <3>1, LandingTypes DEF KeepsHistory, IntentMoves, LandingRows
  <2> QED
    BY <1>5, <2>2 DEF AssignPlan
<1>6. ASSUME NEW w \in Workers, BlockConflicts(w) \/ HandleFailure(w)
      PROVE  KeepsHistory
  <2> DEFINE l == worker[w].landing
  <2>1. l \in Landings /\ UNCHANGED <<ref, receipts>>
    BY <1>6, WorkerTypes DEF BlockConflicts, HandleFailure, Knows
  <2>2. CASE UNCHANGED landing
    BY <2>1, <2>2
  <2>3. CASE CanBlock(w) /\ BlockedCommit(w)
    BY <2>1, <2>3, StateSet DEF CanBlock, BlockedCommit, States
  <2>4. CASE CanBlock(w) /\ RecordFailure(w)
    BY <2>1, <2>4, AttemptCounted DEF CanBlock, RecordFailure
  <2> QED
    BY <1>6, <2>2, <2>3, <2>4 DEF BlockConflicts, HandleFailure, FailOnly
<1>7. ASSUME Push
      PROVE  \E c \in Commits, lands \in SUBSET Landings :
                 c.landing = NoLanding /\ PushesPlain(c, lands)
  <2>1. Plain(Len(ref)) \in Commits /\ Plain(Len(ref)).landing = NoLanding
    BY LandingTypes DEF Plain, Commits, Tags
  <2>2. PushesPlain(Plain(Len(ref)), {})
    BY <1>7 DEF Push, PushesPlain
  <2> QED
    BY <2>1, <2>2
<1>8. ASSUME NEW s \in Clients, CommitLanding(s) \/ EndSession(s)
      PROVE  KeepsHistory
  BY <1>8 DEF CommitLanding, EndSession, durable
<1>9. ASSUME NEW s \in Clients, NEW l \in Landings, Recover(s, l)
      PROVE  KeepsHistory
  BY <1>9, StateSet DEF Recover, States
<1>10. ASSUME NEW s \in Clients, PushDescendant(s)
       PROVE  \E c \in Commits, lands \in SUBSET Landings :
                 c.landing = NoLanding /\ PushesPlain(c, lands)
  <2>1. Plain(s) \in Commits /\ Plain(s).landing = NoLanding
    BY DEF Plain, Commits, Tags
  <2>2. /\ session[s].landing \in Landings /\ ~InHistory(session[s].landing)
        /\ landing[session[s].landing].state \in {"recovering", "landed"}
    BY <1>10 DEF PushDescendant, PushAccepted, Typed, SessionsKnow
  <2>3. PushesPlain(Plain(s), {session[s].landing})
    BY <1>10, <2>2 DEF PushDescendant, PushesPlain
  <2> QED
    BY <2>1, <2>2, <2>3
<1>11. CASE UNCHANGED vars
  BY <1>11 DEF vars, durable
<1>12. ASSUME NEW l \in Landings, ScheduleLanding(l)
       PROVE  KeepsHistory
  BY <1>12, StateSet DEF ScheduleLanding, States
<1> QED
  BY <1>1, <1>2, <1>3, <1>4, <1>5, <1>6, <1>7, <1>8, <1>9, <1>10, <1>11, <1>12,
     WorkerLands, SessionLands
  DEF Next, WorkerStep, RunStep, ClientStep

-----------------------------------------------------------------------------
(* What a step does to the jobs and to the rest of the database.           *)

JobsMove == /\ job' \in [Landings -> JobRow]
            /\ \A l \in Landings : job[l].state = "absent" => job'[l].state = "absent"

\* A worker settles the row it holds, or leaves it to the one who does.
LEMMA RowSettled ==
    ASSUME Typed, NEW w \in Workers, worker[w].pc # "idle",
           NEW row, LET l == worker[w].landing IN
             /\ row \in {Completed(job[l]), FailedOnce(job[l]), Rejected(job[l]),
                         Abandoned(job[l])}
             /\ \/ HoldsJob(w) /\ SetJob(l, row)
                \/ SetJob(l, IF HoldsJob(w) THEN row ELSE job[l])
    PROVE  JobsMove
<1> DEFINE l == worker[w].landing
<1>1. l \in Landings /\ job \in [Landings -> JobRow]
  BY WorkerTypes, LandingTypes DEF Knows
<1>2. ASSUME HoldsJob(w), SetJob(l, row)
      PROVE  JobsMove
  <2>1. job[l] \in JobRow /\ job[l].state = "running"
    BY <1>1, <1>2 DEF HoldsJob, Holds
  <2>2. row \in JobRow
    BY <2>1, SettledIsRow
  <2> HIDE DEF l
  <2> QED
    BY <1>1, <1>2, <2>1, <2>2 DEF SetJob, JobsMove
<1>3. ASSUME SetJob(l, job[l])
      PROVE  JobsMove
  BY <1>1, <1>3 DEF SetJob, JobsMove
<1> QED
  BY <1>2, <1>3

\* Every step but the first scheduling of a landing moves rows that exist.
LEMMA JobSteps ==
    ASSUME Typed, [Next]_vars
    PROVE  JobsMove \/ \E l \in Landings : ScheduleLanding(l)
<1>1. ASSUME UNCHANGED job
      PROVE  JobsMove
  BY <1>1, LandingTypes DEF JobsMove
<1>2. ASSUME NEW w \in Workers, ClaimFinal(w)
      PROVE  JobsMove
  <2>1. ASSUME NEW l \in Landings
        PROVE  /\ SweptJob(l) \in JobRow
               /\ job[l].state = "absent" => SweptJob(l).state = "absent"
    <3>1. job[l] \in JobRow
      BY LandingTypes
    <3>2. CASE Exhausted(job[l])
      <4>1. job[l].state = "running"
        BY <3>2 DEF Exhausted
      <4> QED
        BY <3>1, <4>1, SettledIsRow DEF SweptJob
    <3>3. CASE ~Exhausted(job[l])
      BY <3>1, <3>3 DEF SweptJob
    <3> QED
      BY <3>2, <3>3
  <2>2. ASSUME NEW l \in Landings, Claimable(job[l]),
               job' = [k \in Landings |->
                         IF k = l THEN Leased(job[l], w) ELSE SweptJob(k)]
        PROVE  JobsMove
    <3>1. job[l] \in JobRow
      BY LandingTypes
    <3>2. Leased(job[l], w) \in JobRow /\ job[l].state # "absent"
      BY <2>2, <3>1, LeasedRow DEF Claimable, Waiting
    <3> QED
      BY <2>1, <2>2, <3>2 DEF JobsMove
  <2>3. ASSUME job' = [l \in Landings |-> SweptJob(l)]
        PROVE  JobsMove
    BY <2>1, <2>3 DEF JobsMove
  <2> QED
    BY <1>2, <2>2, <2>3 DEF ClaimFinal
<1>3. ASSUME NEW w \in Workers, ReadIntent(w) \/ Finish(w) \/ Abandon(w)
      PROVE  JobsMove
  BY <1>1, <1>3, RowSettled DEF ReadIntent, Finish, Abandon
<1>4. ASSUME NEW w \in Workers, BlockConflicts(w) \/ HandleFailure(w)
      PROVE  JobsMove
  BY <1>1, <1>4, RowSettled
  DEF BlockConflicts, HandleFailure, BlockedCommit, RecordFailure, FailOnly, CanBlock
<1>5. ASSUME NEW l \in Landings, Lapse(l)
      PROVE  JobsMove
  BY <1>5, LandingTypes, LapsedRow DEF Lapse, SetJob, JobsMove, Lapsed
<1>6. ASSUME NEW w \in Workers,
             \/ StartLanding(w) \/ Gather(w) \/ SavePlan(w) \/ AssignPlan(w)
             \/ Publish(w) \/ AdvanceRef(w) \/ Fault(w) \/ Crash(w)
      PROVE  UNCHANGED job
  BY <1>6 DEF StartLanding, Gather, SavePlan, AssignPlan, Publish, AdvanceRef, Fault,
              Crash, durable
<1>7. ASSUME \/ \E l \in Landings : FinishPreview(l)
             \/ \E c \in Clients : ClientStep(c)
             \/ Push \/ UNCHANGED vars
      PROVE  UNCHANGED job
  BY <1>7 DEF FinishPreview, ClientStep, Recover, CommitLanding, PushRecovery,
              PushDescendant, EndSession, Push, vars, durable
<1> QED
  BY <1>1, <1>2, <1>3, <1>4, <1>5, <1>6, <1>7 DEF Next, WorkerStep, RunStep

\* The sessions of the clones.
LEMMA SessionSteps ==
    ASSUME Typed, [Next]_vars
    PROVE  /\ session' \in [Clients -> SessionRows]
           /\ \A c \in Clients : session'[c].pc # "none" =>
                \/ session[c].pc # "none" /\ session'[c].landing = session[c].landing
                                         /\ session'[c].base = session[c].base
                \/ /\ session'[c].landing \in Landings
                   /\ session'[c].base = Len(ref)
                   /\ landing'[session'[c].landing].state = "recovering"
<1>1. session \in [Clients -> SessionRows] /\ NoSession \in SessionRows
  BY DEF Typed, TypeOK, SessionRows, NoSession
<1>2. CASE UNCHANGED session
  BY <1>1, <1>2
<1>3. ASSUME NEW c \in Clients, PushDescendant(c) \/ EndSession(c)
      PROVE  session' = [session EXCEPT ![c] = NoSession]
  BY <1>3 DEF PushDescendant, EndSession
<1>4. ASSUME NEW c \in Clients, session' = [session EXCEPT ![c] = NoSession]
      PROVE  /\ session' \in [Clients -> SessionRows]
             /\ session'[c].pc = "none"
             /\ \A k \in Clients : k # c => session'[k] = session[k]
  BY <1>1, <1>4 DEF NoSession
<1>5. ASSUME NEW c \in Clients, CommitLanding(c)
      PROVE  /\ session' \in [Clients -> SessionRows]
             /\ session[c].pc # "none" /\ session'[c].landing = session[c].landing
             /\ session'[c].base = session[c].base
             /\ \A k \in Clients : k # c => session'[k] = session[k]
  BY <1>1, <1>5 DEF CommitLanding, SessionRows
<1>6. ASSUME NEW c \in Clients, NEW l \in Landings, Recover(c, l), session' # session
      PROVE  /\ session' \in [Clients -> SessionRows]
             /\ session'[c].landing = l /\ session'[c].base = Len(ref)
             /\ landing'[l].state = "recovering"
             /\ \A k \in Clients : k # c => session'[k] = session[k]
  <2>1. ASSUME NEW r, r = [pc |-> "ready", landing |-> l, base |-> Len(ref)]
        PROVE  r \in SessionRows /\ r.landing = l /\ r.base = Len(ref)
    BY <2>1, LandingTypes DEF SessionRows
  <2>2. session' = [session EXCEPT ![c] = [pc |-> "ready", landing |-> l,
                                           base |-> Len(ref)]]
    BY <1>6 DEF Recover
  <2>3. landing'[l].state = "recovering"
    BY <1>6, LandingTypes DEF Recover, SetState, LandingRows
  <2> QED
    BY <1>1, <2>1, <2>2, <2>3
<1>7. ASSUME \/ \E l \in Landings : ScheduleLanding(l) \/ Lapse(l) \/ FinishPreview(l)
             \/ \E w \in Workers : WorkerStep(w)
             \/ Push \/ \E c \in Clients : PushRecovery(c)
             \/ UNCHANGED vars
      PROVE  UNCHANGED session
  BY <1>7 DEF ScheduleLanding, Lapse, FinishPreview, WorkerStep, RunStep, ClaimFinal,
      ReadIntent, StartLanding, Gather, SavePlan, AssignPlan, BlockConflicts,
      Publish, AdvanceRef, Finish, HandleFailure, Fault, Abandon, Crash, Push,
      PushRecovery, vars
<1> QED
  BY <1>1, <1>2, <1>3, <1>4, <1>5, <1>6, <1>7 DEF Next, ClientStep

\* Plans, objects, checks and the preview flags keep their types.
LEMMA DataSteps ==
    ASSUME IInv, [Next]_vars
    PROVE  /\ \A p \in plans' : p \in [id : PlanIds, stamp : Nat]
           /\ \A c \in objects' : c \in Commits
           /\ check' \in [Landings -> {"none", "planning", "ready", "blocked", "landed"}]
           /\ preview' \in [Landings -> BOOLEAN]
<1>1. /\ \A p \in plans : p \in [id : PlanIds, stamp : Nat]
      /\ \A c \in objects : c \in Commits
      /\ check \in [Landings -> {"none", "planning", "ready", "blocked", "landed"}]
      /\ preview \in [Landings -> BOOLEAN]
      /\ Typed
  BY DEF IInv, Typed, TypeOK
<1>2. \A p \in plans' : p \in [id : PlanIds, stamp : Nat]
  <2>1. ASSUME NEW w \in Workers, SavePlan(w)
        PROVE  \A p \in plans' : p \in [id : PlanIds, stamp : Nat]
    <3>1. PlanOf(w) \in [id : PlanIds, stamp : Nat]
      <4>1. PlanOf(w).id \in PlanIds /\ PlanOf(w).stamp \in Nat
        BY <1>1, <2>1, ObjectTypes DEF SavePlan
      <4> QED
        BY <4>1 DEF PlanOf
    <3> QED
      BY <1>1, <2>1, <3>1 DEF SavePlan
  <2>2. UNCHANGED plans \/ \E w \in Workers : SavePlan(w)
    BY DEF Next, ScheduleLanding, Lapse, FinishPreview, WorkerStep, RunStep, ClaimFinal,
      ReadIntent, StartLanding, Gather, AssignPlan, BlockConflicts, Publish,
      AdvanceRef, Finish, HandleFailure, Fault, Abandon, Crash, Push, ClientStep,
      CommitLanding, PushDescendant, EndSession, Recover, PushRecovery, vars, durable
  <2> QED
    BY <1>1, <2>1, <2>2
<1>3. \A c \in objects' : c \in Commits
  <2>1. ASSUME NEW w \in Workers, Publish(w)
        PROVE  objects' = objects \union {ObjectOf(w)} /\ ObjectOf(w) \in Commits
    BY <1>1, <2>1, ObjectTypes DEF Publish, LandingCommits, Commits
  <2>2. ASSUME Push
        PROVE  objects' = objects \union {Plain(Len(ref))} /\ Plain(Len(ref)) \in Commits
    BY <1>1, <2>2, LandingTypes DEF Push, Plain, Commits, Tags
  <2>3. ASSUME NEW c \in Clients, PushRecovery(c) \/ PushDescendant(c)
        PROVE  /\ objects' \subseteq objects \union {SessionCommit(c), Plain(c)}
               /\ SessionCommit(c) \in Commits /\ Plain(c) \in Commits
    <3>1. SessionCommit(c) \in Commits
      BY <1>1, <2>3, ObjectTypes DEF PushRecovery, PushDescendant, LandingCommits, Commits
    <3>2. Plain(c) \in Commits
      BY DEF Plain, Commits, Tags
    <3> QED
      BY <2>3, <3>1, <3>2 DEF PushRecovery, PushDescendant
  <2>4. \/ UNCHANGED objects
        \/ \E w \in Workers : Publish(w)
        \/ Push
        \/ \E c \in Clients : PushRecovery(c) \/ PushDescendant(c)
    BY DEF Next, ScheduleLanding, Lapse, FinishPreview, WorkerStep, RunStep, ClaimFinal,
      ReadIntent, StartLanding, Gather, SavePlan, AssignPlan, BlockConflicts,
      AdvanceRef, Finish, HandleFailure, Fault, Abandon, Crash, ClientStep,
      CommitLanding, EndSession, Recover, vars, durable
  <2> QED
    BY <1>1, <2>1, <2>2, <2>3, <2>4
<1>4. check' \in [Landings -> {"none", "planning", "ready", "blocked", "landed"}]
  <2>1. ASSUME Sweep
        PROVE  check' \in [Landings -> {"none", "planning", "ready", "blocked", "landed"}]
    BY <1>1, <2>1 DEF Sweep
  <2>2. \/ UNCHANGED check
        \/ Sweep
        \/ \E l : check' = [check EXCEPT ![l] = "blocked"]
        \/ \E l : check' = [check EXCEPT ![l] = "landed"]
        \/ \E l : check' = [check EXCEPT ![l] = "planning"]
        \/ \E l : check' = [check EXCEPT ![l] = "ready"]
    <3>1. ASSUME NEW w \in Workers, AdvanceRef(w)
          PROVE  UNCHANGED check \/ \E l : check' = [check EXCEPT ![l] = "landed"]
      BY <3>1 DEF AdvanceRef
    <3>2. ASSUME NEW w \in Workers, BlockConflicts(w) \/ HandleFailure(w)
          PROVE  UNCHANGED check \/ \E l : check' = [check EXCEPT ![l] = "blocked"]
      BY <3>2 DEF BlockConflicts, HandleFailure, BlockedCommit, RecordFailure, FailOnly
    <3>3. ASSUME NEW l \in Landings, ScheduleLanding(l) \/ FinishPreview(l)
          PROVE  \/ \E k : check' = [check EXCEPT ![k] = "planning"]
                 \/ \E k : check' = [check EXCEPT ![k] = "ready"]
      BY <3>3 DEF ScheduleLanding, FinishPreview
    <3> QED
      BY <3>1, <3>2, <3>3 DEF Next, Lapse, WorkerStep, RunStep, ClaimFinal,
        ReadIntent, StartLanding, Gather, SavePlan, AssignPlan, Publish,
        Finish, Fault, Abandon, Crash, ClientStep, Push,
        CommitLanding, EndSession, Recover, PushRecovery, PushDescendant, vars, durable
  <2> QED
    BY <1>1, <2>1, <2>2
<1>5. preview' \in [Landings -> BOOLEAN]
  <2>1. ASSUME NEW l \in Landings, FinishPreview(l)
        PROVE  preview' \in [Landings -> BOOLEAN]
    BY <1>1, <2>1 DEF FinishPreview
  <2>2. UNCHANGED preview \/ \E l \in Landings : FinishPreview(l)
    BY DEF Next, ScheduleLanding, Lapse, WorkerStep, RunStep, ClaimFinal,
      ReadIntent, StartLanding, Gather, SavePlan, AssignPlan, BlockConflicts, Publish,
      AdvanceRef, Finish, HandleFailure, Fault, Abandon, Crash, Push, ClientStep,
      CommitLanding, PushDescendant, EndSession, Recover, PushRecovery, vars, durable
  <2> QED
    BY <1>1, <2>1, <2>2
<1> QED
  BY <1>2, <1>3, <1>4, <1>5

-----------------------------------------------------------------------------
(* The invariant, by the kind of step.                                     *)

\* What the ref points at, version by version.
LEMMA VersionTypes ==
    ASSUME Typed, NEW v \in 1..Len(ref)
    PROVE  /\ ref[v].commit \in Commits
           /\ ref[v].commit.landing # NoLanding =>
                /\ ref[v].commit \in LandingCommits /\ ref[v].commit # NoCommit
                /\ ref[v].commit.landing \in Landings
                /\ ref[v].commit.plan \in PlanIds
<1>1. ref[v] \in Versions
  BY DEF Typed
<1>2. ref[v].commit \in Commits
  BY <1>1 DEF Versions
<1> QED
  BY <1>2, EmptyAssumption DEF Commits, LandingCommits

\* The ref grows by the commit of the step.
LEMMA Appended ==
    ASSUME Typed, NEW c \in Commits, NEW lands \in SUBSET Landings,
           ref' = Append(ref, Entry(c, lands))
    PROVE  /\ ref' \in Seq(Versions) /\ Len(ref') = Len(ref) + 1
           /\ \A v \in 1..Len(ref) : ref'[v] = ref[v]
           /\ ref'[Len(ref) + 1].commit = c /\ ref'[Len(ref) + 1].lands = lands
           /\ \A l \in Landings : InHistory(l)' <=> InHistory(l) \/ l \in lands
<1>1. ref \in Seq(Versions) /\ Entry(c, lands) \in Versions
  BY DEF Typed, Entry, Versions
<1>2. /\ ref' \in Seq(Versions) /\ Len(ref') = Len(ref) + 1
      /\ \A v \in 1..Len(ref) : ref'[v] = ref[v]
      /\ ref'[Len(ref) + 1] = Entry(c, lands)
  BY <1>1
<1>3. ref'[Len(ref) + 1].commit = c /\ ref'[Len(ref) + 1].lands = lands
  BY <1>2 DEF Entry
<1>4. 1..Len(ref') = 1..Len(ref) \union {Len(ref) + 1}
  BY <1>1, <1>2
<1>5. ASSUME NEW l \in Landings
      PROVE  InHistory(l)' <=> InHistory(l) \/ l \in lands
  BY <1>2, <1>3, <1>4 DEF InHistory
<1> QED
  BY <1>2, <1>3, <1>5

\* Nothing lands: the receipts still name the same versions of the same ref.
LEMMA KeepsLedger ==
    ASSUME IInv, KeepsHistory
    PROVE  Ledger'
<1> USE DEF IInv, Ledger
<1>1. /\ ref' = ref /\ receipts' = receipts
      /\ \A l \in Landings : IntentMoves(l)
      /\ \A l \in Landings : landing[l] \in LandingRows
      /\ Len(ref) \in Nat
  BY LandingTypes DEF KeepsHistory
<1>2. \A l \in Landings : receipts[l] # NoCommit => landing'[l] = landing[l]
  BY <1>1 DEF IntentMoves, IntentOfReceipt
<1>3. IntentOfReceipt'
  BY <1>1 DEF IntentMoves, IntentOfReceipt
<1>4. VersionOfReceipt' /\ ReceiptOfVersion' /\ LandedOnce'
  BY <1>1 DEF VersionOfReceipt, ReceiptOfVersion, LandedOnce
<1>5. PlansArePast'
  BY <1>1 DEF IntentMoves, PlansArePast
<1>6. ComesInBelow'
  BY <1>1 DEF IntentMoves, ComesInBelow, InHistory
<1>7. BaseFresh'
  <2> SUFFICES ASSUME NEW v \in 1..Len(ref), ref[v].commit.landing # NoLanding
               PROVE  /\ ref[v].commit.plan.base = v - 1
                      /\ landing'[ref[v].commit.landing].plan = ref[v].commit.plan
    BY <1>1 DEF BaseFresh
  <2> DEFINE c == ref[v].commit
  <2>1. c.landing \in Landings /\ c # NoCommit
    BY VersionTypes
  <2>2. landing'[c.landing] = landing[c.landing]
    BY <1>2, <2>1 DEF ReceiptOfVersion
  <2> QED
    BY <2>2 DEF BaseFresh
<1> QED
  BY <1>3, <1>4, <1>5, <1>6, <1>7

\* A landing lands: the new version is the only one that carries the change.
LEMMA LandsLedger ==
    ASSUME IInv, NEW c \in LandingCommits, LandsObject(c)
    PROVE  Ledger'
<1> USE DEF IInv, Ledger
<1> DEFINE k == c.landing
           n == Len(ref) + 1
<1>1. /\ k \in Landings /\ c \in Commits /\ c # NoCommit /\ c.plan \in PlanIds
      /\ c.plan # NoPlan
  BY EmptyAssumption DEF LandingCommits, Commits
<1>2. /\ receipts' = [receipts EXCEPT ![k] = c]
      /\ landing' = [landing EXCEPT ![k].state = "landed", ![k].plan = c.plan,
                                    ![k].commit = c]
      /\ ref' = Append(ref, Entry(c, {k}))
  BY DEF LandsObject, Advance, Land
<1>3. /\ landing'[k].state = "landed" /\ landing'[k].plan = c.plan
      /\ landing'[k].commit = c
      /\ receipts'[k] = c /\ receipts[k] = NoCommit
      /\ \A l \in Landings : l # k => landing'[l] = landing[l] /\ receipts'[l] = receipts[l]
  BY <1>1, <1>2, LandingTypes DEF LandsObject, LandingRows
<1>4. /\ Len(ref') = n /\ n \in Nat /\ Len(ref) \in Nat
      /\ \A v \in 1..Len(ref) : ref'[v] = ref[v]
      /\ ref'[n].commit = c /\ ref'[n].lands = {k}
      /\ \A l \in Landings : InHistory(l)' <=> InHistory(l) \/ l = k
  <2>1. PICK lands \in SUBSET Landings : lands = {k}
    BY <1>1
  <2>2. ref' = Append(ref, Entry(c, lands))
    BY <1>2, <2>1
  <2>3. /\ Len(ref') = n
        /\ \A v \in 1..Len(ref) : ref'[v] = ref[v]
        /\ ref'[n].commit = c /\ ref'[n].lands = lands
        /\ \A l \in Landings : InHistory(l)' <=> InHistory(l) \/ l \in lands
    BY <1>1, <2>2, Appended
  <2> QED
    BY <2>1, <2>3, LandingTypes
<1>5. ~InHistory(k) /\ c.plan.base = n - 1
  BY <1>4 DEF LandsObject
<1>6. \A v \in 1..Len(ref) : ref[v].commit.landing # k /\ k \notin ref[v].lands
  BY <1>1, <1>5, LandingAssumption DEF ReceiptOfVersion, InHistory
<1> HIDE DEF k, n
<1>7. IntentOfReceipt'
  BY <1>1, <1>3 DEF IntentOfReceipt
<1>8. VersionOfReceipt'
  <2>1. c.landing = k /\ n \in 1..Len(ref')
    BY <1>4 DEF k, n
  <2>2. ASSUME NEW l \in Landings, l # k, receipts[l] # NoCommit
        PROVE  \E v \in 1..Len(ref') : ref'[v].commit = receipts[l]
    <3>1. PICK v \in 1..Len(ref) : ref[v].commit = receipts[l]
      BY <2>2 DEF VersionOfReceipt
    <3> QED
      BY <1>4, <3>1 DEF n
  <2> QED
    BY <1>3, <1>4, <2>1, <2>2 DEF VersionOfReceipt
<1>9. ASSUME NEW v \in 1..Len(ref')
      PROVE  v \in 1..Len(ref) \/ v = n
  BY <1>4 DEF n
<1>10. ReceiptOfVersion' /\ BaseFresh'
  <2> SUFFICES ASSUME NEW v \in 1..Len(ref'), ref'[v].commit.landing # NoLanding
               PROVE  LET d == ref'[v].commit IN
                      /\ receipts'[d.landing] = d /\ d.landing \in ref'[v].lands
                      /\ d.plan.base = v - 1 /\ landing'[d.landing].plan = d.plan
    BY DEF ReceiptOfVersion, BaseFresh
  <2>1. CASE v = n
    BY <1>3, <1>4, <1>5, <2>1 DEF k
  <2>2. CASE v \in 1..Len(ref)
    <3>1. ref'[v] = ref[v] /\ ref[v].commit.landing \in Landings
      BY <1>4, <2>2, VersionTypes
    <3> QED
      BY <1>3, <1>6, <2>2, <3>1 DEF ReceiptOfVersion, BaseFresh
  <2> QED
    BY <1>9, <2>1, <2>2
<1>11. PlansArePast'
  BY <1>3, <1>4, <1>5, LandingTypes DEF PlansArePast, LandingRows, PlanIds, n
<1>12. ComesInBelow'
  BY <1>1, <1>3, <1>4, LandingTypes DEF ComesInBelow, LandingRows, PlanIds, n
<1>13. LandedOnce'
  <2> SUFFICES ASSUME NEW u \in 1..Len(ref'), NEW v \in 1..Len(ref'), u # v
               PROVE  ref'[u].lands \cap ref'[v].lands = {}
    BY DEF LandedOnce
  <2> QED
    BY <1>4, <1>6, <1>9 DEF LandedOnce
<1> QED
  BY <1>7, <1>8, <1>10, <1>11, <1>12, <1>13

\* An ordinary commit, and whatever comes in below it, names no receipt.
LEMMA PushesLedger ==
    ASSUME IInv, NEW c \in Commits, NEW lands \in SUBSET Landings,
           c.landing = NoLanding, PushesPlain(c, lands)
    PROVE  Ledger'
<1> USE DEF IInv, Ledger
<1> DEFINE n == Len(ref) + 1
<1>1. /\ landing' = landing /\ receipts' = receipts
      /\ \A l \in lands : ~InHistory(l) /\ landing[l].state \in {"recovering", "landed"}
  BY DEF PushesPlain
<1>2. /\ Len(ref') = n /\ n \in Nat /\ Len(ref) \in Nat /\ n > Len(ref)
      /\ \A v \in 1..Len(ref) : ref'[v] = ref[v]
      /\ ref'[n].commit = c /\ ref'[n].lands = lands
      /\ \A l \in Landings : InHistory(l)' <=> InHistory(l) \/ l \in lands
  BY Appended, LandingTypes DEF PushesPlain
<1>3. \A v \in 1..Len(ref) : ref[v].lands \cap lands = {}
  BY <1>1 DEF InHistory
<1> HIDE DEF n
<1>4. ASSUME NEW v \in 1..Len(ref')
      PROVE  v \in 1..Len(ref) \/ v = n
  BY <1>2 DEF n
<1>5. IntentOfReceipt'
  BY <1>1 DEF IntentOfReceipt
<1>6. VersionOfReceipt'
  <2>1. 1..Len(ref) \subseteq 1..Len(ref')
    BY <1>2 DEF n
  <2> QED
    BY <1>1, <1>2, <2>1 DEF VersionOfReceipt
<1>7. ReceiptOfVersion' /\ BaseFresh'
  BY <1>1, <1>2, <1>4 DEF ReceiptOfVersion, BaseFresh
<1>8. \A l \in Landings : landing[l].plan # NoPlan =>
          landing[l].plan.base \in Nat /\ landing[l].plan.base <= Len(ref)
  BY LandingTypes DEF PlansArePast, LandingRows, PlanIds
<1>9. PlansArePast'
  BY <1>1, <1>2, <1>8 DEF PlansArePast
<1>10. ComesInBelow'
  BY <1>1, <1>2, <1>8 DEF ComesInBelow, IntentOfReceipt
<1>11. LandedOnce'
  <2> SUFFICES ASSUME NEW u \in 1..Len(ref'), NEW v \in 1..Len(ref'), u # v
               PROVE  ref'[u].lands \cap ref'[v].lands = {}
    BY DEF LandedOnce
  <2> QED
    BY <1>2, <1>3, <1>4 DEF LandedOnce
<1> QED
  BY <1>5, <1>6, <1>7, <1>9, <1>10, <1>11

\* Every step keeps the rows, claims and sessions well formed.
LEMMA NextTyped ==
    ASSUME IInv, [Next]_vars
    PROVE  Typed'
<1> DEFINE Lands == \E c \in LandingCommits : LandsObject(c)
           Pushes == \E c \in Commits, lands \in SUBSET Landings :
                        c.landing = NoLanding /\ PushesPlain(c, lands)
           Grown ==
             /\ landing' \in [Landings -> LandingRows]
             /\ receipts' \in [Landings -> Commits \union {NoCommit}]
             /\ ref' \in Seq(Versions) /\ Len(ref) \in Nat /\ Len(ref') \in Nat
             /\ Len(ref) <= Len(ref')
             /\ \A l \in Landings :
                   /\ landing'[l].state = "absent" => landing[l].state = "absent"
                   /\ landing[l].state \in {"recovering", "landed"} =>
                           landing'[l].state \in {"recovering", "landed"}
<1>1. KeepsHistory \/ Lands \/ Pushes
  BY LedgerSteps
<1>2. Typed
  BY DEF IInv
\* The ledger's own rows.
<1>3. Grown
  <2>1. CASE KeepsHistory
    <3>1. ref' = ref /\ receipts' = receipts /\ ref \in Seq(Versions)
      BY <1>2, <2>1 DEF KeepsHistory, Typed
    <3> QED
      BY <1>2, <2>1, <3>1, LandingTypes DEF KeepsHistory, IntentMoves
  <2>2. ASSUME NEW c \in LandingCommits, LandsObject(c)
        PROVE  Grown
    <3>1. c.landing \in Landings /\ c \in Commits /\ c.plan \in PlanIds
      BY DEF LandingCommits, Commits
    <3>2. PICK lands \in SUBSET Landings : lands = {c.landing}
      BY <3>1
    <3>3. ref' = Append(ref, Entry(c, lands))
      BY <2>2, <3>2 DEF LandsObject, Advance
    <3>4. ref' \in Seq(Versions) /\ Len(ref') = Len(ref) + 1
      BY <1>2, <3>1, <3>3, Appended
    <3>5. receipts' \in [Landings -> Commits \union {NoCommit}]
      BY <1>2, <2>2, <3>1, LandingTypes DEF LandsObject, Advance
    <3>6. /\ landing' \in [Landings -> LandingRows]
          /\ landing'[c.landing].state = "landed"
          /\ \A l \in Landings : l # c.landing => landing'[l] = landing[l]
      <4>1. PICK k \in Landings, p \in PlanIds, o \in Commits :
              /\ k = c.landing /\ p = c.plan /\ o = c
        BY <3>1
      <4>2. landing' = [landing EXCEPT ![k].state = "landed", ![k].plan = p,
                                       ![k].commit = o]
        BY <2>2, <4>1 DEF LandsObject, Advance, Land
      <4>3. landing \in [Landings -> LandingRows] /\ "landed" \in States
        BY <1>2, LandingTypes DEF States
      <4> DEFINE q == [landing[k] EXCEPT !.state = "landed", !.plan = p, !.commit = o]
      <4>4. q \in LandingRows /\ q.state = "landed"
        BY <4>3 DEF LandingRows
      <4>5. landing' = [landing EXCEPT ![k] = q]
        BY <4>2, <4>3
      <4> HIDE DEF q
      <4> QED
        BY <4>1, <4>3, <4>4, <4>5
    <3> QED
      BY <1>2, <3>4, <3>5, <3>6, LandingTypes
  <2>3. ASSUME NEW c \in Commits, NEW lands \in SUBSET Landings, PushesPlain(c, lands)
        PROVE  Grown
    <3>1. /\ ref' = Append(ref, Entry(c, lands))
          /\ landing' = landing /\ receipts' = receipts
      BY <2>3 DEF PushesPlain
    <3>2. ref' \in Seq(Versions) /\ Len(ref') = Len(ref) + 1
      BY <1>2, <3>1, Appended
    <3> QED
      BY <1>2, <3>1, <3>2, LandingTypes
  <2> QED
    BY <1>1, <2>1, <2>2, <2>3
<1>4. job' \in [Landings -> JobRow] /\ RowsPaired'
  <2>1. CASE JobsMove
    BY <1>2, <1>3, <2>1 DEF JobsMove, RowsPaired, Typed
  <2>2. ASSUME NEW l \in Landings, ScheduleLanding(l)
        PROVE  job' \in [Landings -> JobRow] /\ RowsPaired'
    <3>1. job' = [job EXCEPT ![l] = NewJob] /\ landing'[l].state = "pending"
      BY <1>2, <2>2, LandingTypes DEF ScheduleLanding, SetJob, SetState, LandingRows
    <3> QED
      BY <1>2, <1>3, <3>1, LandingTypes, FreshRow DEF RowsPaired, Typed
  <2> QED
    BY <1>2, <2>1, <2>2, JobSteps
<1>5. worker' \in [Workers -> WorkerRows] /\ WorkersKnow'
  <2>1. \A r \in WorkerRows : Knows(r) =>
          /\ r.pc = "idle" => r = Idle
          /\ r.pc # "idle" => r.landing \in Landings
          /\ r.pc = "start" => r.seen \in {"pending", "retryable"}
          /\ r.base <= Len(ref')
    BY <1>3 DEF Knows, WorkerRows
  <2>2. worker' \in [Workers -> WorkerRows] /\ \A w \in Workers : Knows(worker'[w])
    BY <1>2, WorkerSteps, WorkerTypes DEF WorkerTurns
  <2> QED
    BY <2>1, <2>2 DEF WorkersKnow, Knows
<1>6. session' \in [Clients -> SessionRows] /\ SessionsKnow'
  <2>1. session' \in [Clients -> SessionRows]
    BY <1>2, SessionSteps
  <2>2. ASSUME NEW c \in Clients, session'[c].pc # "none"
        PROVE  /\ session'[c].landing \in Landings
               /\ landing'[session'[c].landing].state \in {"recovering", "landed"}
               /\ session'[c].base <= Len(ref')
    <3>1. session'[c].base \in Nat
      BY <2>1 DEF SessionRows
    <3>2. CASE /\ session[c].pc # "none" /\ session'[c].landing = session[c].landing
               /\ session'[c].base = session[c].base
      BY <1>2, <1>3, <3>1, <3>2 DEF Typed, SessionsKnow
    <3>3. CASE /\ session'[c].landing \in Landings /\ session'[c].base = Len(ref)
               /\ landing'[session'[c].landing].state = "recovering"
      BY <1>3, <3>3
    <3> QED
      BY <1>2, <2>2, <3>2, <3>3, SessionSteps
  <2> QED
    BY <2>1, <2>2 DEF SessionsKnow
<1>7. TypeOK'
  <2>1. \A v \in 1..Len(ref') : ref'[v] \in Versions
    BY <1>3
  <2> QED
    BY <1>3, <1>4, <1>5, <1>6, <2>1, DataSteps
    DEF TypeOK, LandingRows, WorkerRows, SessionRows, Versions
<1> QED
  BY <1>3, <1>4, <1>5, <1>6, <1>7 DEF Typed

\* The invariant is inductive.
LEMMA NextIInv == IInv /\ [Next]_vars => IInv'
<1> SUFFICES ASSUME IInv, [Next]_vars
             PROVE  IInv'
  OBVIOUS
<1>1. Ledger'
  BY LedgerSteps, KeepsLedger, LandsLedger, PushesLedger
<1> QED
  BY <1>1, NextTyped DEF IInv

\* The invariant holds in every reachable state.
THEOREM Invariance == Spec => []IInv
<1>1. Init => IInv
  BY InitTyped DEF IInv
<1> QED
  BY <1>1, NextIInv, PTL DEF Spec

-----------------------------------------------------------------------------
(* What landing promises.                                                  *)

\* Every row, claim, session and version stays well formed, whatever workers,
\* recovery clients and pushes do between each other's transactions.
THEOREM TypeCorrect == Spec => []TypeOK
  BY Invariance, PTL DEF IInv, Typed

\* The intent, the receipt index and the ref move together.
THEOREM ReceiptsAreExact == Spec => []LandedIffReceipt
<1>1. IInv => LandedIffReceipt
  <2> SUFFICES ASSUME IInv, NEW l \in Landings
               PROVE  /\ landing[l].state = "landed" <=> receipts[l] # NoCommit
                      /\ landing[l].commit = receipts[l]
                      /\ receipts[l] # NoCommit =>
                           Cardinality({v \in 1..Len(ref) : ref[v].commit = receipts[l]}) = 1
    BY DEF LandedIffReceipt
  <2> USE DEF IInv, Ledger
  <2>1. ASSUME receipts[l] # NoCommit
        PROVE  Cardinality({v \in 1..Len(ref) : ref[v].commit = receipts[l]}) = 1
    <3>1. PICK v \in 1..Len(ref) : ref[v].commit = receipts[l]
      BY <2>1 DEF VersionOfReceipt
    <3>2. receipts[l].landing = l /\ l # NoLanding
      BY <2>1, LandingAssumption DEF VersionOfReceipt
    <3>3. \A u \in 1..Len(ref) : ref[u].commit = receipts[l] => l \in ref[u].lands
      BY <3>2 DEF ReceiptOfVersion
    <3>4. \A u \in 1..Len(ref) : ref[u].commit = receipts[l] => u = v
      BY <3>1, <3>3 DEF LandedOnce
    <3>5. {u \in 1..Len(ref) : ref[u].commit = receipts[l]} = {v}
      BY <3>1, <3>4
    <3> QED
      BY <3>5, FS_Singleton
  <2> QED
    BY <2>1 DEF IntentOfReceipt
<1> QED
  BY <1>1, Invariance, PTL

\* A landing replaces the very version its plan was computed on.
THEOREM LandingsAreFresh == Spec => []BaseFresh
  BY Invariance, PTL DEF IInv, Ledger

\* A change reaches the history once, by whichever way it comes.
THEOREM LandingsAreUnique == Spec => []LandedOnce
  BY Invariance, PTL DEF IInv, Ledger

\* The ref only grows, one version at a time, and what a receipt says of it is
\* never revised.
THEOREM HistoryOnlyGrows == Spec => HistoryIsAppendOnly
<1> DEFINE Grows == /\ Len(ref') \in {Len(ref), Len(ref) + 1}
                    /\ \A v \in 1..Len(ref) : ref'[v] = ref[v]
                    /\ \A l \in Landings : receipts[l] # NoCommit =>
                          /\ receipts'[l] = receipts[l]
                          /\ landing'[l] = landing[l]
<1>1. ASSUME IInv, [Next]_vars
      PROVE  Grows
  <2>1. Typed /\ IntentOfReceipt
    BY <1>1 DEF IInv, Ledger
  <2>2. CASE KeepsHistory
    BY <2>1, <2>2, LandingTypes DEF KeepsHistory, IntentMoves, IntentOfReceipt
  <2>3. ASSUME NEW c \in LandingCommits, LandsObject(c)
        PROVE  Grows
    <3>1. PICK lands \in SUBSET Landings : lands = {c.landing}
      BY DEF LandingCommits
    <3>2. c \in Commits /\ ref' = Append(ref, Entry(c, lands))
      BY <2>3, <3>1 DEF LandsObject, Advance, LandingCommits, Commits
    <3>3. Len(ref') = Len(ref) + 1 /\ \A v \in 1..Len(ref) : ref'[v] = ref[v]
      BY <2>1, <3>2, Appended
    <3>4. \A l \in Landings : l # c.landing =>
             receipts'[l] = receipts[l] /\ landing'[l] = landing[l]
      BY <2>1, <2>3, LandingTypes DEF LandsObject, Advance, Land
    <3> QED
      BY <2>3, <3>3, <3>4 DEF LandsObject
  <2>4. ASSUME NEW c \in Commits, NEW lands \in SUBSET Landings, PushesPlain(c, lands)
        PROVE  Grows
    BY <2>1, <2>4, Appended DEF PushesPlain
  <2> QED
    BY <1>1, <2>2, <2>3, <2>4, LedgerSteps
<1> QED
  BY <1>1, Invariance, PTL DEF Spec, HistoryIsAppendOnly

\* No intent becomes blocked without the check saying so and without its job
\* being settled in the same transaction.
THEOREM BlocksAreReported == Spec => BlockingIsReported
<1> DEFINE Reported ==
      \A l \in Landings :
         landing[l].state # "blocked" /\ landing'[l].state = "blocked" =>
            check'[l] = "blocked" /\ job'[l].state = "done"
<1>1. ASSUME IInv, [Next]_vars
      PROVE  Reported
  <2>1. /\ Typed /\ landing \in [Landings -> LandingRows]
        /\ job \in [Landings -> JobRow] /\ DOMAIN check = Landings
    BY <1>1, LandingTypes DEF IInv, Typed, TypeOK
  <2>2. ASSUME NEW w \in Workers, ClaimFinal(w)
        PROVE  Reported
    <3>1. SUFFICES ASSUME NEW l \in Landings, SweptRunning(l)
                   PROVE  check'[l] = "blocked" /\ job'[l].state = "done"
      BY <2>1, <2>2 DEF ClaimFinal, Sweep
    <3>2. job[l].attempts \in Nat /\ MaxAttempts \in Nat
      BY <2>1, JobLeaseAssumption DEF JobRow
    <3>3. ~Claimable(job[l])
      BY <3>1, <3>2 DEF SweptRunning, Exhausted, Claimable
    <3>4. SweptJob(l) = Completed(job[l])
      BY <3>1 DEF SweptJob, SweptRunning
    <3>5. job'[l] = SweptJob(l)
      BY <2>2, <3>3 DEF ClaimFinal
    <3>6. check'[l] = "blocked"
      BY <2>2, <3>1 DEF ClaimFinal, Sweep
    <3> QED
      BY <3>4, <3>5, <3>6 DEF Completed, Released
  <2>3. ASSUME NEW w \in Workers, BlockConflicts(w) \/ HandleFailure(w)
        PROVE  Reported
    <3> DEFINE k == worker[w].landing
    <3>1. k \in Landings
      BY <2>1, <2>3, WorkerTypes DEF BlockConflicts, HandleFailure, Knows
    <3>2. CASE UNCHANGED landing
      BY <3>2
    <3>3. CASE BlockedCommit(w)
      BY <2>1, <3>1, <3>3 DEF BlockedCommit, SetState, SetJob, Completed, Released
    <3>4. CASE RecordFailure(w)
      BY <2>1, <3>1, <3>4 DEF RecordFailure, SetJob, Completed, Released, LandingRows
    <3> QED
      BY <2>3, <3>2, <3>3, <3>4 DEF BlockConflicts, HandleFailure, FailOnly
  <2>4. ASSUME NEW l \in Landings, NEW s \in States \ {"blocked"},
               SetState(l, s) \/ UNCHANGED landing
        PROVE  Reported
    BY <2>1, <2>4 DEF SetState, LandingRows
  <2>5. ASSUME NEW c \in LandingCommits, Land(c) \/ Converge(c)
        PROVE  Reported
    <3>1. PICK k \in Landings, p \in PlanIds, o \in Commits :
            k = c.landing /\ p = c.plan /\ o = c
      BY DEF LandingCommits, Commits
    <3>2. \/ landing' = landing
          \/ landing' = [landing EXCEPT ![k].state = "landed", ![k].commit = o]
          \/ landing' = [landing EXCEPT ![k].state = "landed", ![k].plan = p,
                                        ![k].commit = o]
      BY <2>5, <3>1 DEF Land, Converge
    <3> QED
      BY <2>1, <3>2 DEF LandingRows
  <2>6. ASSUME NEW w \in Workers, StartLanding(w) \/ AdvanceRef(w)
        PROVE  Reported
    <3>1. worker[w].landing \in Landings /\ ObjectOf(w) \in LandingCommits
      BY <2>1, <2>6, WorkerTypes, ObjectTypes DEF StartLanding, AdvanceRef, Knows
    <3> QED
      BY <2>4, <2>5, <2>6, <3>1 DEF StartLanding, AdvanceRef, Advance, States
  <2>7. ASSUME NEW w \in Workers, AssignPlan(w)
        PROVE  Reported
    BY <2>1, <2>7 DEF AssignPlan, LandingRows
  <2>8. ASSUME NEW c \in Clients, ClientStep(c)
         PROVE  Reported
    <3>1. ASSUME PushRecovery(c)
          PROVE  Reported
      <4>1. SessionCommit(c) \in LandingCommits
        BY <2>1, <3>1, ObjectTypes DEF PushRecovery
      <4> QED
        BY <2>4, <2>5, <3>1, <4>1 DEF PushRecovery, Advance
    <3>2. ASSUME NEW l \in Landings, Recover(c, l)
          PROVE  Reported
      BY <2>4, <3>2 DEF Recover, States
    <3>3. CASE UNCHANGED landing
      BY <3>3
    <3> QED
      BY <2>8, <3>1, <3>2, <3>3
      DEF ClientStep, CommitLanding, PushDescendant, EndSession, durable
  <2>9. ASSUME NEW l \in Landings, ScheduleLanding(l)
        PROVE  Reported
    BY <2>4, <2>9 DEF ScheduleLanding, States
  <2>10. ASSUME NEW l \in Landings, Lapse(l) \/ FinishPreview(l)
         PROVE  Reported
    BY <2>10 DEF Lapse, FinishPreview
  <2>11. ASSUME NEW w \in Workers,
                \/ ReadIntent(w) \/ Gather(w) \/ SavePlan(w) \/ Publish(w)
                \/ Finish(w) \/ Fault(w) \/ Abandon(w) \/ Crash(w)
         PROVE  Reported
    BY <2>11 DEF ReadIntent, Gather, SavePlan, Publish, Finish, Fault, Abandon, Crash,
                 durable
  <2>12. ASSUME Push \/ UNCHANGED vars
         PROVE  Reported
    BY <2>12 DEF Push, vars, durable
  <2> HIDE DEF Reported
  <2> QED
    BY <1>1, <2>2, <2>3, <2>6, <2>7, <2>8, <2>9, <2>10, <2>11, <2>12
    DEF Next, WorkerStep, RunStep
<1> QED
  BY <1>1, Invariance, PTL DEF Spec, BlockingIsReported

-----------------------------------------------------------------------------
(* The final jobs are jobs of the durable queue.                           *)

\* The queue updates its rows the way landing does.
LEMMA SameUpdates ==
    /\ Queue!NoJob = NoJob /\ Queue!NewJob = NewJob
    /\ \A r : /\ Queue!Claimable(r) = Claimable(r) /\ Queue!Exhausted(r) = Exhausted(r)
             /\ Queue!MayAbandon(r) = MayAbandon(r) /\ Queue!Lapsed(r) = Lapsed(r)
             /\ Queue!Completed(r) = Completed(r) /\ Queue!FailedOnce(r) = FailedOnce(r)
             /\ Queue!Rejected(r) = Rejected(r) /\ Queue!Abandoned(r) = Abandoned(r)
             /\ Queue!GaveUp(r) = GaveUp(r)
    /\ \A r, w : Queue!Leased(r, w) = Leased(r, w)
    /\ \A r, w, f : Queue!Holds(r, w, f) = Holds(r, w, f)
  BY DEF Queue!NoJob, NoJob, Queue!NewJob, NewJob, Queue!Claimable, Claimable,
         Queue!Exhausted, Exhausted, Queue!MayAbandon, MayAbandon, Queue!Lapsed, Lapsed,
         Queue!Completed, Completed, Queue!FailedOnce, FailedOnce, Queue!Rejected,
         Rejected, Queue!Abandoned, Abandoned, Queue!GaveUp, GaveUp, Queue!Released,
         Released, Queue!Leased, Leased, Queue!Holds, Holds, Queue!Waiting, Waiting

\* A goroutine holds a claim while it is busy, on the landing it works on.
LEMMA ClaimHeld ==
    ASSUME Typed
    PROVE  \A w \in Workers :
              /\ worker[w].pc = "idle" => claim[w] = NoClaim
              /\ worker[w].pc # "idle" =>
                   /\ claim[w] = [job |-> worker[w].landing, fence |-> worker[w].fence]
                   /\ claim[w] # NoClaim
                   /\ claim[w].job = worker[w].landing
                   /\ claim[w].fence = worker[w].fence
<1> SUFFICES ASSUME NEW w \in Workers, worker[w].pc # "idle"
             PROVE  [job |-> worker[w].landing, fence |-> worker[w].fence] # NoClaim
  BY DEF claim
<1>1. worker[w].landing \in Landings /\ worker[w].fence \in Nat
  BY WorkerTypes DEF Knows, WorkerRows
<1> QED
  BY <1>1, NoClaimAssumption

\* A run that goes on keeps its claim.
LEMMA ClaimKept ==
    ASSUME Typed, NEW w \in Workers, worker[w].pc # "idle",
           \/ \E pc \in PCs \ {"idle"} : Goto(w, pc)
           \/ \E code \in Codes : Raise(w, code)
           \/ \E pc \in PCs \ {"idle"}, s \in States :
                 worker' = [worker EXCEPT ![w].pc = pc, ![w].seen = s]
           \/ \E pc \in PCs \ {"idle"}, b \in Nat :
                 worker' = [worker EXCEPT ![w].pc = pc, ![w].base = b]
    PROVE  claim' = claim
<1>1. worker \in [Workers -> WorkerRows]
  BY WorkerTypes
<1>2. /\ worker'[w].pc # "idle" /\ worker'[w].landing = worker[w].landing
      /\ worker'[w].fence = worker[w].fence
      /\ \A v \in Workers : v # w => worker'[v] = worker[v]
  <2>1. CASE \E pc \in PCs \ {"idle"} : Goto(w, pc)
    BY <1>1, <2>1 DEF Goto, WorkerRows
  <2>2. CASE \E code \in Codes : Raise(w, code)
    BY <1>1, <2>2 DEF Raise, WorkerRows
  <2>3. CASE \E pc \in PCs \ {"idle"}, s \in States :
               worker' = [worker EXCEPT ![w].pc = pc, ![w].seen = s]
    BY <1>1, <2>3 DEF WorkerRows
  <2>4. CASE \E pc \in PCs \ {"idle"}, b \in Nat :
               worker' = [worker EXCEPT ![w].pc = pc, ![w].base = b]
    BY <1>1, <2>4 DEF WorkerRows
  <2> QED
    BY <2>1, <2>2, <2>3, <2>4
<1> QED
  BY <1>2 DEF claim

\* A run that ends gives its claim up.
LEMMA ClaimDropped ==
    ASSUME Typed, NEW w \in Workers, worker[w].pc # "idle", Free(w)
    PROVE  claim[w] # NoClaim /\ claim' = [claim EXCEPT ![w] = NoClaim]
<1>1. worker' = [worker EXCEPT ![w] = Idle] /\ Idle.pc = "idle"
  BY DEF Free, Idle
<1>2. worker'[w].pc = "idle" /\ \A v \in Workers : v # w => worker'[v] = worker[v]
  BY <1>1, WorkerTypes
<1>3. claim[w] # NoClaim
  BY ClaimHeld
<1>4. claim' = [v \in Workers |-> IF v = w THEN NoClaim ELSE claim[v]]
  BY <1>2 DEF claim
<1>5. DOMAIN claim = Workers
  BY DEF claim
<1> QED
  BY ONLY <1>3, <1>4, <1>5

\* A run that ends settles its row, or finds that it lost it.
LEMMA RunSettles ==
    ASSUME Typed, NEW w \in Workers, worker[w].pc # "idle", Free(w), NEW row,
           LET l == worker[w].landing IN
             \/ HoldsJob(w) /\ SetJob(l, row)
             \/ SetJob(l, IF HoldsJob(w) THEN row ELSE job[l])
    PROVE  Queue!Settle(w, row)
<1>1. /\ claim[w] # NoClaim /\ claim' = [claim EXCEPT ![w] = NoClaim]
      /\ claim[w].job = worker[w].landing /\ claim[w].fence = worker[w].fence
  BY ClaimDropped, ClaimHeld
<1>2. Queue!Holds(job[claim[w].job], w, claim[w].fence) = HoldsJob(w)
  BY <1>1, SameUpdates DEF HoldsJob
<1>3. job \in [Landings -> JobRow] /\ worker[w].landing \in Landings
  BY LandingTypes, WorkerTypes DEF Knows
<1>4. job' = IF HoldsJob(w) THEN [job EXCEPT ![worker[w].landing] = row] ELSE job
  BY <1>3 DEF SetJob
<1> QED
  BY <1>1, <1>2, <1>4 DEF Queue!Settle

\* The sweep and the claim are the claim transaction of the queue.
LEMMA ClaimsImplement ==
    ASSUME Typed, NEW w \in Workers, ClaimFinal(w)
    PROVE  Queue!ClaimJobKinds(w)
<1> DEFINE blocked == {l \in Landings : SweptRunning(l)}
<1>1. blocked \in SUBSET Queue!ExhaustedFinals
  BY SameUpdates DEF Queue!ExhaustedFinals, SweptRunning
<1>2. Queue!Swept(blocked) = [l \in Landings |-> SweptJob(l)]
  BY SameUpdates DEF Queue!Swept, SweptJob
<1>3. \A l \in Landings : l \in Queue!Eligible(w) <=> Claimable(job[l])
  <2>1. \A l \in Landings : Claimable(job[l]) => job[l].state # "absent"
    BY DEF Claimable, Waiting
  <2>2. \A l \in Landings : Queue!Claimable(job[l]) <=> Claimable(job[l])
    BY SameUpdates
  <2> QED
    BY <2>1, <2>2 DEF Queue!Eligible, Queue!Present
<1>4. claim[w] = NoClaim
  <2>1. worker[w] = Idle
    BY DEF ClaimFinal
  <2>2. worker[w].pc = "idle"
    BY <2>1 DEF Idle
  <2> QED
    BY <2>2, ClaimHeld
<1> HIDE DEF blocked
<1>5. ASSUME NEW l \in Landings, Claimable(job[l]),
             job' = [k \in Landings |-> IF k = l THEN Leased(job[l], w) ELSE SweptJob(k)],
             worker' = [worker EXCEPT ![w] = [Idle EXCEPT !.pc = "read", !.landing = l,
                                                          !.fence = job[l].fence + 1]]
      PROVE  Queue!ClaimJobKinds(w)
  <2>1. l \in Queue!Foremost(Queue!Eligible(w))
    BY <1>3, <1>5 DEF Queue!Foremost, Queue!Eligible, Queue!Present
  <2>2. job' = [Queue!Swept(blocked) EXCEPT ![l] = Queue!Leased(job[l], w)]
    BY <1>2, <1>5, SameUpdates
  <2>3. claim' = [claim EXCEPT ![w] = [job |-> l, fence |-> job[l].fence + 1]]
    <3>1. ASSUME NEW f, f = job[l].fence + 1
          PROVE  /\ worker'[w].pc = "read" /\ worker'[w].landing = l
                 /\ worker'[w].fence = f
                 /\ \A v \in Workers : v # w => worker'[v] = worker[v]
      BY <1>5, <3>1, WorkerTypes DEF Idle
    <3> QED
      BY <3>1 DEF claim
  <2> QED
    BY <1>1, <1>4, <2>1, <2>2, <2>3 DEF Queue!ClaimJobKinds
<1>6. ASSUME \A l \in Landings : ~Claimable(job[l]),
             job' = [l \in Landings |-> SweptJob(l)], UNCHANGED worker
      PROVE  Queue!ClaimJobKinds(w)
  <2>1. Queue!Eligible(w) = {}
    BY <1>3, <1>6 DEF Queue!Eligible, Queue!Present
  <2>2. claim' = claim
    BY <1>6 DEF claim
  <2> QED
    BY <1>1, <1>2, <1>4, <1>6, <2>1, <2>2 DEF Queue!ClaimJobKinds
<1> QED
  BY <1>5, <1>6 DEF ClaimFinal

\* Every landing run implements the queue's protocol: each step, taken to the
\* job rows and the claims, is a step of the queue or none.
THEOREM LandingImplementsQueue == Spec => ImplementsQueue
<1>1. Init => Queue!Init
  <2> SUFFICES ASSUME Init
               PROVE  Queue!Init
    OBVIOUS
  <2>1. job = [l \in Landings |-> Queue!NoJob]
    BY SameUpdates DEF Init
  <2>2. claim = [w \in Workers |-> NoClaim]
    BY DEF Init, Idle, claim
  <2> QED
    BY <2>1, <2>2 DEF Queue!Init
<1>2. ASSUME IInv, [Next]_vars
      PROVE  [Queue!Next]_Queue!vars
  <2> DEFINE Stays == UNCHANGED <<job, claim>>
  <2>1. Typed /\ RowsPaired
    BY <1>2 DEF IInv, Typed
  <2>2. ASSUME NEW l \in Landings, ScheduleLanding(l)
        PROVE  Queue!Enqueue(l)
    BY <2>1, <2>2, SameUpdates
    DEF ScheduleLanding, RowsPaired, SetJob, claim, Queue!Enqueue, Queue!Present
  <2>3. ASSUME NEW l \in Landings, Lapse(l)
        PROVE  Queue!Lapse(l)
    BY <2>3, SameUpdates DEF Lapse, SetJob, claim, Queue!Lapse
  <2>4. ASSUME NEW w \in Workers, ClaimFinal(w)
        PROVE  Queue!ClaimJobKinds(w)
    BY <2>1, <2>4, ClaimsImplement
  <2>5. ASSUME NEW w \in Workers, worker[w].pc # "idle",
               \E row \in {Completed(job[worker[w].landing]),
                           FailedOnce(job[worker[w].landing]),
                           Rejected(job[worker[w].landing])} :
                  Queue!Settle(w, row)
        PROVE  Queue!Execute(w)
    BY <2>1, <2>5, ClaimHeld, SameUpdates
    DEF Queue!Execute, Queue!CompleteClaim, Queue!FailClaim, Queue!RejectClaim
  <2>6. ASSUME NEW w \in Workers, worker[w].pc # "idle", Free(w), UNCHANGED job
        PROVE  Queue!Crash(w)
    BY <2>1, <2>6, ClaimDropped DEF Queue!Crash
  <2>7. ASSUME NEW w \in Workers, Crash(w)
        PROVE  Queue!Crash(w)
    <3>1. worker[w].pc # "idle"
      BY <2>1, <2>7, WorkerTypes DEF Crash, Knows
    <3> QED
      BY <2>6, <2>7, <3>1 DEF Crash, durable
  <2>8. ASSUME NEW w \in Workers, Abandon(w)
        PROVE  Queue!AbandonClaim(w)
    <3>1. worker[w].pc # "idle"
      BY <2>8 DEF Abandon
    <3>2. Queue!Settle(w, Abandoned(job[worker[w].landing]))
      BY <2>1, <2>8, <3>1, RunSettles DEF Abandon
    <3> QED
      BY <2>1, <2>8, <3>1, <3>2, ClaimHeld, SameUpdates DEF Abandon, Queue!AbandonClaim
  <2>9. ASSUME NEW w \in Workers, ReadIntent(w) \/ Finish(w)
        PROVE  Queue!Execute(w) \/ Stays
    <3>1. worker[w].pc # "idle"
      BY <2>9 DEF ReadIntent, Finish
    <3>2. ASSUME Free(w), LET l == worker[w].landing IN
                   SetJob(l, IF HoldsJob(w) THEN Completed(job[l]) ELSE job[l])
          PROVE  Queue!Execute(w)
      BY <2>1, <2>5, <3>1, <3>2, RunSettles
    <3>3. ASSUME NEW s \in {"pending", "retryable"},
                 worker' = [worker EXCEPT ![w].pc = "start", ![w].seen = s]
          PROVE  claim' = claim
      BY <2>1, <3>1, <3>3, ClaimKept DEF PCs, States
    <3>4. ASSUME Goto(w, "gather") \/ Raise(w, "permanent")
          PROVE  claim' = claim
      BY <2>1, <3>1, <3>4, ClaimKept DEF PCs, Codes
    <3> QED
      BY <2>9, <3>2, <3>3, <3>4 DEF ReadIntent, Finish
  <2>10. ASSUME NEW w \in Workers,
                \/ StartLanding(w) \/ SavePlan(w) \/ AssignPlan(w)
                \/ Publish(w) \/ AdvanceRef(w) \/ Fault(w)
         PROVE  Stays
    <3>1. worker[w].pc # "idle" /\ UNCHANGED job
      BY <2>10 DEF StartLanding, SavePlan, AssignPlan, Publish, AdvanceRef, Fault, durable
    <3>2. \/ \E pc \in PCs \ {"idle"} : Goto(w, pc)
          \/ \E code \in Codes : Raise(w, code)
      BY <2>10 DEF StartLanding, SavePlan, AssignPlan, Publish, AdvanceRef, Fault, PCs, Codes
    <3> QED
      BY <2>1, <3>1, <3>2, ClaimKept
  <2>11. ASSUME NEW w \in Workers, Gather(w)
         PROVE  Stays
    <3>1. worker[w].pc # "idle" /\ UNCHANGED job
      BY <2>11 DEF Gather, durable
    <3>2. \/ Raise(w, "permanent")
          \/ worker' = [worker EXCEPT ![w].pc = "save", ![w].base = Len(ref)]
      BY <2>11 DEF Gather
    <3>3. Len(ref) \in Nat /\ "save" \in PCs \ {"idle"} /\ "permanent" \in Codes
      BY <2>1, LandingTypes DEF PCs, Codes
    <3> QED
      BY <2>1, <3>1, <3>2, <3>3, ClaimKept
  <2>12. ASSUME NEW w \in Workers, BlockConflicts(w) \/ HandleFailure(w)
         PROVE  Queue!Execute(w) \/ Queue!Crash(w) \/ Stays
    <3> DEFINE l == worker[w].landing
    <3>1. worker[w].pc # "idle"
      BY <2>12 DEF BlockConflicts, HandleFailure
    <3>2. ASSUME Raise(w, "transient"), UNCHANGED job
          PROVE  Stays
      BY <2>1, <3>1, <3>2, ClaimKept DEF Codes
    <3>3. ASSUME Free(w), UNCHANGED job
          PROVE  Queue!Crash(w)
      BY <2>6, <3>1, <3>3
    <3>4. ASSUME Free(w),
                 \E row \in {Completed(job[l]), FailedOnce(job[l]), Rejected(job[l])} :
                    \/ HoldsJob(w) /\ SetJob(l, row)
                    \/ SetJob(l, IF HoldsJob(w) THEN row ELSE job[l])
          PROVE  Queue!Execute(w)
      BY <2>1, <2>5, <3>1, <3>4, RunSettles
    <3> QED
      BY <2>12, <3>2, <3>3, <3>4
      DEF BlockConflicts, HandleFailure, BlockedCommit, RecordFailure, FailOnly, CanBlock
  <2>13. ASSUME \/ \E l \in Landings : FinishPreview(l)
                \/ \E c \in Clients : ClientStep(c)
                \/ Push \/ UNCHANGED vars
         PROVE  Stays
    BY <2>13 DEF FinishPreview, ClientStep, Recover, CommitLanding, PushRecovery,
                 PushDescendant, EndSession, Push, vars, durable, claim
  <2>14. CASE Stays
    BY <2>14 DEF Queue!vars
  <2> HIDE DEF Stays
  <2> QED
    BY <1>2, <2>2, <2>3, <2>4, <2>7, <2>8, <2>9, <2>10, <2>11, <2>12, <2>13, <2>14
    DEF Next, WorkerStep, RunStep, Queue!Next
<1> QED
  BY <1>1, <1>2, Invariance, PTL DEF Spec, ImplementsQueue, Queue!Spec

-----------------------------------------------------------------------------
(* What is proved of the queue holds of landing.  Landing does not tell    *)
(* the runs of the coordinator apart: its workers are those of one.        *)

QueueProofs == INSTANCE JobQueueProofs WITH
                  Jobs     <- Landings,
                  Kind     <- [l \in Landings |-> "final_plan"],
                  Kinds    <- [w \in Workers |-> {"final_plan"}],
                  Priority <- [l \in Landings |-> 200],
                  Coordinators  <- {"run"},
                  CoordinatorOf <- [w \in Workers |-> "run"],
                  Survivor      <- "run",
                  NoCoordinator <- "none",
                  slot  <- [holder |-> "run", live |-> TRUE],
                  phase <- [c \in {"run"} |-> "running"]

\* The queue landing implements is the one JobQueueProofs is about.
LEMMA SameQueue == /\ Queue!Init <=> QueueProofs!Init
                   /\ Queue!Next <=> QueueProofs!Next
                   /\ Queue!OneHolder <=> QueueProofs!OneHolder
<1>1. Queue!Init <=> QueueProofs!Init
  BY DEF Queue!Init, QueueProofs!Init, Queue!NoJob, QueueProofs!NoJob
<1>2. Queue!OneHolder <=> QueueProofs!OneHolder
  BY DEF Queue!OneHolder, QueueProofs!OneHolder
<1>3. Queue!Next <=> QueueProofs!Next
  BY DEF Queue!Next, Queue!Enqueue, Queue!Lapse, Queue!ClaimJobKinds, Queue!Execute,
         Queue!AbandonClaim, Queue!Crash, Queue!Settle, Queue!CompleteClaim,
         Queue!FailClaim, Queue!RejectClaim, Queue!Present, Queue!Eligible,
         Queue!Foremost, Queue!Swept, Queue!ExhaustedFinals, Queue!NewJob,
         Queue!Lapsed, Queue!Exhausted, Queue!Claimable, Queue!Waiting, Queue!Leased,
         Queue!Holds, Queue!MayAbandon, Queue!Completed, Queue!FailedOnce,
         Queue!Rejected, Queue!Abandoned, Queue!GaveUp, Queue!Released,
         QueueProofs!Next, QueueProofs!Enqueue, QueueProofs!Lapse,
         QueueProofs!ClaimJobKinds, QueueProofs!Execute, QueueProofs!AbandonClaim,
         QueueProofs!Crash, QueueProofs!Settle, QueueProofs!CompleteClaim,
         QueueProofs!FailClaim, QueueProofs!RejectClaim, QueueProofs!Present,
         QueueProofs!Eligible, QueueProofs!Foremost, QueueProofs!Swept,
         QueueProofs!ExhaustedFinals, QueueProofs!NewJob, QueueProofs!Lapsed,
         QueueProofs!Exhausted, QueueProofs!Claimable, QueueProofs!Waiting,
         QueueProofs!Leased, QueueProofs!Holds, QueueProofs!MayAbandon,
         QueueProofs!Completed, QueueProofs!FailedOnce, QueueProofs!Rejected,
         QueueProofs!Abandoned, QueueProofs!GaveUp, QueueProofs!Released
<1> QED
  BY <1>1, <1>2, <1>3

\* Two runs of one landing never carry the same token, so at most one of them
\* can still settle the job, however many crashed or were cancelled.
THEOREM RunsAreFenced == Spec => []Queue!OneHolder
<1>1. [Queue!Next]_Queue!vars <=> [QueueProofs!Next]_QueueProofs!vars
  BY SameQueue DEF Queue!vars, QueueProofs!vars
<1>2. /\ NoClaim \notin QueueProofs!Claims
      /\ NoWorker \notin Workers /\ MaxAttempts \in Nat \ {0} /\ MaxAbandons \in Nat
      /\ "run" \in {"run"} /\ "none" \notin {"run"}
      /\ [w \in Workers |-> "run"] \in [Workers -> {"run"}]
  BY NoClaimAssumption, JobLeaseAssumption DEF QueueProofs!Claims
<1>3. QueueProofs!Spec => []QueueProofs!OneHolder
  BY <1>2, QueueProofs!Fencing, PTL
<1>4. Queue!Spec => QueueProofs!Spec
  BY <1>1, SameQueue, PTL DEF Queue!Spec, QueueProofs!Spec
<1>5. QueueProofs!OneHolder => Queue!OneHolder
  BY SameQueue
<1> QED
  BY <1>3, <1>4, <1>5, LandingImplementsQueue, PTL DEF ImplementsQueue
=============================================================================
