--------------------------- MODULE PlanningProofs ---------------------------
(***************************************************************************)
(* Generations, previews and landing intents of one change, for any        *)
(* number of revisions, candidates, publishers, planning workers, events   *)
(* and retries.                                                            *)
(*                                                                         *)
(* What a goroutine read of the change or of the generation is old when it *)
(* is used.  The invariant says what of it still holds (Knows): its claim, *)
(* as a lease outlives its run here; that a merged change moves no more;   *)
(* that a preview job whose version was not the current one is never that  *)
(* of the current one again.                                               *)
(*                                                                         *)
(* LastEventWins needs more (LastKnows), and that there is one control     *)
(* worker: two of them could store the revisions they read in the wrong    *)
(* order.                                                                  *)
(***************************************************************************)
EXTENDS Planning, TLAPS, SequenceTheorems

Events     == [state : {"open", "merged", "closed"}, rev : Revisions]
Stages     == {"carry", "propose", "preview", "landing"}
Previewing == {"generation", "supersede", "publish"}
PCs        == Stages \union Previewing \union {"idle", "change", "complete", "failed"}
WorkerRows == [pc : PCs, job : JobIds \union {<<"none", 0>>}, fence : Nat,
               state : {"none", "open", "merged", "closed"}, gen : Generations]
RequestRows == [pc : {"idle", "propose", "schedule", "done"}, gen : Generations]

-----------------------------------------------------------------------------
(* The updates of JobLease make rows of rows.                              *)

\* The row as it is inserted, and the one before it.
LEMMA FreshRow == NoJob \in JobRow /\ NewJob \in JobRow
  BY JobLeaseAssumption DEF JobRow, NoJob, NewJob, Waiting, Terminal

\* However a run is settled, its row is a row again.
LEMMA SettledIsRow ==
    ASSUME NEW r \in JobRow
    PROVE  /\ Completed(r) \in JobRow /\ GaveUp(r) \in JobRow
           /\ Rejected(r) \in JobRow /\ FailedOnce(r) \in JobRow
           /\ Abandoned(r) \in JobRow
<1> USE DEF JobRow, Released, Terminal, Waiting
<1>1. Completed(r) \in JobRow /\ GaveUp(r) \in JobRow /\ Rejected(r) \in JobRow
  BY JobLeaseAssumption DEF Completed, GaveUp, Rejected
<1>2. FailedOnce(r) \in JobRow
  BY JobLeaseAssumption DEF FailedOnce
<1>3. CASE r.attempts > 0
  BY <1>1, <1>2, <1>3, JobLeaseAssumption DEF Abandoned
<1>4. CASE ~(r.attempts > 0)
  BY <1>1, <1>2, <1>4, JobLeaseAssumption DEF Abandoned
<1> QED
  BY <1>3, <1>4

\* A claim uses one attempt and issues the next token.
LEMMA LeasedRow ==
    ASSUME NEW r \in JobRow, Claimable(r), NEW w \in Workers
    PROVE  /\ Leased(r, w) \in JobRow
           /\ Leased(r, w).state = "running"
           /\ Leased(r, w).fence = r.fence + 1
  BY JobLeaseAssumption DEF JobRow, Leased, Claimable

\* A lease that runs out leaves the row a row.
LEMMA LapsedRow ==
    ASSUME NEW r \in JobRow
    PROVE  Lapsed(r) \in JobRow
  BY DEF JobRow, Lapsed

-----------------------------------------------------------------------------
(* The inductive invariant.                                                *)

Typed ==
    /\ forge \in Seq(Events) /\ Len(forge) <= MaxEvents
    /\ job \in [JobIds -> JobRow]
    /\ generation \in Generations /\ generation.version <= MaxVersion
    /\ generation.version # 0 => generation.rev \in Revisions
    /\ worker \in [Workers -> WorkerRows] /\ publisher \in [Publishers -> RequestRows]
    /\ plans \subseteq PlanIds

\* The tables no other part of the invariant is about.
Shown ==
    /\ payload \in [Versions -> Heads \union {"none"}]
    /\ artifacts \subseteq Candidates
    /\ intents \subseteq [cand : Candidates \union {NoCandidate},
                          plan : PlanIds \union {NoPlan}]
    /\ check \in [Heads -> {"none", "planning", "planned", "superseded"}]
    /\ trouble \in 0..MaxTrouble

\* Jobs are enqueued with what they are about.
JobsOfRows ==
    /\ \A v \in Versions : v > generation.version => job[Preview(v)] = NoJob
    /\ \A n \in 1..MaxEvents : n > Len(forge) => job[<<"webhook", n>>] = NoJob

\* The plan of a generation was computed for it.
IsPlanOf(g) == g.plan # NoPlan => /\ g.plan \in plans
                                  /\ g.plan.rev = g.rev /\ g.plan.cand = g.cand

\* A run outlives neither its claim nor its lease.
Claims(w) ==
    LET r == worker[w] IN
    /\ r.pc = "idle" => r = Idle
    /\ r.pc # "idle" => /\ r.job \in JobIds /\ r.job[1] \in Kinds[w]
                        /\ HoldsJob(w) /\ job[r.job].live

\* What the control worker knows of the change.
OfChange(w) ==
    LET r == worker[w] IN
    /\ r.pc \in {"change"} \union Stages => r.job[1] = "webhook"
    /\ r.pc \in Stages => /\ r.gen.rev \in Revisions
                          /\ r.state = "merged" => /\ forge # <<>>
                                                   /\ Change.state = "merged"
                                                   /\ r.gen.rev = Change.rev
    /\ r.pc = "landing" => r.state = "merged"
    /\ r.pc \in {"preview", "landing"} => IsPlanOf(r.gen)

\* What a planning worker knows of the generation.
OfGeneration(w) ==
    LET r == worker[w] IN
    /\ r.pc \in Previewing => r.job[1] = "preview"
    /\ r.pc = "publish" => r.gen.version = r.job[2] /\ r.gen.rev \in Revisions
    /\ r.pc \in {"supersede", "complete"} /\ r.job[1] = "preview" =>
         r.job[2] < generation.version

Knows(w) == Claims(w) /\ OfChange(w) /\ OfGeneration(w)

\* A publication is of a candidate.
Asks(p) == publisher[p].pc \in {"propose", "schedule"} =>
             publisher[p].gen.rev \in Revisions /\ publisher[p].gen.cand \in Candidates

\* Only a merged change has intents.
IntentsAreMerged == intents # {} => forge # <<>> /\ Change.state = "merged"

Rows  == JobsOfRows /\ PlanIsCurrent /\ PlannedByItsJob
Minds == (\A w \in Workers : Knows(w)) /\ (\A p \in Publishers : Asks(p))

IInv == Typed /\ Shown /\ Rows /\ Minds /\ IntentsAreMerged /\ IntentNamesItsPreview

-----------------------------------------------------------------------------
(* Identifiers and generations.                                            *)

LEMMA JobIdFacts ==
    /\ \A n \in 1..MaxEvents : /\ <<"webhook", n>> \in JobIds
                               /\ <<"webhook", n>>[1] = "webhook"
                               /\ <<"webhook", n>>[2] = n
    /\ \A v \in Versions : /\ Preview(v) \in JobIds /\ Preview(v)[1] = "preview"
                           /\ Preview(v)[2] = v
    /\ \A j \in JobIds : \/ /\ j[1] = "webhook" /\ j[2] \in 1..MaxEvents
                            /\ j = <<"webhook", j[2]>>
                         \/ /\ j[1] = "preview" /\ j[2] \in Versions
                            /\ j = Preview(j[2])
  BY DEF JobIds, Preview

LEMMA InitIInv == Init => IInv
<1> SUFFICES ASSUME Init
             PROVE  IInv
  OBVIOUS
<1> USE PlanningAssumption DEF Init
<1>1. NoGeneration \in Generations /\ NoGeneration.plan = NoPlan
      /\ NoGeneration.version = 0
  BY DEF NoGeneration, Generations
<1>2. Idle \in WorkerRows /\ Idle.pc = "idle"
  BY <1>1 DEF Idle, WorkerRows, PCs
<1>3. NoRequest \in RequestRows /\ NoRequest.pc = "idle"
  BY <1>1 DEF NoRequest, RequestRows
<1>4. Typed
  BY <1>1, <1>2, <1>3, FreshRow DEF Typed
<1>5. Shown
  BY DEF Shown
<1>6. JobsOfRows
  BY JobIdFacts DEF JobsOfRows
<1>7. PlanIsCurrent /\ PlannedByItsJob
  BY <1>1 DEF PlanIsCurrent, PlannedByItsJob, Versions
<1>8. Minds
  BY <1>2, <1>3 DEF Minds, Knows, Claims, OfChange, OfGeneration, Asks, Stages, Previewing
<1>9. IntentsAreMerged /\ IntentNamesItsPreview
  BY DEF IntentsAreMerged, IntentNamesItsPreview
<1> QED
  BY <1>4, <1>5, <1>6, <1>7, <1>8, <1>9 DEF IInv, Rows

\* A generation that is proposed is one, of the revision and candidate it is for;
\* its plan, if it has one, is its own.
LEMMA ProposedIsGeneration ==
    ASSUME IInv, NEW r \in Revisions, NEW c \in Candidates \union {NoCandidate}
    PROVE  LET g == Proposed(r, c) IN
           /\ g \in Generations /\ g.rev = r /\ g.cand = c /\ IsPlanOf(g)
<1>1. generation \in Generations /\ generation.version \in 0..MaxVersion
  BY PlanningAssumption DEF IInv, Typed, Generations
<1>2. CASE generation.rev = r /\ generation.cand = c
  BY <1>1, <1>2 DEF Proposed, IInv, Rows, PlanIsCurrent, IsPlanOf
<1>3. CASE ~(generation.rev = r /\ generation.cand = c)
  BY <1>1, <1>3, PlanningAssumption DEF Proposed, Generations, IsPlanOf
<1> QED
  BY <1>2, <1>3

-----------------------------------------------------------------------------
(* What a step leaves to those who do not take it.                         *)

\* A change that is not open moves no more; generations count up.
Grows == /\ generation'.version \in Nat /\ generation.version <= generation'.version
         /\ plans \subseteq plans'
         /\ forge' \in Seq(Events)
         /\ forge # <<>> /\ Change.state = "merged" => forge' = forge

\* The row of the job that w works on.
KeepsJob(w) == worker[w].pc # "idle" => job'[worker[w].job] = job[worker[w].job]

LEMMA StillKnows ==
    ASSUME Typed, Grows, NEW w \in Workers, Knows(w), KeepsJob(w), worker'[w] = worker[w]
    PROVE  Knows(w)'
<1>1. Claims(w)'
  BY DEF Knows, Claims, KeepsJob, HoldsJob, Holds
<1>2. OfChange(w)'
  BY DEF Knows, OfChange, Grows, IsPlanOf, Change
<1>3. OfGeneration(w)'
  <2>1. worker[w].pc # "idle" => worker[w].job[2] \in Nat
    BY JobIdFacts, PlanningAssumption DEF Knows, Claims, Versions
  <2>2. generation.version \in Nat
    BY PlanningAssumption DEF Typed, Generations
  <2> QED
    BY <2>1, <2>2 DEF Knows, OfGeneration, Grows
<1> QED
  BY <1>1, <1>2, <1>3 DEF Knows

\* Two workers do not work on one job.
LEMMA OwnJob ==
    ASSUME NEW v \in Workers, NEW w \in Workers, Knows(v), Knows(w), v # w,
           worker[v].pc # "idle", worker[w].pc # "idle"
    PROVE  worker[v].job # worker[w].job
  BY DEF Knows, Claims, HoldsJob, Holds

\* A worker takes a step, on its own job or on none.
WorkerTurns(w) ==
    /\ worker' \in [Workers -> WorkerRows] /\ Knows(w)'
    /\ \A v \in Workers : v # w => worker'[v] = worker[v] /\ KeepsJob(v)

LEMMA MindsAfter ==
    ASSUME IInv, Grows, NEW w \in Workers, WorkerTurns(w), UNCHANGED publisher
    PROVE  Minds'
<1>1. \A v \in Workers : v # w => Knows(v)'
  BY StillKnows DEF WorkerTurns, IInv, Minds
<1>2. \A p \in Publishers : Asks(p)'
  BY DEF IInv, Minds, Asks
<1> QED
  BY <1>1, <1>2 DEF WorkerTurns, Minds

\* A step of nobody's run.
LEMMA MindsStay ==
    ASSUME IInv, Grows, UNCHANGED worker, \A v \in Workers : KeepsJob(v)
    PROVE  \A v \in Workers : Knows(v)'
  BY StillKnows DEF IInv, Minds

\* Steps that change what a worker knows, and perhaps a check.
LEMMA ThoughtAndCheck ==
    ASSUME IInv, NEW w \in Workers, NEW r \in WorkerRows,
           worker' = [worker EXCEPT ![w] = r], Knows(w)',
           trouble' \in 0..MaxTrouble,
           check' \in [Heads -> {"none", "planning", "planned", "superseded"}],
           UNCHANGED <<forge, job, payload, generation, plans, artifacts, intents,
                       publisher>>
    PROVE  IInv'
<1>1. Grows
  BY PlanningAssumption DEF IInv, Typed, Grows, Generations
<1>2. WorkerTurns(w)
  BY DEF IInv, Typed, WorkerTurns, KeepsJob
<1>3. Minds'
  BY <1>1, <1>2, MindsAfter
<1>4. Typed' /\ Shown'
  BY DEF IInv, Typed, Shown
<1>5. Rows' /\ IntentsAreMerged' /\ IntentNamesItsPreview'
  BY DEF IInv, Rows, JobsOfRows, PlanIsCurrent, PlannedByItsJob, IntentsAreMerged,
         IntentNamesItsPreview, Change
<1> QED
  BY <1>3, <1>4, <1>5 DEF IInv

LEMMA ThoughtOnly ==
    ASSUME IInv, NEW w \in Workers, NEW r \in WorkerRows,
           worker' = [worker EXCEPT ![w] = r], Knows(w)',
           trouble' \in 0..MaxTrouble,
           UNCHANGED <<forge, job, payload, generation, plans, artifacts, intents, check,
                       publisher>>
    PROVE  IInv'
<1>1. check' \in [Heads -> {"none", "planning", "planned", "superseded"}]
  BY DEF IInv, Shown
<1> QED
  BY <1>1, ThoughtAndCheck

-----------------------------------------------------------------------------
(* Steps that only read.                                                   *)

LEMMA IdleRow == /\ Idle \in WorkerRows /\ Idle.pc = "idle"
                 /\ NoGeneration \in Generations
<1>1. NoGeneration \in Generations
  BY PlanningAssumption DEF NoGeneration, Generations
<1> QED
  BY <1>1 DEF Idle, WorkerRows, PCs

\* What is left of a run that ends: its claim.
Ended(w, pc) == [Idle EXCEPT !.pc = pc, !.job = worker[w].job, !.fence = worker[w].fence]

LEMMA EndedRow ==
    ASSUME IInv, NEW w \in Workers, NEW pc \in {"complete", "failed"}
    PROVE  /\ Ended(w, pc) \in WorkerRows /\ Ended(w, pc).pc = pc
           /\ Ended(w, pc).job = worker[w].job /\ Ended(w, pc).fence = worker[w].fence
<1>1. worker[w] \in WorkerRows
  BY DEF IInv, Typed
<1> QED
  BY <1>1, IdleRow DEF Ended, WorkerRows, PCs, Idle

LEMMA EndedKnows ==
    ASSUME IInv, NEW w \in Workers, NEW pc \in {"complete", "failed"}, End(w, pc),
           worker[w].pc # "idle",
           pc = "complete" /\ worker[w].job[1] = "preview" =>
               worker[w].job[2] < generation'.version,
           job'[worker[w].job] = job[worker[w].job]
    PROVE  /\ worker' = [worker EXCEPT ![w] = Ended(w, pc)]
           /\ Knows(w)'
<1>1. worker' = [worker EXCEPT ![w] = Ended(w, pc)]
  BY DEF End, Ended
<1>2. worker'[w] = Ended(w, pc)
  BY <1>1 DEF IInv, Typed
<1>3. Claims(w)'
  BY <1>2, EndedRow DEF Claims, HoldsJob, Holds, IInv, Minds, Knows
<1>4. OfChange(w)' /\ OfGeneration(w)'
  BY <1>2, EndedRow DEF OfChange, OfGeneration, Stages, Previewing
<1> QED
  BY <1>1, <1>3, <1>4 DEF Knows

LEMMA FreedKnows ==
    ASSUME IInv, NEW w \in Workers, Free(w)
    PROVE  worker' = [worker EXCEPT ![w] = Idle] /\ Knows(w)'
<1>1. worker'[w] = Idle
  BY DEF Free, IInv, Typed
<1>2. Idle.pc = "idle"
  BY IdleRow
<1> QED
  BY <1>1, <1>2 DEF Free, Knows, Claims, OfChange, OfGeneration, Stages, Previewing

\* A goroutine goes on, with the claim it has.
GoesOn(w, r) == /\ r \in WorkerRows /\ worker' = [worker EXCEPT ![w] = r]
                /\ r.job = worker[w].job /\ r.fence = worker[w].fence
                /\ worker[w].pc # "idle" /\ r.pc # "idle"

LEMMA ClaimGoesOn ==
    ASSUME IInv, NEW w \in Workers, NEW r, GoesOn(w, r), UNCHANGED job
    PROVE  worker'[w] = r /\ Claims(w)'
<1>1. worker'[w] = r
  BY DEF GoesOn, IInv, Typed
<1> QED
  BY <1>1 DEF GoesOn, Claims, HoldsJob, Holds, IInv, Minds, Knows

LEMMA ReadChangeStep ==
    ASSUME IInv, NEW w \in Workers, ReadChange(w)
    PROVE  IInv'
<1>0. worker[w] \in WorkerRows /\ worker[w].pc = "change" /\ Knows(w)
      /\ worker[w].job[1] = "webhook" /\ trouble \in 0..MaxTrouble
  BY DEF IInv, Typed, Minds, Knows, OfChange, ReadChange, Shown
<1>1. CASE End(w, "complete")
  <2>1. worker' = [worker EXCEPT ![w] = Ended(w, "complete")] /\ Knows(w)'
    BY <1>0, <1>1, EndedKnows DEF ReadChange
  <2>2. Ended(w, "complete") \in WorkerRows
    BY EndedRow
  <2> QED
    BY <1>0, <2>1, <2>2, ThoughtOnly DEF ReadChange
<1>2. CASE worker' = [worker EXCEPT ![w].pc = "carry", ![w].state = Change.state,
                                    ![w].gen.rev = Change.rev]
           /\ Change.state # "closed"
  <2> DEFINE r == [worker[w] EXCEPT !.pc = "carry", !.state = Change.state,
                                    !.gen.rev = Change.rev]
  <2>1. forge \in Seq(Events)
    BY DEF IInv, Typed
  <2>2. \E n \in 1..MaxEvents : worker[w].job = <<"webhook", n>> /\ n <= Len(forge)
    <3>1. worker[w].job \in JobIds /\ HoldsJob(w)
      BY <1>0 DEF Knows, Claims
    <3>2. job[worker[w].job] # NoJob
      BY <3>1 DEF HoldsJob, Holds, NoJob
    <3>3. PICK n \in 1..MaxEvents : worker[w].job = <<"webhook", n>>
      BY <1>0, <3>1, JobIdFacts
    <3>4. n <= Len(forge)
      <4>1. Len(forge) \in Nat /\ n \in Nat
        BY <2>1, PlanningAssumption
      <4> QED
        BY <3>2, <3>3, <4>1 DEF IInv, Rows, JobsOfRows
    <3> QED
      BY <3>3, <3>4
  <2>3. Len(forge) \in DOMAIN forge /\ forge # <<>>
    BY <2>1, <2>2, PlanningAssumption
  <2>4. Change \in Events
    BY <2>1, <2>3, ElementOfSeq DEF Change
  <2>5. r \in WorkerRows /\ r.pc = "carry" /\ r.job = worker[w].job
        /\ r.fence = worker[w].fence /\ r.gen.rev = Change.rev /\ r.state = Change.state
    BY <1>0, <2>4 DEF WorkerRows, PCs, Stages, Events, Generations
  <2>6. worker' = [worker EXCEPT ![w] = r]
    BY <1>0, <1>2 DEF IInv, Typed
  <2> HIDE DEF r
  <2>7. GoesOn(w, r)
    BY <1>0, <2>5, <2>6 DEF GoesOn
  <2>8. worker'[w] = r /\ Claims(w)' /\ UNCHANGED forge
    BY <2>7, ClaimGoesOn DEF ReadChange
  <2>9. Change.rev \in Revisions /\ Change' = Change
    BY <2>4, <2>8 DEF Events, Change
  <2>10. OfChange(w)' /\ OfGeneration(w)'
    BY <1>0, <2>3, <2>5, <2>8, <2>9 DEF OfChange, OfGeneration, Stages, Previewing
  <2> QED
    BY <1>0, <2>5, <2>6, <2>8, <2>10, ThoughtOnly DEF Knows, ReadChange
<1> QED
  BY <1>1, <1>2 DEF ReadChange

LEMMA CarryCandidateStep ==
    ASSUME IInv, NEW w \in Workers, CarryCandidate(w)
    PROVE  IInv'
<1>0. worker[w] \in WorkerRows /\ worker[w].pc = "carry" /\ Knows(w)
  BY DEF IInv, Typed, Minds, CarryCandidate
<1>1. trouble' \in 0..MaxTrouble
  BY PlanningAssumption DEF IInv, Shown, CarryCandidate, Trouble
<1>2. PICK c \in Candidates \union {NoCandidate} :
        worker' = [worker EXCEPT ![w] = [worker[w] EXCEPT !.pc = "propose",
                                                          !.gen.cand = c]]
  <2>1. generation.cand \in Candidates \union {NoCandidate}
    BY DEF IInv, Typed, Generations
  <2>2. CASE Goto(w, "propose")
    <3>1. worker[w].gen.cand \in Candidates \union {NoCandidate}
      BY <1>0 DEF WorkerRows, Generations
    <3>2. worker[w].gen = [worker[w].gen EXCEPT !.cand = worker[w].gen.cand]
      BY <1>0 DEF WorkerRows, Generations
    <3>3. [worker[w] EXCEPT !.pc = "propose"]
            = [worker[w] EXCEPT !.pc = "propose", !.gen.cand = worker[w].gen.cand]
      BY <1>0, <3>2 DEF WorkerRows
    <3>4. worker' = [worker EXCEPT ![w] = [worker[w] EXCEPT !.pc = "propose"]]
      BY <2>2 DEF Goto
    <3> QED
      BY <3>1, <3>3, <3>4
  <2>3. CASE worker' = [worker EXCEPT
                          ![w].pc = "propose",
                          ![w].gen.cand = IF generation.rev = worker[w].gen.rev
                                            THEN generation.cand ELSE NoCandidate]
    <3> DEFINE d == IF generation.rev = worker[w].gen.rev
                      THEN generation.cand ELSE NoCandidate
    <3>1. d \in Candidates \union {NoCandidate}
      BY <2>1
    <3> HIDE DEF d
    <3>2. worker' = [worker EXCEPT ![w] = [worker[w] EXCEPT !.pc = "propose",
                                                            !.gen.cand = d]]
      BY <1>0, <2>3 DEF d, IInv, Typed
    <3> QED
      BY <3>1, <3>2
  <2> QED
    BY <2>2, <2>3 DEF CarryCandidate
<1> DEFINE r == [worker[w] EXCEPT !.pc = "propose", !.gen.cand = c]
<1>3. r \in WorkerRows /\ r.pc = "propose" /\ r.job = worker[w].job
      /\ r.fence = worker[w].fence /\ r.gen.rev = worker[w].gen.rev
      /\ r.state = worker[w].state
  BY <1>0 DEF WorkerRows, PCs, Stages, Generations
<1>4. worker' = [worker EXCEPT ![w] = r]
  BY <1>0, <1>2 DEF IInv, Typed
<1> HIDE DEF r
<1>5. GoesOn(w, r)
  BY <1>0, <1>3, <1>4 DEF GoesOn
<1>6. worker'[w] = r /\ Claims(w)' /\ UNCHANGED forge
  BY <1>5, ClaimGoesOn DEF CarryCandidate
<1>7. OfChange(w)' /\ OfGeneration(w)'
  BY <1>0, <1>3, <1>6 DEF Knows, OfChange, OfGeneration, Stages, Previewing, Change
<1> QED
  BY <1>1, <1>3, <1>4, <1>6, <1>7, ThoughtOnly DEF Knows, CarryCandidate

LEMMA ProposeStep ==
    ASSUME IInv, NEW w \in Workers, Propose(w)
    PROVE  IInv'
<1> DEFINE g == Proposed(worker[w].gen.rev, worker[w].gen.cand)
           pc == IF worker[w].state = "merged" THEN "landing" ELSE "preview"
           r == [worker[w] EXCEPT !.gen = g, !.pc = pc]
<1>0. worker[w] \in WorkerRows /\ worker[w].pc = "propose" /\ Knows(w)
      /\ trouble' \in 0..MaxTrouble
  BY DEF IInv, Typed, Shown, Minds, Propose
<1>1. worker[w].gen.rev \in Revisions /\ worker[w].gen.cand \in Candidates \union {NoCandidate}
  BY <1>0 DEF Knows, OfChange, Stages, WorkerRows, Generations
<1>2. /\ g \in Generations /\ g.rev = worker[w].gen.rev /\ IsPlanOf(g)
  BY <1>1, ProposedIsGeneration
<1>3. worker' = [worker EXCEPT ![w].gen = g, ![w].pc = pc]
  BY DEF Propose
<1> HIDE DEF g
<1>4. worker' = [worker EXCEPT ![w] = r]
  BY <1>0, <1>3 DEF IInv, Typed
<1>5. r \in WorkerRows /\ r.pc = pc /\ r.job = worker[w].job
      /\ r.fence = worker[w].fence /\ r.gen = g /\ r.state = worker[w].state
  BY <1>0, <1>2 DEF WorkerRows, PCs, Stages
<1> HIDE DEF r
<1>6. GoesOn(w, r)
  BY <1>0, <1>4, <1>5 DEF GoesOn
<1>7. worker'[w] = r /\ Claims(w)' /\ UNCHANGED <<forge, plans>>
  BY <1>6, ClaimGoesOn DEF Propose
<1>8. OfChange(w)' /\ OfGeneration(w)'
  BY <1>0, <1>1, <1>2, <1>5, <1>7
  DEF Knows, OfChange, OfGeneration, Stages, Previewing, Change, IsPlanOf
<1> QED
  BY <1>0, <1>4, <1>5, <1>7, <1>8, ThoughtOnly DEF Knows, Propose

LEMMA ReadGenerationStep ==
    ASSUME IInv, NEW w \in Workers, ReadGeneration(w)
    PROVE  IInv'
<1>0. worker[w] \in WorkerRows /\ worker[w].pc = "generation" /\ Knows(w)
      /\ trouble' \in 0..MaxTrouble /\ generation \in Generations
  BY DEF IInv, Typed, Shown, Minds, ReadGeneration
<1>1. /\ worker[w].job[1] = "preview" /\ worker[w].job[2] \in Versions
      /\ worker[w].job = Preview(worker[w].job[2]) /\ HoldsJob(w)
  BY <1>0, JobIdFacts DEF Knows, Claims, OfGeneration, Previewing
<1>2. worker[w].job[2] <= generation.version
  <2>1. worker[w].job[2] \in Nat /\ generation.version \in Nat
    BY <1>0, <1>1, PlanningAssumption DEF Versions, Generations
  <2>2. job[worker[w].job] # NoJob
    BY <1>1 DEF HoldsJob, Holds, NoJob
  <2> QED
    BY <1>1, <2>1, <2>2 DEF IInv, Rows, JobsOfRows
<1>3. CASE generation.version = worker[w].job[2]
  <2> DEFINE r == [worker[w] EXCEPT !.pc = "publish", !.gen = generation]
  <2>1. worker' = [worker EXCEPT ![w] = r]
    BY <1>0, <1>3 DEF ReadGeneration, IInv, Typed
  <2>2. r \in WorkerRows /\ r.pc = "publish" /\ r.job = worker[w].job
        /\ r.fence = worker[w].fence /\ r.gen = generation
    BY <1>0 DEF WorkerRows, PCs, Previewing
  <2>3. generation.rev \in Revisions
    BY <1>1, <1>3, PlanningAssumption DEF IInv, Typed, Versions
  <2> HIDE DEF r
  <2>4. worker'[w] = r /\ Claims(w)'
    BY <1>0, <2>1, <2>2, ClaimGoesOn DEF GoesOn, ReadGeneration
  <2>5. OfChange(w)' /\ OfGeneration(w)'
    BY <1>1, <1>3, <2>2, <2>3, <2>4 DEF OfChange, OfGeneration, Stages, Previewing
  <2> QED
    BY <1>0, <2>1, <2>2, <2>4, <2>5, ThoughtOnly DEF Knows, ReadGeneration
<1>4. CASE generation.version # worker[w].job[2]
  <2> DEFINE r == [worker[w] EXCEPT !.pc = "supersede"]
  <2>1. worker' = [worker EXCEPT ![w] = r]
    BY <1>0, <1>4 DEF ReadGeneration, Goto, IInv, Typed
  <2>2. r \in WorkerRows /\ r.pc = "supersede" /\ r.job = worker[w].job
        /\ r.fence = worker[w].fence
    BY <1>0 DEF WorkerRows, PCs, Previewing
  <2> HIDE DEF r
  <2>3. worker'[w] = r /\ Claims(w)' /\ UNCHANGED generation
    BY <1>0, <2>1, <2>2, ClaimGoesOn DEF GoesOn, ReadGeneration
  <2>4. worker[w].job[2] < generation.version
    BY <1>0, <1>1, <1>2, <1>4, PlanningAssumption DEF Versions, Generations
  <2>5. OfChange(w)' /\ OfGeneration(w)'
    BY <1>1, <2>2, <2>3, <2>4 DEF OfChange, OfGeneration, Stages, Previewing
  <2> QED
    BY <1>0, <2>1, <2>2, <2>3, <2>5, ThoughtOnly DEF Knows, ReadGeneration
<1> QED
  BY <1>3, <1>4

LEMMA TroubleStep ==
    ASSUME IInv, NEW w \in Workers, Fault(w) \/ Crash(w)
    PROVE  IInv'
<1>1. trouble' \in 0..MaxTrouble
  BY PlanningAssumption DEF IInv, Shown, Fault, Crash, Trouble
<1>2. CASE Fault(w)
  <2>1. worker' = [worker EXCEPT ![w] = Ended(w, "failed")] /\ Knows(w)'
    BY <1>2, EndedKnows DEF Fault
  <2> QED
    BY <1>1, <1>2, <2>1, EndedRow, ThoughtOnly DEF Fault
<1>3. CASE Crash(w)
  BY <1>1, <1>3, FreedKnows, IdleRow, ThoughtOnly DEF Crash
<1> QED
  BY <1>2, <1>3

-----------------------------------------------------------------------------
(* The forge and its webhooks.                                             *)

LEMMA ForgeEventStep ==
    ASSUME IInv, NEW state \in {"open", "merged", "closed"}, NEW r \in Revisions,
           ForgeEvent(state, r)
    PROVE  IInv'
<1>1. /\ forge \in Seq(Events) /\ [state |-> state, rev |-> r] \in Events
      /\ forge' = Append(forge, [state |-> state, rev |-> r])
  BY DEF IInv, Typed, Events, ForgeEvent
<1>2. forge' \in Seq(Events) /\ Len(forge) \in Nat /\ Len(forge') = Len(forge) + 1
  BY <1>1
<1>3. ~(forge # <<>> /\ Change.state = "merged") /\ intents = {}
  BY DEF ForgeEvent, IInv, IntentsAreMerged
<1>4. Grows
  BY <1>2, <1>3, PlanningAssumption DEF IInv, Typed, Grows, Generations, ForgeEvent
<1>5. Minds'
  BY <1>4, MindsStay DEF ForgeEvent, KeepsJob, IInv, Minds, Asks
<1>6. Typed' /\ Shown'
  BY <1>2, PlanningAssumption DEF IInv, Typed, Shown, ForgeEvent
<1>7. JobsOfRows'
  BY <1>2, PlanningAssumption DEF IInv, Rows, JobsOfRows, ForgeEvent
<1>8. PlanIsCurrent' /\ PlannedByItsJob' /\ IntentsAreMerged' /\ IntentNamesItsPreview'
  BY <1>3 DEF ForgeEvent, IInv, Rows, PlanIsCurrent, PlannedByItsJob, IntentsAreMerged,
              IntentNamesItsPreview
<1> QED
  BY <1>5, <1>6, <1>7, <1>8 DEF IInv, Rows

\* Rows of jobs move, and none is done that the generation's plan depends on.
LEMMA JobsMove ==
    ASSUME IInv, job' \in [JobIds -> JobRow], UNCHANGED <<forge, generation, plans>>,
           \A k \in JobIds : job'[k] # job[k] =>
             /\ k[1] = "preview" => k[2] <= generation.version
             /\ k[1] = "webhook" => k[2] <= Len(forge)
             /\ k = Preview(generation.version) =>
                  (job'[k].state = "done" <=> job[k].state = "done")
    PROVE  Rows' /\ Grows
<1>1. generation.version \in Nat /\ Len(forge) \in Nat
  BY PlanningAssumption DEF IInv, Typed, Generations
<1>2. ASSUME NEW v \in Versions, v > generation.version
      PROVE  job'[Preview(v)] = NoJob
  BY <1>1, <1>2, JobIdFacts, PlanningAssumption DEF IInv, Rows, JobsOfRows, Versions
<1>3. ASSUME NEW n \in 1..MaxEvents, n > Len(forge)
      PROVE  job'[<<"webhook", n>>] = NoJob
  BY <1>1, <1>3, JobIdFacts, PlanningAssumption DEF IInv, Rows, JobsOfRows
<1>4. PlanIsCurrent' /\ PlannedByItsJob'
  BY JobIdFacts DEF IInv, Rows, PlanIsCurrent, PlannedByItsJob
<1>5. Grows
  BY <1>1 DEF IInv, Typed, Grows
<1> QED
  BY <1>2, <1>3, <1>4, <1>5 DEF Rows, JobsOfRows

\* A job that nobody works on changes, and that it is done does not.
LEMMA JobChanges ==
    ASSUME IInv, NEW j \in JobIds, NEW row \in JobRow,
           job' = [job EXCEPT ![j] = row],
           \A w \in Workers : worker[w].pc # "idle" => worker[w].job # j,
           row.state = "done" <=> job[j].state = "done",
           j[1] = "preview" => j[2] <= generation.version,
           j[1] = "webhook" => j[2] <= Len(forge),
           UNCHANGED <<forge, payload, generation, plans, artifacts, intents, check,
                       worker, publisher, trouble>>
    PROVE  IInv'
<1>1. job' \in [JobIds -> JobRow] /\ \A k \in JobIds : k # j => job'[k] = job[k]
  BY DEF IInv, Typed
<1>2. job'[j] = row
  BY DEF IInv, Typed
<1>3. Rows' /\ Grows
  BY <1>1, <1>2, JobsMove
<1>4. \A w \in Workers : KeepsJob(w)
  BY <1>1 DEF KeepsJob, IInv, Minds, Knows, Claims
<1>5. Minds'
  BY <1>3, <1>4, MindsStay DEF IInv, Minds, Asks
<1>6. Typed' /\ Shown'
  BY <1>1 DEF IInv, Typed, Shown
<1>7. IntentsAreMerged' /\ IntentNamesItsPreview'
  BY DEF IInv, IntentsAreMerged, IntentNamesItsPreview, Change
<1> QED
  BY <1>3, <1>5, <1>6, <1>7 DEF IInv

LEMMA IntakeStep ==
    ASSUME IInv, NEW n \in 1..MaxEvents, Intake(n)
    PROVE  IInv'
<1>1. /\ <<"webhook", n>> \in JobIds /\ <<"webhook", n>>[1] = "webhook"
      /\ <<"webhook", n>>[2] = n
  BY JobIdFacts
<1>2. NewJob \in JobRow /\ NewJob.state # "done" /\ NoJob.state # "done"
      /\ NoJob.state # "running"
  BY FreshRow DEF NewJob, NoJob
<1>3. \A w \in Workers : worker[w].pc # "idle" => worker[w].job # <<"webhook", n>>
  BY <1>2 DEF Intake, IInv, Minds, Knows, Claims, HoldsJob, Holds
<1> QED
  BY <1>1, <1>2, <1>3, JobChanges DEF Intake

\* A lease runs out.
LEMMA LapseStep ==
    ASSUME IInv, NEW j \in JobIds, Lapse(j)
    PROVE  IInv'
<1>1. job[j] \in JobRow
  BY DEF IInv, Typed
<1>2. /\ Lapsed(job[j]) \in JobRow /\ Lapsed(job[j]).state = job[j].state
  BY <1>1, LapsedRow DEF Lapsed
<1>3. job' = [job EXCEPT ![j] = Lapsed(job[j])]
  BY DEF Lapse
<1>4. \A w \in Workers : worker[w].pc # "idle" => worker[w].job # j
  BY DEF Lapse, IInv, Minds, Knows, Claims, HoldsJob, Holds
<1>5. job[j] # NoJob
  BY DEF Lapse, NoJob
<1>6. /\ j[1] = "preview" => j[2] <= generation.version
      /\ j[1] = "webhook" => j[2] <= Len(forge)
  <2>1. generation.version \in Nat /\ Len(forge) \in Nat
    BY PlanningAssumption DEF IInv, Typed, Generations
  <2> QED
    BY <1>5, <2>1, JobIdFacts, PlanningAssumption DEF IInv, Rows, JobsOfRows, Versions
<1> QED
  BY <1>2, <1>3, <1>4, <1>6, JobChanges DEF Lapse

-----------------------------------------------------------------------------
(* Storing a generation.                                                   *)

\* What upsertGenerationTx accepts is the generation as it is or the next one,
\* which has no plan and so far no preview job.
Stores(g) ==
    /\ g \in Generations /\ g.rev \in Revisions
    /\ InBounds(g) /\ (Repeats(g) \/ Follows(g))
    /\ generation' = Upserted(g)

LEMMA StoredGeneration ==
    ASSUME IInv, NEW g, Stores(g)
    PROVE  /\ Repeats(g) => generation' = generation /\ g = generation
           /\ Follows(g) => /\ g.version \in Versions
                            /\ g.version = generation.version + 1
                            /\ job[Preview(g.version)] = NoJob
                            /\ generation'.version = g.version
                            /\ generation'.plan = NoPlan
                            /\ generation'.rev = g.rev /\ generation'.cand = g.cand
           /\ Repeats(g) => ~Follows(g)
           /\ generation' \in Generations /\ generation'.version <= MaxVersion
           /\ generation'.version # 0 => generation'.rev \in Revisions
           /\ generation.version <= generation'.version
<1>1. generation \in Generations /\ generation.version \in 0..MaxVersion
      /\ MaxVersion \in Nat /\ NoPlan \in PlanIds \union {NoPlan}
  BY PlanningAssumption DEF IInv, Typed, Generations
<1>2. CASE Repeats(g)
  BY <1>1, <1>2 DEF Stores, Repeats, Follows, Upserted, IInv, Typed
<1>3. CASE Follows(g) /\ ~Repeats(g)
  <2>1. g.version = generation.version + 1 /\ g.version <= MaxVersion
    BY <1>3 DEF Stores, Follows, InBounds
  <2>2. g.version \in Versions /\ g.version > generation.version
    BY <1>1, <2>1 DEF Versions
  <2>3. job[Preview(g.version)] = NoJob
    BY <2>2 DEF IInv, Rows, JobsOfRows
  <2>4. generation' = [g EXCEPT !.plan = NoPlan]
    BY <1>3 DEF Stores, Upserted
  <2>5. /\ generation' \in Generations /\ generation'.version = g.version
        /\ generation'.plan = NoPlan /\ generation'.rev = g.rev
        /\ generation'.cand = g.cand
    BY <1>1, <2>4 DEF Stores, Generations
  <2> QED
    BY <1>1, <1>3, <2>1, <2>2, <2>3, <2>5 DEF Stores
<1> QED
  BY <1>2, <1>3 DEF Stores

\* Its preview job is inserted with it, or, for a landing, not at all.
LEMMA StoredRows ==
    ASSUME IInv, NEW g, Stores(g), UNCHANGED <<forge, plans>>,
           \/ UNCHANGED job
           \/ Follows(g) /\ job' = [job EXCEPT ![Preview(g.version)] = NewJob]
    PROVE  /\ Rows' /\ Grows
           /\ job' \in [JobIds -> JobRow]
           /\ \A w \in Workers : KeepsJob(w)
<1> DEFINE p == Preview(g.version)
<1>1. job \in [JobIds -> JobRow] /\ generation.version \in Nat /\ generation'.version \in Nat
      /\ Len(forge) \in Nat
  BY StoredGeneration, PlanningAssumption DEF IInv, Typed, Generations
<1>2. Follows(g) => p \in JobIds /\ p[1] = "preview" /\ p[2] = g.version
  BY StoredGeneration, JobIdFacts
<1>3. /\ job' \in [JobIds -> JobRow]
      /\ \A k \in JobIds : job'[k] # job[k] =>
           Follows(g) /\ k = p /\ job'[k] = NewJob
  BY <1>1, <1>2, FreshRow
<1>4. \A w \in Workers : KeepsJob(w)
  <2> SUFFICES ASSUME NEW w \in Workers, worker[w].pc # "idle",
                      job'[worker[w].job] # job[worker[w].job]
               PROVE  FALSE
    BY DEF KeepsJob
  <2>1. worker[w].job \in JobIds /\ job[worker[w].job].state = "running"
    BY DEF IInv, Minds, Knows, Claims, HoldsJob, Holds
  <2>2. Follows(g) /\ worker[w].job = p
    BY <1>3, <2>1
  <2> QED
    BY <2>1, <2>2, StoredGeneration DEF NoJob
<1>5. Grows
  BY <1>1, StoredGeneration DEF Grows, IInv, Typed
<1>6. JobsOfRows'
  <2>1. ASSUME NEW v \in Versions, v > generation'.version
        PROVE  job'[Preview(v)] = NoJob
    <3>1. v \in Nat /\ v > generation.version
      BY <1>1, <2>1, StoredGeneration, PlanningAssumption DEF Versions
    <3>2. Follows(g) => v # g.version
      BY <1>1, <2>1, <3>1, StoredGeneration
    <3>3. Preview(v) \in JobIds /\ Preview(v)[2] = v
      BY JobIdFacts
    <3>4. job'[Preview(v)] = job[Preview(v)]
      BY <1>2, <1>3, <3>2, <3>3
    <3> QED
      BY <3>1, <3>4 DEF IInv, Rows, JobsOfRows
  <2>2. ASSUME NEW n \in 1..MaxEvents, n > Len(forge)
        PROVE  job'[<<"webhook", n>>] = NoJob
    <3>1. <<"webhook", n>> \in JobIds /\ <<"webhook", n>>[1] = "webhook"
      BY JobIdFacts
    <3>2. job'[<<"webhook", n>>] = job[<<"webhook", n>>]
      BY <1>2, <1>3, <3>1
    <3> QED
      BY <2>2, <3>2 DEF IInv, Rows, JobsOfRows
  <2> QED
    BY <2>1, <2>2 DEF JobsOfRows
<1>7. PlanIsCurrent'
  BY StoredGeneration DEF Stores, IInv, Rows, PlanIsCurrent
<1>8. PlannedByItsJob'
  <2>1. CASE Repeats(g)
    <3>1. ~Follows(g) /\ generation' = generation
      BY <2>1, StoredGeneration
    <3>2. \A k \in JobIds : job'[k] = job[k]
      BY <1>3, <3>1
    <3> QED
      BY <3>1, <3>2, JobIdFacts DEF IInv, Rows, PlannedByItsJob
  <2>2. CASE Follows(g)
    <3>1. job[p].state = "absent" /\ generation'.version = g.version
          /\ generation'.plan = NoPlan
      BY <2>2, StoredGeneration DEF NoJob
    <3>2. job'[p].state # "done"
      <4>1. p \in JobIds
        BY <1>2, <2>2
      <4>2. CASE job'[p] = job[p]
        BY <3>1, <4>2
      <4>3. CASE job'[p] # job[p]
        BY <1>3, <4>1, <4>3 DEF NewJob
      <4> QED
        BY <4>2, <4>3
    <3> QED
      BY <3>1, <3>2 DEF PlannedByItsJob
  <2> QED
    BY <2>1, <2>2 DEF Stores
<1> QED
  BY <1>3, <1>4, <1>5, <1>6, <1>7, <1>8 DEF Rows

\* The check that goes with a new generation, and its job.
LEMMA ScheduledPlanning ==
    ASSUME IInv, NEW g, Stores(g), SchedulePlanning(g), UNCHANGED <<forge, plans>>
    PROVE  /\ Rows' /\ Grows
           /\ job' \in [JobIds -> JobRow]
           /\ \A w \in Workers : KeepsJob(w)
           /\ payload' \in [Versions -> Heads \union {"none"}]
           /\ check' \in [Heads -> {"none", "planning", "planned", "superseded"}]
<1>1. HeadOf[g.rev] \in Heads
  BY PlanningAssumption DEF Stores
<1>2. \/ UNCHANGED <<job, payload, check>>
      \/ /\ Follows(g) /\ job' = [job EXCEPT ![Preview(g.version)] = NewJob]
         /\ payload' = [payload EXCEPT ![g.version] = HeadOf[g.rev]]
         /\ check' = [check EXCEPT ![HeadOf[g.rev]] = "planning"]
  BY DEF SchedulePlanning, ShowPlanning
<1>3. /\ payload' \in [Versions -> Heads \union {"none"}]
      /\ check' \in [Heads -> {"none", "planning", "planned", "superseded"}]
  BY <1>1, <1>2 DEF IInv, Shown
<1> QED
  BY <1>2, <1>3, StoredRows

-----------------------------------------------------------------------------
(* Candidate publication.                                                  *)

\* Steps that only change what a publication knows.
LEMMA RequestOnly ==
    ASSUME IInv, NEW p \in Publishers, NEW r \in RequestRows,
           publisher' = [publisher EXCEPT ![p] = r],
           r.pc \in {"propose", "schedule"} =>
               r.gen.rev \in Revisions /\ r.gen.cand \in Candidates,
           UNCHANGED <<forge, job, payload, generation, plans, artifacts, intents, check,
                       worker, trouble>>
    PROVE  IInv'
<1>1. Grows /\ \A w \in Workers : KeepsJob(w)
  BY PlanningAssumption DEF IInv, Typed, Grows, Generations, KeepsJob
<1>2. publisher' \in [Publishers -> RequestRows] /\ \A q \in Publishers : Asks(q)'
  <2>1. publisher \in [Publishers -> RequestRows]
    BY DEF IInv, Typed
  <2> QED
    BY <2>1 DEF IInv, Minds, Asks
<1>3. Minds'
  BY <1>1, <1>2, MindsStay DEF Minds
<1>4. Typed' /\ Shown'
  BY <1>2 DEF IInv, Typed, Shown
<1>5. Rows' /\ IntentsAreMerged' /\ IntentNamesItsPreview'
  BY DEF IInv, Rows, JobsOfRows, PlanIsCurrent, PlannedByItsJob, IntentsAreMerged,
         IntentNamesItsPreview, Change
<1> QED
  BY <1>3, <1>4, <1>5 DEF IInv

LEMMA PublishStartStep ==
    ASSUME IInv, NEW p \in Publishers, NEW c \in Candidates, PublishStart(p, c)
    PROVE  IInv'
<1> DEFINE g == [NoGeneration EXCEPT !.rev = Change.rev, !.cand = c]
           r == [pc |-> "propose", gen |-> g]
<1>1. Change \in Events
  <2>1. forge \in Seq(Events) /\ forge # <<>>
    BY DEF IInv, Typed, PublishStart
  <2> QED
    BY <2>1, ElementOfSeq DEF Change
<1>2. g \in Generations /\ g.rev \in Revisions /\ g.cand \in Candidates
  <2>1. NoGeneration \in Generations /\ Change.rev \in Revisions
    BY <1>1, IdleRow DEF Events
  <2> QED
    BY <2>1 DEF Generations
<1>3. publisher' = [publisher EXCEPT ![p] = r]
  BY DEF PublishStart
<1> HIDE DEF g
<1>4. r \in RequestRows
  BY <1>2 DEF RequestRows
<1> QED
  BY <1>2, <1>3, <1>4, RequestOnly DEF PublishStart

LEMMA PublishProposeStep ==
    ASSUME IInv, NEW p \in Publishers, PublishPropose(p)
    PROVE  IInv'
<1> DEFINE g == Proposed(publisher[p].gen.rev, publisher[p].gen.cand)
           r == [pc |-> "schedule", gen |-> g]
<1>1. publisher[p].gen.rev \in Revisions /\ publisher[p].gen.cand \in Candidates
  BY DEF PublishPropose, IInv, Minds, Asks
<1>2. g \in Generations /\ g.rev \in Revisions /\ g.cand \in Candidates
  BY <1>1, ProposedIsGeneration
<1>3. publisher' = [publisher EXCEPT ![p] = r]
  BY DEF PublishPropose
<1> HIDE DEF g
<1>4. r \in RequestRows
  BY <1>2 DEF RequestRows
<1> QED
  BY <1>2, <1>3, <1>4, RequestOnly DEF PublishPropose

LEMMA ScheduleCandidateStep ==
    ASSUME IInv, NEW p \in Publishers, ScheduleCandidate(p)
    PROVE  IInv'
<1> DEFINE g == publisher[p].gen
           r == [NoRequest EXCEPT !.pc = "done"]
<1>1. r \in RequestRows /\ r.pc = "done"
  BY IdleRow DEF RequestRows, NoRequest
<1>2. publisher' = [publisher EXCEPT ![p] = r]
  BY DEF ScheduleCandidate
<1> HIDE DEF r
<1>3. CASE UNCHANGED <<artifacts, generation, job, payload, check>>
  BY <1>1, <1>2, <1>3, RequestOnly DEF ScheduleCandidate
<1>4. CASE /\ Repeats(g) \/ Follows(g)
           /\ artifacts' = artifacts \union {g.cand}
           /\ generation' = Upserted(g)
           /\ SchedulePlanning(g)
  <2>1. g \in Generations /\ g.rev \in Revisions /\ g.cand \in Candidates
    BY DEF ScheduleCandidate, IInv, Typed, RequestRows, Minds, Asks
  <2>2. Stores(g)
    BY <1>4, <2>1 DEF Stores, ScheduleCandidate
  <2> HIDE DEF g
  <2>3. UNCHANGED <<forge, plans, intents, worker, trouble>>
    BY DEF ScheduleCandidate
  <2>4. /\ Rows' /\ Grows /\ job' \in [JobIds -> JobRow]
        /\ \A w \in Workers : KeepsJob(w)
        /\ payload' \in [Versions -> Heads \union {"none"}]
        /\ check' \in [Heads -> {"none", "planning", "planned", "superseded"}]
    BY <1>4, <2>2, <2>3, ScheduledPlanning
  <2>5. publisher' \in [Publishers -> RequestRows] /\ \A q \in Publishers : Asks(q)'
    <3>1. publisher \in [Publishers -> RequestRows]
      BY DEF IInv, Typed
    <3> QED
      BY <1>1, <1>2, <3>1 DEF IInv, Minds, Asks
  <2>6. Minds'
    BY <2>3, <2>4, <2>5, MindsStay DEF Minds
  <2>7. Typed'
    BY <2>2, <2>3, <2>4, <2>5, StoredGeneration DEF IInv, Typed
  <2>8. Shown'
    BY <1>4, <2>1, <2>3, <2>4 DEF IInv, Shown
  <2>9. IntentsAreMerged' /\ IntentNamesItsPreview'
    BY <2>3 DEF IInv, IntentsAreMerged, IntentNamesItsPreview, Change
  <2> QED
    BY <2>4, <2>6, <2>7, <2>8, <2>9 DEF IInv
<1> QED
  BY <1>3, <1>4 DEF ScheduleCandidate

-----------------------------------------------------------------------------
(* What the control worker stores.                                         *)

\* A run that stores a generation is over.
LEMMA StoringEnds ==
    ASSUME IInv, NEW w \in Workers, worker[w].pc \in {"preview", "landing"},
           End(w, "complete"), Rows', Grows, job' \in [JobIds -> JobRow],
           \A v \in Workers : KeepsJob(v), Stores(worker[w].gen),
           UNCHANGED <<forge, plans, publisher>>
    PROVE  Typed' /\ Minds'
<1>1. worker' = [worker EXCEPT ![w] = Ended(w, "complete")] /\ Knows(w)'
  <2>1. worker[w].job[1] = "webhook" /\ worker[w].pc # "idle"
    BY DEF IInv, Minds, Knows, OfChange, Stages
  <2> QED
    BY <2>1, EndedKnows DEF KeepsJob
<1>2. WorkerTurns(w)
  BY <1>1, EndedRow DEF IInv, Typed, WorkerTurns
<1>3. Minds'
  BY <1>2, MindsAfter
<1>4. Typed'
  BY <1>2, StoredGeneration DEF IInv, Typed, WorkerTurns
<1> QED
  BY <1>3, <1>4

LEMMA SchedulePreviewStep ==
    ASSUME IInv, NEW w \in Workers, SchedulePreview(w)
    PROVE  IInv'
<1> DEFINE g == worker[w].gen
<1>1. g \in Generations /\ g.rev \in Revisions /\ worker[w].pc = "preview"
  BY DEF SchedulePreview, IInv, Typed, WorkerRows, Minds, Knows, OfChange, Stages
<1>2. UNCHANGED <<forge, plans, artifacts, intents, publisher, trouble>>
  BY DEF SchedulePreview
<1>3. CASE Repeats(g) \/ Follows(g)
  <2>1. Stores(g) /\ SchedulePlanning(g) /\ End(w, "complete")
    BY <1>1, <1>3 DEF Stores, SchedulePreview
  <2>2. /\ Rows' /\ Grows /\ job' \in [JobIds -> JobRow]
        /\ \A v \in Workers : KeepsJob(v)
        /\ payload' \in [Versions -> Heads \union {"none"}]
        /\ check' \in [Heads -> {"none", "planning", "planned", "superseded"}]
    BY <1>2, <2>1, ScheduledPlanning
  <2>3. Typed' /\ Minds'
    BY <1>1, <1>2, <2>1, <2>2, StoringEnds
  <2>4. Shown' /\ IntentsAreMerged' /\ IntentNamesItsPreview'
    BY <1>2, <2>2 DEF IInv, Shown, IntentsAreMerged, IntentNamesItsPreview, Change
  <2> QED
    BY <2>2, <2>3, <2>4 DEF IInv
<1>4. CASE ~(Repeats(g) \/ Follows(g))
  <2>1. End(w, "failed") /\ UNCHANGED <<generation, job, payload, check>>
    BY <1>4 DEF SchedulePreview
  <2>2. worker' = [worker EXCEPT ![w] = Ended(w, "failed")] /\ Knows(w)'
    BY <1>1, <2>1, EndedKnows
  <2>3. trouble' \in 0..MaxTrouble
    BY <1>2 DEF IInv, Shown
  <2> QED
    BY <1>2, <2>1, <2>2, <2>3, EndedRow, ThoughtOnly
<1> QED
  BY <1>3, <1>4

LEMMA ScheduleLandingStep ==
    ASSUME IInv, NEW w \in Workers, ScheduleLanding(w)
    PROVE  IInv'
<1> DEFINE g == worker[w].gen
<1>1. /\ g \in Generations /\ worker[w].pc = "landing"
      /\ g.rev \in Revisions /\ g.rev = Change.rev /\ IsPlanOf(g)
      /\ forge # <<>> /\ Change.state = "merged"
  BY DEF ScheduleLanding, IInv, Typed, WorkerRows, Minds, Knows, OfChange, Stages
<1>2. UNCHANGED <<forge, job, payload, plans, artifacts, publisher, trouble>>
  BY DEF ScheduleLanding
<1>3. CASE Repeats(g) \/ Follows(g)
  <2>1. Stores(g) /\ End(w, "complete")
    BY <1>1, <1>3 DEF Stores, ScheduleLanding
  <2>2. /\ Rows' /\ Grows /\ job' \in [JobIds -> JobRow]
        /\ \A v \in Workers : KeepsJob(v)
    BY <1>2, <2>1, StoredRows
  <2>3. Typed' /\ Minds'
    BY <1>1, <1>2, <2>1, <2>2, StoringEnds
  <2>4. \/ UNCHANGED <<intents, check>>
        \/ /\ intents' = intents \union {[cand |-> g.cand, plan |-> g.plan]}
           /\ check' = [check EXCEPT ![HeadOf[g.rev]] = "planning"]
    BY <1>3 DEF ScheduleLanding, ShowPlanning
  <2>5. Shown'
    BY <1>1, <1>2, <2>4, PlanningAssumption DEF IInv, Shown, Generations
  <2>6. Change' = Change
    BY <1>2 DEF Change
  <2>7. IntentsAreMerged'
    BY <1>1, <1>2, <2>6 DEF IntentsAreMerged
  <2>8. IntentNamesItsPreview'
    BY <1>1, <1>2, <2>4, <2>6 DEF IInv, IntentNamesItsPreview, IsPlanOf
  <2> QED
    BY <2>2, <2>3, <2>5, <2>7, <2>8 DEF IInv
<1>4. CASE ~(Repeats(g) \/ Follows(g))
  <2>1. End(w, "failed") /\ UNCHANGED <<generation, intents, check>>
    BY <1>4 DEF ScheduleLanding
  <2>2. worker' = [worker EXCEPT ![w] = Ended(w, "failed")] /\ Knows(w)'
    BY <1>1, <1>2, <2>1, EndedKnows
  <2>3. trouble' \in 0..MaxTrouble
    BY <1>2 DEF IInv, Shown
  <2> QED
    BY <1>2, <2>1, <2>2, <2>3, EndedRow, ThoughtOnly
<1> QED
  BY <1>3, <1>4

LEMMA PublishSupersededStep ==
    ASSUME IInv, NEW w \in Workers, PublishSuperseded(w)
    PROVE  IInv'
<1>1. worker[w].job[2] < generation.version
  BY DEF PublishSuperseded, IInv, Minds, Knows, OfGeneration, Previewing
<1>2. worker' = [worker EXCEPT ![w] = Ended(w, "complete")] /\ Knows(w)'
  BY <1>1, EndedKnows DEF PublishSuperseded
<1>3. /\ check' \in [Heads -> {"none", "planning", "planned", "superseded"}]
      /\ trouble' \in 0..MaxTrouble
  BY DEF PublishSuperseded, IInv, Shown
<1> QED
  BY <1>2, <1>3, EndedRow, ThoughtAndCheck DEF PublishSuperseded

-----------------------------------------------------------------------------
(* Claiming and settling jobs.                                             *)

\* What a worker knows of the job it works on.
LEMMA JobInHand ==
    ASSUME IInv, NEW w \in Workers, worker[w].pc # "idle"
    PROVE  LET j == worker[w].job IN
           /\ j \in JobIds /\ HoldsJob(w) /\ job[j] \in JobRow
           /\ job[j].state = "running" /\ job[j].live
           /\ j[1] = "preview" => j[2] <= generation.version
           /\ j[1] = "webhook" => j[2] <= Len(forge)
<1> DEFINE j == worker[w].job
<1>1. j \in JobIds /\ HoldsJob(w) /\ job[j].live /\ job \in [JobIds -> JobRow]
  BY DEF IInv, Typed, Minds, Knows, Claims
<1>2. job[j].state = "running" /\ job[j] # NoJob
  BY <1>1 DEF HoldsJob, Holds, NoJob
<1>3. generation.version \in Nat /\ Len(forge) \in Nat
  BY PlanningAssumption DEF IInv, Typed, Generations
<1>4. /\ j[1] = "preview" => j[2] <= generation.version
      /\ j[1] = "webhook" => j[2] <= Len(forge)
  BY <1>1, <1>2, <1>3, JobIdFacts, PlanningAssumption DEF IInv, Rows, JobsOfRows, Versions
<1> QED
  BY <1>1, <1>2, <1>4

\* A worker settles its job and is free.
LEMMA JobIsSettled ==
    ASSUME IInv, NEW w \in Workers, worker[w].pc # "idle", NEW row \in JobRow,
           job' = Settled(w, row), Free(w)
    PROVE  /\ job' \in [JobIds -> JobRow] /\ WorkerTurns(w)
           /\ job'[worker[w].job] = row
           /\ \A k \in JobIds : k # worker[w].job => job'[k] = job[k]
<1>1. worker[w].job \in JobIds /\ job \in [JobIds -> JobRow]
      /\ worker \in [Workers -> WorkerRows]
  BY JobInHand DEF IInv, Typed
<1>2. /\ job' \in [JobIds -> JobRow] /\ job'[worker[w].job] = row
      /\ \A k \in JobIds : k # worker[w].job => job'[k] = job[k]
  BY <1>1 DEF Settled
<1>3. worker' = [worker EXCEPT ![w] = Idle] /\ Knows(w)'
  BY FreedKnows
<1>4. \A v \in Workers : v # w => KeepsJob(v)
  BY <1>2, OwnJob, JobInHand DEF KeepsJob, IInv, Minds
<1>5. WorkerTurns(w)
  BY <1>1, <1>3, <1>4, IdleRow DEF WorkerTurns
<1> QED
  BY <1>2, <1>5

\* A step of a worker on the table of jobs.
LEMMA JobStep ==
    ASSUME IInv, NEW w \in Workers, WorkerTurns(w), job' \in [JobIds -> JobRow],
           \A k \in JobIds : job'[k] # job[k] =>
             /\ k[1] = "preview" => k[2] <= generation.version
             /\ k[1] = "webhook" => k[2] <= Len(forge)
             /\ k = Preview(generation.version) =>
                  (job'[k].state = "done" <=> job[k].state = "done"),
           UNCHANGED <<forge, payload, generation, plans, artifacts, intents, check,
                       publisher, trouble>>
    PROVE  IInv'
<1>1. Rows' /\ Grows
  BY JobsMove
<1>2. Minds'
  BY <1>1, MindsAfter
<1>3. Typed' /\ Shown'
  BY DEF IInv, Typed, Shown, WorkerTurns
<1>4. IntentsAreMerged' /\ IntentNamesItsPreview'
  BY DEF IInv, IntentsAreMerged, IntentNamesItsPreview, Change
<1> QED
  BY <1>1, <1>2, <1>3, <1>4 DEF IInv

LEMMA CompleteJobStep ==
    ASSUME IInv, NEW w \in Workers, CompleteJob(w)
    PROVE  IInv'
<1>1. worker[w].pc = "complete" /\ HoldsJob(w)
  BY JobInHand DEF CompleteJob
<1>2. Completed(job[worker[w].job]) \in JobRow
  BY <1>1, JobInHand, SettledIsRow
<1>3. job' = Settled(w, Completed(job[worker[w].job])) /\ Free(w)
  BY <1>1 DEF CompleteJob
<1>4. /\ job' \in [JobIds -> JobRow] /\ WorkerTurns(w)
      /\ \A k \in JobIds : k # worker[w].job => job'[k] = job[k]
  BY <1>1, <1>2, <1>3, JobIsSettled
<1>5. worker[w].job # Preview(generation.version)
  <2>1. /\ Preview(generation.version)[1] = "preview"
        /\ Preview(generation.version)[2] = generation.version
    BY DEF Preview
  <2>2. worker[w].job[1] = "preview" => worker[w].job[2] < generation.version
    BY <1>1 DEF IInv, Minds, Knows, OfGeneration
  <2>3. generation.version \in Nat
    BY PlanningAssumption DEF IInv, Typed, Generations
  <2> QED
    BY <2>1, <2>2, <2>3
<1> QED
  BY <1>1, <1>4, <1>5, JobInHand, JobStep DEF CompleteJob

LEMMA HandleFailureStep ==
    ASSUME IInv, NEW w \in Workers, HandleFailure(w)
    PROVE  IInv'
<1> DEFINE row == FailedOnce(job[worker[w].job])
<1>1. worker[w].pc = "failed" /\ HoldsJob(w) /\ job[worker[w].job].state = "running"
  BY JobInHand DEF HandleFailure
<1>2. row \in JobRow /\ row.state # "done"
  <2>1. row.state \in {"failed", "retryable"}
    BY DEF FailedOnce, Released
  <2> QED
    BY <1>1, <2>1, JobInHand, SettledIsRow
<1>3. job' = Settled(w, row) /\ Free(w)
  BY <1>1 DEF HandleFailure
<1> HIDE DEF row
<1>4. /\ job' \in [JobIds -> JobRow] /\ WorkerTurns(w)
      /\ job'[worker[w].job] = row
      /\ \A k \in JobIds : k # worker[w].job => job'[k] = job[k]
  BY <1>1, <1>2, <1>3, JobIsSettled
<1> QED
  BY <1>1, <1>2, <1>4, JobInHand, JobStep DEF HandleFailure

\* A claim settles the exhausted rows and leases one that nobody works on.
LEMMA ClaimJobStep ==
    ASSUME IInv, NEW w \in Workers, ClaimJob(w)
    PROVE  IInv'
<1>1. job \in [JobIds -> JobRow] /\ worker \in [Workers -> WorkerRows]
  BY DEF IInv, Typed
<1>2. ASSUME NEW k \in JobIds
      PROVE  /\ SweptJob(k) \in JobRow
             /\ SweptJob(k) # job[k] => Exhausted(job[k]) /\ SweptJob(k).state # "done"
  <2>1. CASE Exhausted(job[k])
    BY <1>1, <2>1, SettledIsRow DEF SweptJob, Exhausted, GaveUp, Released
  <2>2. CASE ~Exhausted(job[k])
    BY <1>1, <2>2 DEF SweptJob
  <2> QED
    BY <2>1, <2>2
<1>3. ASSUME NEW k \in JobIds, Exhausted(job[k]) \/ Claimable(job[k])
      PROVE  /\ job[k].state # "done"
             /\ k[1] = "preview" => k[2] <= generation.version
             /\ k[1] = "webhook" => k[2] <= Len(forge)
             /\ \A v \in Workers : worker[v].pc # "idle" => worker[v].job # k
  <2>1. job[k] # NoJob /\ job[k].state # "done"
    BY <1>3 DEF Exhausted, Claimable, Waiting, NoJob
  <2>2. \A v \in Workers : worker[v].pc # "idle" => worker[v].job # k
    BY <1>3, JobInHand DEF Exhausted, Claimable, Waiting
  <2>3. generation.version \in Nat /\ Len(forge) \in Nat
    BY PlanningAssumption DEF IInv, Typed, Generations
  <2>4. /\ k[1] = "preview" => k[2] <= generation.version
        /\ k[1] = "webhook" => k[2] <= Len(forge)
    BY <2>1, <2>3, JobIdFacts, PlanningAssumption DEF IInv, Rows, JobsOfRows, Versions
  <2> QED
    BY <2>1, <2>2, <2>4
<1>4. UNCHANGED <<forge, payload, generation, plans, artifacts, intents, check,
                  publisher, trouble>>
  BY DEF ClaimJob
<1>5. CASE /\ Eligible(w) = {}
           /\ job' = [j \in JobIds |-> SweptJob(j)]
           /\ UNCHANGED worker
  <2>1. job' \in [JobIds -> JobRow]
    BY <1>2, <1>5
  <2>2. \A k \in JobIds : job'[k] # job[k] => Exhausted(job[k]) /\ job'[k].state # "done"
    BY <1>2, <1>5
  <2>3. \A v \in Workers : KeepsJob(v)
    BY <1>3, <2>2, JobInHand DEF KeepsJob
  <2>4. Grows
    BY <1>4, PlanningAssumption DEF IInv, Typed, Grows, Generations
  <2>5. WorkerTurns(w)
    BY <1>1, <1>5, <2>3, <2>4, MindsStay DEF WorkerTurns
  <2> QED
    BY <1>3, <1>4, <2>1, <2>2, <2>5, JobStep
<1>6. ASSUME NEW j \in Eligible(w),
             job' = [k \in JobIds |-> IF k = j THEN Leased(job[j], w) ELSE SweptJob(k)],
             worker' = [worker EXCEPT ![w] = [Idle EXCEPT
                   !.job = j, !.fence = job[j].fence + 1,
                   !.pc = IF j[1] = "webhook" THEN "change" ELSE "generation"]]
      PROVE  IInv'
  <2> DEFINE r == [Idle EXCEPT !.job = j, !.fence = job[j].fence + 1,
                               !.pc = IF j[1] = "webhook" THEN "change" ELSE "generation"]
  <2>1. j \in JobIds /\ Claimable(job[j]) /\ j[1] \in Kinds[w] /\ job[j] \in JobRow
    BY <1>1 DEF Eligible
  <2>2. /\ Leased(job[j], w) \in JobRow /\ Leased(job[j], w).state = "running"
        /\ Leased(job[j], w).fence = job[j].fence + 1
        /\ Leased(job[j], w).owner = w /\ Leased(job[j], w).live
    BY <2>1, LeasedRow DEF Leased
  <2>3. job' \in [JobIds -> JobRow] /\ job'[j] = Leased(job[j], w)
    BY <1>2, <1>6, <2>1, <2>2
  <2>4. \A k \in JobIds : job'[k] # job[k] =>
          (Exhausted(job[k]) \/ Claimable(job[k])) /\ job'[k].state # "done"
    BY <1>2, <1>6, <2>1, <2>2
  <2>5. \A v \in Workers : KeepsJob(v)
    BY <1>3, <2>4, JobInHand DEF KeepsJob
  <2>6. job[j].fence + 1 \in Nat
    BY <2>1 DEF JobRow
  <2>7. /\ r \in WorkerRows /\ r.job = j /\ r.fence = job[j].fence + 1
        /\ r.pc = IF j[1] = "webhook" THEN "change" ELSE "generation"
    BY <2>1, <2>6, IdleRow DEF WorkerRows, PCs, Previewing
  <2> HIDE DEF r
  <2>8. worker' = [worker EXCEPT ![w] = r] /\ worker'[w] = r
    BY <1>1, <1>6 DEF r
  <2>9. Claims(w)'
    BY <2>1, <2>2, <2>3, <2>7, <2>8 DEF Claims, HoldsJob, Holds
  <2>10. OfChange(w)' /\ OfGeneration(w)'
    BY <2>1, <2>7, <2>8, JobIdFacts DEF OfChange, OfGeneration, Stages, Previewing
  <2>11. WorkerTurns(w)
    BY <1>1, <2>5, <2>7, <2>8, <2>9, <2>10 DEF WorkerTurns, Knows
  <2> QED
    BY <1>3, <1>4, <2>3, <2>4, <2>11, JobStep
<1> QED
  BY <1>5, <1>6 DEF ClaimJob

\* The plan becomes that of the generation and its job is done, together.
LEMMA PublishPreviewResultStep ==
    ASSUME IInv, NEW w \in Workers, PublishPreviewResult(w)
    PROVE  IInv'
<1>1. /\ worker[w].pc = "publish" /\ worker[w] \in WorkerRows
      /\ worker[w].gen.version = worker[w].job[2] /\ worker[w].gen.rev \in Revisions
      /\ worker[w].job[1] = "preview" /\ worker[w].gen \in Generations
  BY DEF PublishPreviewResult, IInv, Typed, WorkerRows, Minds, Knows, OfGeneration, Previewing
<1>2. UNCHANGED <<forge, payload, artifacts, intents, publisher, trouble>>
  BY DEF PublishPreviewResult
<1>3. CASE UNCHANGED <<plans, generation, check, job>> /\ End(w, "failed")
  <2>1. worker' = [worker EXCEPT ![w] = Ended(w, "failed")] /\ Knows(w)'
    BY <1>1, <1>3, EndedKnows
  <2>2. trouble' \in 0..MaxTrouble
    BY <1>2 DEF IInv, Shown
  <2> QED
    BY <1>2, <1>3, <2>1, <2>2, EndedRow, ThoughtOnly
<1>4. ASSUME NEW v \in Contexts, CurrentContent(worker[w].gen),
             plans' = plans \union {PlanOf(w, v)},
             generation' = [generation EXCEPT !.plan = PlanOf(w, v)],
             check' = [check EXCEPT ![HeadOf[worker[w].gen.rev]] = "planned"],
             job' = Settled(w, Completed(job[worker[w].job])), Free(w)
      PROVE  IInv'
  <2> DEFINE p == PlanOf(w, v)
             j == worker[w].job
  <2>1. /\ p \in PlanIds /\ p.rev = generation.rev /\ p.cand = generation.cand
        /\ p # NoPlan
    BY <1>1, <1>4, NoPlanAssumption DEF PlanOf, PlanIds, CurrentContent, Generations
  <2> HIDE DEF p
  <2>2. generation \in Generations /\ generation.version \in Nat
        /\ generation.version <= MaxVersion
        /\ (generation.version # 0 => generation.rev \in Revisions)
    BY PlanningAssumption DEF IInv, Typed, Generations
  <2>3. /\ generation' \in Generations /\ generation'.version = generation.version
        /\ generation'.rev = generation.rev /\ generation'.cand = generation.cand
        /\ generation'.plan = p
    BY <1>4, <2>1, <2>2 DEF Generations, p
  <2>4. Completed(job[j]) \in JobRow /\ Completed(job[j]).state = "done"
    BY <1>1, JobInHand, SettledIsRow DEF Completed, Released
  <2>5. /\ job' \in [JobIds -> JobRow] /\ WorkerTurns(w) /\ job'[j].state = "done"
        /\ \A k \in JobIds : k # j => job'[k] = job[k]
    BY <1>1, <1>4, <2>4, JobIsSettled
  <2>6. j = Preview(generation.version) /\ j \in JobIds
    <3>1. j \in JobIds
      BY <1>1, JobInHand
    <3>2. j = Preview(j[2])
      BY <1>1, <3>1, JobIdFacts
    <3>3. generation.version = j[2]
      BY <1>1, <1>4 DEF CurrentContent
    <3> QED
      BY <3>1, <3>2, <3>3
  <2>7. Grows
    BY <1>2, <1>4, <2>2, <2>3 DEF IInv, Typed, Grows
  <2>8. Minds'
    BY <1>2, <2>5, <2>7, MindsAfter
  <2>9. plans' \subseteq PlanIds
    BY <1>4, <2>1 DEF IInv, Typed, p
  <2>10. Typed'
    BY <1>2, <2>2, <2>3, <2>5, <2>9 DEF IInv, Typed, WorkerTurns
  <2>11. Shown'
    BY <1>2, <1>4 DEF IInv, Shown
  <2>12. PlanIsCurrent'
    BY <1>4, <2>1, <2>3 DEF PlanIsCurrent, p
  <2>13. PlannedByItsJob'
    BY <2>1, <2>3, <2>5, <2>6 DEF PlannedByItsJob
  <2>14. JobsOfRows'
    <3>1. ASSUME NEW u \in Versions, u > generation.version
          PROVE  job'[Preview(u)] = NoJob
      <4>1. Preview(u) # j /\ Preview(u) \in JobIds
        BY <2>2, <2>6, <3>1, JobIdFacts DEF Preview, Versions
      <4> QED
        BY <2>5, <3>1, <4>1 DEF IInv, Rows, JobsOfRows
    <3>2. ASSUME NEW n \in 1..MaxEvents, n > Len(forge)
          PROVE  job'[<<"webhook", n>>] = NoJob
      <4>1. <<"webhook", n>> # j /\ <<"webhook", n>> \in JobIds
        BY <1>1, JobIdFacts
      <4> QED
        BY <2>5, <3>2, <4>1 DEF IInv, Rows, JobsOfRows
    <3> QED
      BY <1>2, <2>3, <3>1, <3>2 DEF JobsOfRows
  <2>15. IntentsAreMerged' /\ IntentNamesItsPreview'
    BY <1>2, <1>4 DEF IInv, IntentsAreMerged, IntentNamesItsPreview, Change
  <2> QED
    BY <2>8, <2>10, <2>11, <2>12, <2>13, <2>14, <2>15 DEF IInv, Rows
<1> QED
  BY <1>3, <1>4 DEF PublishPreviewResult

-----------------------------------------------------------------------------
LEMMA NextIInv == IInv /\ [Next]_vars => IInv'
<1> SUFFICES ASSUME IInv, [Next]_vars
             PROVE  IInv'
  OBVIOUS
<1>1. CASE UNCHANGED vars
  BY <1>1 DEF vars, IInv, Typed, Shown, Rows, Minds, JobsOfRows, PlanIsCurrent,
     PlannedByItsJob, Knows, Claims, OfChange, OfGeneration, Asks, IntentsAreMerged,
     IntentNamesItsPreview, HoldsJob, IsPlanOf, Change
<1>2. ASSUME NEW w \in Workers, WorkerStep(w)
      PROVE  IInv'
  BY <1>2, ClaimJobStep, ReadChangeStep, CarryCandidateStep, ProposeStep,
     SchedulePreviewStep, ScheduleLandingStep, ReadGenerationStep, PublishSupersededStep,
     PublishPreviewResultStep, CompleteJobStep, HandleFailureStep, TroubleStep
  DEF WorkerStep, WebhookStep, PreviewStep
<1>3. ASSUME NEW p \in Publishers,
             (\E c \in Candidates : PublishStart(p, c)) \/ PublishPropose(p)
               \/ ScheduleCandidate(p)
      PROVE  IInv'
  BY <1>3, PublishStartStep, PublishProposeStep, ScheduleCandidateStep
<1> QED
  BY <1>1, <1>2, <1>3, ForgeEventStep, IntakeStep, LapseStep DEF Next

\* What the runs of webhook and preview jobs remember fits the rows they left it
\* from, in every execution.
THEOREM Invariance == Spec => []IInv
  BY InitIInv, NextIInv, PTL DEF Spec

\* The rows, the claims and the requests stay well formed.
THEOREM TypeCorrect == Spec => []TypeOK
<1>1. IInv => TypeOK
  <2> SUFFICES ASSUME IInv
               PROVE  TypeOK
    OBVIOUS
  <2>1. ASSUME NEW n \in 1..Len(forge)
        PROVE  forge[n] \in Events
    BY ElementOfSeq DEF IInv, Typed
  <2>2. worker \in [Workers -> WorkerRows] /\ publisher \in [Publishers -> RequestRows]
    BY DEF IInv, Typed
  <2> QED
    BY <2>1, <2>2 DEF IInv, Typed, Shown, TypeOK, Events, WorkerRows, PCs, Stages,
       Previewing, RequestRows
<1> QED
  BY <1>1, Invariance, PTL

\* A preview that was planned while the change moved on is never published.
THEOREM PlansAreCurrent == Spec => []PlanIsCurrent
  BY Invariance, PTL DEF IInv, Rows

\* The preview job of the current generation is done exactly when its plan is
\* stored: none is closed as superseded that is still awaited.
THEOREM PreviewsAreAccounted == Spec => []PlannedByItsJob
  BY Invariance, PTL DEF IInv, Rows

\* The plan a landing is scheduled with is one of the merged revision and of its
\* own candidate, however late its webhook was handled.
THEOREM IntentsNamePreviews == Spec => []IntentNamesItsPreview
  BY Invariance, PTL DEF IInv

-----------------------------------------------------------------------------
(* What the check shows.                                                   *)

\* The head of the generation has a check once the generation has a plan.
LEMMA PlannedHead ==
    ASSUME IInv, generation.plan # NoPlan
    PROVE  /\ generation.rev \in Revisions /\ HeadOf[generation.rev] \in Heads
           /\ check \in [Heads -> {"none", "planning", "planned", "superseded"}]
           /\ generation.version \in Nat
<1>1. generation.rev \in Revisions
  BY DEF IInv, Typed, Rows, PlanIsCurrent, PlanIds
<1> QED
  BY <1>1, PlanningAssumption DEF IInv, Typed, Shown, Generations

\* Storing a generation either brings the next one, which has no plan yet, or
\* leaves the stored one as it is.
LEMMA NextHasNoPlan ==
    ASSUME IInv, NEW g \in Generations, Repeats(g) \/ Follows(g),
           generation' = Upserted(g), generation'.plan # NoPlan
    PROVE  ~Follows(g) /\ g = generation /\ generation' = generation
<1>1. ~Follows(g)
  BY DEF Upserted, Generations
<1> QED
  BY <1>1 DEF Upserted, Repeats

\* A step that changes neither generations, nor payloads, nor checks.
LEMMA CheckStays ==
    ASSUME CheckShowsPlan, UNCHANGED <<generation, payload, check, intents>>
    PROVE  CheckShowsPlan'
  BY DEF CheckShowsPlan, HasIntent

LEMMA CheckOfStored ==
    ASSUME IInv, CheckShowsPlan, NEW g \in Generations, Repeats(g) \/ Follows(g),
           generation' = Upserted(g), SchedulePlanning(g), UNCHANGED intents
    PROVE  CheckShowsPlan'
<1>1. CASE generation'.plan = NoPlan
  BY <1>1 DEF CheckShowsPlan
<1>2. CASE generation'.plan # NoPlan
  <2>1. ~Follows(g) /\ generation' = generation
    BY <1>2, NextHasNoPlan
  <2>2. UNCHANGED <<payload, check>>
    BY <2>1 DEF SchedulePlanning
  <2> QED
    BY <2>1, <2>2, CheckStays
<1> QED
  BY <1>1, <1>2

LEMMA CheckOfCandidate ==
    ASSUME IInv, CheckShowsPlan, NEW p \in Publishers, ScheduleCandidate(p)
    PROVE  CheckShowsPlan'
<1> DEFINE g == publisher[p].gen
<1>1. g \in Generations
  BY DEF IInv, Typed, RequestRows
<1>2. \/ /\ Repeats(g) \/ Follows(g)
         /\ generation' = Upserted(g) /\ SchedulePlanning(g)
      \/ UNCHANGED <<generation, payload, check>>
  BY DEF ScheduleCandidate
<1>3. UNCHANGED intents
  BY DEF ScheduleCandidate
<1> QED
  BY <1>1, <1>2, <1>3, CheckOfStored, CheckStays

LEMMA CheckOfPreview ==
    ASSUME IInv, CheckShowsPlan, NEW w \in Workers, SchedulePreview(w)
    PROVE  CheckShowsPlan'
<1> DEFINE g == worker[w].gen
<1>1. g \in Generations
  BY DEF IInv, Typed, WorkerRows
<1>2. \/ /\ Repeats(g) \/ Follows(g)
         /\ generation' = Upserted(g) /\ SchedulePlanning(g)
      \/ UNCHANGED <<generation, payload, check>>
  BY DEF SchedulePreview
<1>3. UNCHANGED intents
  BY DEF SchedulePreview
<1> QED
  BY <1>1, <1>2, <1>3, CheckOfStored, CheckStays

\* The landing of a planned generation is scheduled: its check says so.
LEMMA CheckOfLanding ==
    ASSUME IInv, CheckShowsPlan, NEW w \in Workers, ScheduleLanding(w)
    PROVE  CheckShowsPlan'
<1> DEFINE g == worker[w].gen
<1>1. g \in Generations
  BY DEF IInv, Typed, WorkerRows
<1>2. CASE ~(Repeats(g) \/ Follows(g))
  BY <1>2, CheckStays DEF ScheduleLanding
<1>3. CASE (Repeats(g) \/ Follows(g)) /\ generation'.plan = NoPlan
  BY <1>3 DEF CheckShowsPlan
<1>4. CASE (Repeats(g) \/ Follows(g)) /\ generation'.plan # NoPlan
  <2>1. generation' = Upserted(g) /\ UNCHANGED payload
    BY <1>4 DEF ScheduleLanding
  <2>2. g = generation /\ generation' = generation
    BY <1>1, <1>4, <2>1, NextHasNoPlan
  <2>3. CASE HasIntent(g.cand)
    BY <1>4, <2>1, <2>2, <2>3, CheckStays DEF ScheduleLanding
  <2>4. CASE ~HasIntent(g.cand)
    <3>1. /\ intents' = intents \union {[cand |-> g.cand, plan |-> g.plan]}
          /\ check' = [check EXCEPT ![HeadOf[g.rev]] = "planning"]
      BY <1>4, <2>4 DEF ScheduleLanding, ShowPlanning
    <3>2. HasIntent(generation.cand)'
      <4>1. [cand |-> g.cand, plan |-> g.plan] \in intents'
        BY <3>1
      <4>2. [cand |-> g.cand, plan |-> g.plan].cand = generation'.cand
        BY <2>2
      <4> QED
        BY ONLY <4>1, <4>2 DEF HasIntent
    <3>3. check'[HeadOf[generation'.rev]] = "planning"
      BY <1>4, <2>2, <3>1, PlannedHead
    <3> QED
      BY <3>2, <3>3 DEF CheckShowsPlan
  <2> QED
    BY <2>3, <2>4
<1> QED
  BY <1>2, <1>3, <1>4

\* A superseded preview is that of an older generation; its report reaches the
\* check of the current one only if both are of one head.
LEMMA CheckOfSuperseded ==
    ASSUME IInv, CheckShowsPlan, NEW w \in Workers, PublishSuperseded(w)
    PROVE  CheckShowsPlan'
<1> DEFINE u == worker[w].job[2]
           head == HeadOf[generation.rev]
<1>1. /\ check' = [check EXCEPT ![payload[u]] = "superseded"]
      /\ UNCHANGED <<generation, payload, intents>>
  BY DEF PublishSuperseded
<1>2. SUFFICES ASSUME generation.plan # NoPlan
               PROVE  CheckShowsPlan'
  BY <1>1 DEF CheckShowsPlan
<1>3. head \in Heads /\ generation.version \in Nat /\ DOMAIN check = Heads
  BY <1>2, PlannedHead
<1>4. CASE payload[u] # head
  <2>1. check'[head] = check[head]
    BY <1>1, <1>3, <1>4
  <2> QED
    BY <1>1, <2>1 DEF CheckShowsPlan, HasIntent
<1>5. CASE payload[u] = head
  <2>1. check'[head] = "superseded"
    BY <1>1, <1>3, <1>5
  <2>2. u \in Versions /\ u < generation.version
    BY JobIdFacts, PlanningAssumption
    DEF PublishSuperseded, IInv, Minds, Knows, Claims, OfGeneration, Previewing
  <2>3. u \in 1..(generation.version - 1)
    BY <1>3, <2>2, PlanningAssumption DEF Versions
  <2> QED
    BY <1>1, <1>5, <2>1, <2>3 DEF CheckShowsPlan
<1> QED
  BY <1>4, <1>5

LEMMA CheckOfResult ==
    ASSUME IInv, CheckShowsPlan, NEW w \in Workers, PublishPreviewResult(w)
    PROVE  CheckShowsPlan'
<1> DEFINE r == worker[w].gen.rev
<1>1. UNCHANGED <<payload, intents>>
  BY DEF PublishPreviewResult
<1>2. CASE UNCHANGED <<generation, check>>
  BY <1>1, <1>2, CheckStays
<1>3. CASE /\ r = generation.rev
           /\ \E p : generation' = [generation EXCEPT !.plan = p]
           /\ check' = [check EXCEPT ![HeadOf[r]] = "planned"]
  <2>1. generation \in Generations /\ r \in Revisions
    BY DEF IInv, Typed, Minds, Knows, OfGeneration, PublishPreviewResult
  <2>2. generation'.rev = r
    BY <1>3, <2>1 DEF Generations
  <2>3. check \in [Heads -> {"none", "planning", "planned", "superseded"}]
        /\ HeadOf[r] \in Heads
    BY <2>1, PlanningAssumption DEF IInv, Shown
  <2>4. check'[HeadOf[generation'.rev]] = "planned"
    BY <1>3, <2>2, <2>3
  <2> QED
    BY <2>4 DEF CheckShowsPlan
<1> QED
  BY <1>2, <1>3 DEF PublishPreviewResult, CurrentContent

LEMMA CheckNext == IInv /\ CheckShowsPlan /\ [Next]_vars => CheckShowsPlan'
<1> SUFFICES ASSUME IInv, CheckShowsPlan, [Next]_vars
             PROVE  CheckShowsPlan'
  OBVIOUS
<1>1. CASE UNCHANGED vars
  BY <1>1, CheckStays DEF vars
<1>2. ASSUME NEW w \in Workers, WorkerStep(w)
      PROVE  CheckShowsPlan'
  <2>1. CASE ReadChange(w) \/ CarryCandidate(w) \/ Propose(w) \/ ReadGeneration(w)
    BY <2>1, CheckStays DEF ReadChange, CarryCandidate, Propose, ReadGeneration
  <2>2. CASE ClaimJob(w) \/ CompleteJob(w) \/ HandleFailure(w) \/ Fault(w) \/ Crash(w)
    BY <2>2, CheckStays DEF ClaimJob, CompleteJob, HandleFailure, Fault, Crash
  <2> QED
    BY <1>2, <2>1, <2>2, CheckOfPreview, CheckOfLanding, CheckOfSuperseded, CheckOfResult
    DEF WorkerStep, WebhookStep, PreviewStep
<1>3. ASSUME NEW p \in Publishers,
             (\E c \in Candidates : PublishStart(p, c)) \/ PublishPropose(p)
      PROVE  CheckShowsPlan'
  BY <1>3, CheckStays DEF PublishStart, PublishPropose
<1>4. CASE \/ \E state \in {"open", "merged", "closed"}, r \in Revisions :
                ForgeEvent(state, r)
           \/ \E n \in 1..MaxEvents : Intake(n)
           \/ \E j \in JobIds : Lapse(j)
  BY <1>4, CheckStays DEF ForgeEvent, Intake, Lapse
<1> QED
  BY <1>1, <1>2, <1>3, <1>4, CheckOfCandidate DEF Next

\* The check of a planned head says planned, or that its landing is being
\* planned; only the late report of an older preview of the same head hides it.
THEOREM PlansAreShown == Spec => []CheckShowsPlan
<1>1. Init => CheckShowsPlan
  BY DEF Init, NoGeneration, CheckShowsPlan
<1> QED
  BY <1>1, CheckNext, Invariance, PTL DEF Spec

-----------------------------------------------------------------------------
(* The last event.                                                         *)

Latest     == <<"webhook", Len(forge)>>
LatestDone == forge # <<>> /\ job[Latest].state = "done"

\* A control worker that has read the change for the latest event, or later than
\* that was handled, has read what it came to.
HasReadLatest(w) ==
    LET r == worker[w] IN
    r.pc \in Stages /\ forge # <<>> /\ (r.job = Latest \/ LatestDone) =>
        r.gen.rev = Change.rev

\* The generation is of the last revision, unless a candidate came with another.
IsLatest == generation.cand = NoCandidate => generation.rev = Change.rev

\* It is, from the moment that the latest event is handled.
HasStoredLatest(w) ==
    LET r == worker[w] IN
    r.pc = "complete" /\ forge # <<>> /\ r.job = Latest /\ Change.state # "closed" =>
        IsLatest

LastKnows(w) == HasReadLatest(w) /\ HasStoredLatest(w)

LastInv == LastEventWins /\ \A w \in Workers : LastKnows(w)

\* What a step has to respect: the jobs and the generation the others rely on.
LEMMA LastStays ==
    ASSUME LastInv, UNCHANGED forge,
           generation' = generation \/ generation'.cand # NoCandidate
             \/ (generation'.rev = generation.rev /\ generation'.cand = generation.cand),
           LatestDone' => LatestDone
    PROVE  /\ LastEventWins'
           /\ \A w \in Workers : worker'[w] = worker[w] => LastKnows(w)'
<1>1. Change' = Change /\ Latest' = Latest
  BY DEF Change, Latest
<1>2. IsLatest => IsLatest'
  BY <1>1 DEF IsLatest
<1>3. LastEventWins'
  BY <1>1, <1>2 DEF LastInv, LastEventWins, LatestDone, IsLatest, Latest
<1>4. ASSUME NEW w \in Workers, worker'[w] = worker[w]
      PROVE  LastKnows(w)'
  BY <1>1, <1>2, <1>4 DEF LastInv, LastKnows, HasReadLatest, HasStoredLatest
<1> QED
  BY <1>3, <1>4

\* A worker takes a step that leaves the latest event as handled as it was.
LEMMA LastAfter ==
    ASSUME LastInv, NEW w \in Workers, LastKnows(w)', UNCHANGED forge,
           \A v \in Workers : v # w => worker'[v] = worker[v],
           generation' = generation
             \/ (generation'.rev = generation.rev /\ generation'.cand = generation.cand),
           LatestDone' => LatestDone
    PROVE  LastInv'
  BY LastStays DEF LastInv

\* A worker that is not in the middle of a webhook has nothing to know.
LEMMA NothingRead ==
    ASSUME NEW w \in Workers, worker[w].pc \notin Stages \union {"complete"}
    PROVE  LastKnows(w)
  BY DEF LastKnows, HasReadLatest, HasStoredLatest

\* There is one control worker.
LEMMA OnlyOneHandles ==
    ASSUME IInv, NEW v \in Workers, NEW w \in Workers,
           worker[v].pc # "idle", worker[v].job[1] = "webhook",
           worker[w].pc # "idle", worker[w].job[1] = "webhook"
    PROVE  v = w
  BY OneControlWorker DEF IInv, Minds, Knows, Claims

\* The webhook of the latest event is not touched by what happens to others.
LEMMA LatestKept ==
    ASSUME IInv, UNCHANGED forge,
           \A k \in JobIds : job'[k] # job[k] => k[1] = "preview" \/ job'[k].state # "done"
    PROVE  LatestDone' => LatestDone
<1> SUFFICES ASSUME LatestDone'
             PROVE  LatestDone
  OBVIOUS
<1>1. forge # <<>> /\ Latest' = Latest /\ job'[Latest].state = "done"
  BY DEF LatestDone, Latest
<1>2. CASE Latest \in JobIds
  BY <1>1, <1>2 DEF LatestDone, Latest
<1>3. Len(forge) \in 1..MaxEvents
  BY <1>1, PlanningAssumption DEF IInv, Typed
<1> QED
  BY <1>2, <1>3, JobIdFacts DEF Latest

\* Storing a generation, if it is of the last revision whenever it has to be.
LEMMA LastStored ==
    ASSUME IInv, LastInv, NEW w \in Workers, End(w, "complete"),
           worker[w].pc \in {"preview", "landing"}, Stores(worker[w].gen),
           UNCHANGED forge,
           \A k \in JobIds : job'[k] # job[k] => k[1] = "preview"
    PROVE  LastInv'
<1> DEFINE g == worker[w].gen
<1>1. worker[w].job[1] = "webhook" /\ LastKnows(w) /\ worker[w].pc \in Stages
  BY DEF IInv, Minds, Knows, OfChange, LastInv, Stages
<1>2. generation'.rev = g.rev
  BY StoredGeneration DEF Stores
<1>3. LatestDone' => LatestDone
  BY LatestKept
<1>4. Change' = Change /\ Latest' = Latest
  BY DEF Change, Latest
<1>5. LatestDone \/ (forge # <<>> /\ worker[w].job = Latest) => generation'.rev = Change.rev
  BY <1>1, <1>2 DEF LastKnows, HasReadLatest, LatestDone
<1>6. LastEventWins'
  BY <1>3, <1>4, <1>5 DEF LastEventWins, LatestDone, Latest
<1>7. worker'[w].pc = "complete" /\ worker'[w].job = worker[w].job
  BY EndedRow DEF End, Ended, IInv, Typed
<1>8. LastKnows(w)'
  BY <1>4, <1>5, <1>7 DEF LastKnows, HasReadLatest, HasStoredLatest, IsLatest, Stages
<1>9. ASSUME NEW v \in Workers, v # w
      PROVE  LastKnows(v)'
  <2>1. worker'[v] = worker[v] /\ LastKnows(v)
    BY <1>9 DEF End, IInv, Typed, LastInv
  <2>2. worker[v].pc # "idle" => worker[v].job[1] # "webhook"
    BY <1>1, <1>9, OnlyOneHandles DEF Stages
  <2>3. worker[v].pc \notin Stages /\ (worker[v].pc = "complete" => worker[v].job # Latest)
    BY <2>2 DEF IInv, Minds, Knows, OfChange, Stages, Latest
  <2> QED
    BY <1>4, <2>1, <2>3 DEF LastKnows, HasReadLatest, HasStoredLatest
<1> QED
  BY <1>6, <1>8, <1>9 DEF LastInv

LEMMA LastOfEnvironment ==
    ASSUME IInv, IInv', LastInv,
           \/ \E state \in {"open", "merged", "closed"}, r \in Revisions :
                 ForgeEvent(state, r)
           \/ \E n \in 1..MaxEvents : Intake(n)
           \/ \E j \in JobIds : Lapse(j)
           \/ \E p \in Publishers : \/ \E c \in Candidates : PublishStart(p, c)
                                    \/ PublishPropose(p) \/ ScheduleCandidate(p)
    PROVE  LastInv'
<1>0. job \in [JobIds -> JobRow]
  BY DEF IInv, Typed
<1>1. ASSUME NEW state, NEW r, ForgeEvent(state, r)
      PROVE  LastInv'
  <2>1. forge \in Seq(Events) /\ forge' \in Seq(Events) /\ Len(forge') = Len(forge) + 1
        /\ Len(forge') <= MaxEvents
    BY <1>1 DEF IInv, Typed, ForgeEvent
  <2>2. Len(forge') \in 1..MaxEvents /\ Len(forge') > Len(forge)
    BY <2>1, PlanningAssumption
  <2>3. job'[Latest'] = NoJob
    BY <1>1, <2>2 DEF IInv, Rows, JobsOfRows, Latest, ForgeEvent
  <2>4. ~LatestDone'
    BY <2>3 DEF LatestDone, NoJob
  <2>5. \A w \in Workers : worker'[w].pc # "idle" => worker'[w].job # Latest'
    BY <2>3 DEF IInv, Minds, Knows, Claims, HoldsJob, Holds, NoJob
  <2>6. \A w \in Workers : LastKnows(w)'
    BY <2>4, <2>5 DEF LastKnows, HasReadLatest, HasStoredLatest, Stages
  <2> QED
    BY <2>4, <2>6 DEF LastInv, LastEventWins, LatestDone, Latest
<1>2. ASSUME NEW n \in 1..MaxEvents, Intake(n)
      PROVE  LastInv'
  <2>1. \A k \in JobIds : job'[k] # job[k] => job'[k].state # "done"
    BY <1>0, <1>2 DEF Intake, NewJob
  <2> QED
    BY <1>2, <2>1, LatestKept, LastStays DEF Intake, LastInv
<1>3. ASSUME NEW j \in JobIds, Lapse(j)
      PROVE  LastInv'
  <2>1. LatestDone' => LatestDone
    BY <1>0, <1>3 DEF Lapse, Lapsed, LatestDone, Latest
  <2> QED
    BY <1>3, <2>1, LastStays DEF Lapse, LastInv
<1>4. ASSUME NEW p, NEW c, PublishStart(p, c)
      PROVE  LastInv'
  BY <1>4, LastStays DEF PublishStart, LastInv, LatestDone, Latest
<1>5. ASSUME NEW p, PublishPropose(p)
      PROVE  LastInv'
  BY <1>5, LastStays DEF PublishPropose, LastInv, LatestDone, Latest
<1>6. ASSUME NEW p \in Publishers, ScheduleCandidate(p)
      PROVE  LastInv'
  <2> DEFINE g == publisher[p].gen
  <2>1. g.cand # NoCandidate
    BY <1>6, PlanningAssumption DEF ScheduleCandidate, IInv, Minds, Asks
  <2>2. generation' = generation \/ generation'.cand # NoCandidate
    <3>1. g \in Generations
      BY <1>6 DEF IInv, Typed, RequestRows
    <3> QED
      BY <1>6, <2>1, <3>1 DEF ScheduleCandidate, Upserted, Generations
  <2>3. \A k \in JobIds : job'[k] # job[k] => k[1] = "preview"
    BY <1>0, <1>6 DEF ScheduleCandidate, SchedulePlanning, Preview
  <2> QED
    BY <1>6, <2>2, <2>3, LatestKept, LastStays DEF ScheduleCandidate, LastInv
<1> QED
  BY <1>1, <1>2, <1>3, <1>4, <1>5, <1>6

\* What is left of a run that failed, or was of a preview, is nothing about the
\* change.
LEMMA LastEnded ==
    ASSUME IInv, LastInv, NEW w \in Workers, NEW pc \in {"complete", "failed"}, End(w, pc),
           pc = "complete" => worker[w].job[1] = "preview" \/ Change.state = "closed",
           UNCHANGED forge,
           generation' = generation
             \/ (generation'.rev = generation.rev /\ generation'.cand = generation.cand),
           LatestDone' => LatestDone
    PROVE  LastInv'
<1>1. worker'[w].pc = pc /\ worker'[w].job = worker[w].job
      /\ \A v \in Workers : v # w => worker'[v] = worker[v]
  BY EndedRow DEF End, Ended, IInv, Typed
<1>2. Change' = Change /\ Latest' = Latest
  BY DEF Change, Latest
<1>3. LastKnows(w)'
  BY <1>1, <1>2 DEF LastKnows, HasReadLatest, HasStoredLatest, Stages, Latest
<1> QED
  BY <1>1, <1>3, LastAfter

LEMMA LastFreed ==
    ASSUME IInv, LastInv, NEW w \in Workers, Free(w), UNCHANGED forge,
           generation' = generation
             \/ (generation'.rev = generation.rev /\ generation'.cand = generation.cand),
           LatestDone' => LatestDone
    PROVE  LastInv'
<1>1. worker'[w].pc = "idle" /\ \A v \in Workers : v # w => worker'[v] = worker[v]
  BY IdleRow DEF Free, IInv, Typed
<1>2. LastKnows(w)'
  BY <1>1 DEF LastKnows, HasReadLatest, HasStoredLatest, Stages
<1> QED
  BY <1>1, <1>2, LastAfter

LEMMA LastOfWebhook ==
    ASSUME IInv, LastInv, NEW w \in Workers, WebhookStep(w)
    PROVE  LastInv'
<1>0. worker \in [Workers -> WorkerRows] /\ worker[w] \in WorkerRows /\ LastKnows(w)
      /\ job \in [JobIds -> JobRow]
  BY DEF IInv, Typed, LastInv
<1>1. CASE ReadChange(w)
  <2>1. CASE End(w, "complete") /\ Change.state = "closed"
    BY <1>1, <2>1, LastEnded DEF ReadChange, LatestDone, Latest
  <2>2. CASE worker' = [worker EXCEPT ![w].pc = "carry", ![w].state = Change.state,
                                      ![w].gen.rev = Change.rev]
    <3>1. worker'[w].pc = "carry" /\ worker'[w].gen.rev = Change.rev
          /\ \A v \in Workers : v # w => worker'[v] = worker[v]
      BY <1>0, <2>2 DEF WorkerRows, Generations
    <3>2. LastKnows(w)'
      BY <1>1, <3>1 DEF LastKnows, HasReadLatest, HasStoredLatest, ReadChange, Change
    <3> QED
      BY <1>1, <3>1, <3>2, LastAfter DEF ReadChange, LatestDone, Latest
  <2> QED
    BY <1>1, <2>1, <2>2 DEF ReadChange
<1>2. CASE CarryCandidate(w)
  <2>1. /\ worker'[w].pc = "propose" /\ worker'[w].gen.rev = worker[w].gen.rev
        /\ worker'[w].job = worker[w].job /\ worker[w].pc = "carry"
        /\ \A v \in Workers : v # w => worker'[v] = worker[v]
    BY <1>0, <1>2 DEF CarryCandidate, Goto, WorkerRows, Generations
  <2>2. LastKnows(w)'
    BY <1>0, <1>2, <2>1
    DEF LastKnows, HasReadLatest, HasStoredLatest, CarryCandidate, Change, Stages,
        LatestDone, Latest
  <2> QED
    BY <1>2, <2>1, <2>2, LastAfter DEF CarryCandidate, LatestDone, Latest
<1>3. CASE Propose(w)
  <2>1. /\ worker[w].pc = "propose" /\ worker[w].gen.rev \in Revisions
        /\ worker[w].gen.cand \in Candidates \union {NoCandidate}
    BY <1>0, <1>3 DEF Propose, IInv, Minds, Knows, OfChange, Stages, WorkerRows, Generations
  <2>2. Proposed(worker[w].gen.rev, worker[w].gen.cand).rev = worker[w].gen.rev
    BY <2>1, ProposedIsGeneration
  <2>3. /\ worker'[w].pc \in {"preview", "landing"}
        /\ worker'[w].gen.rev = worker[w].gen.rev
        /\ worker'[w].job = worker[w].job
        /\ \A v \in Workers : v # w => worker'[v] = worker[v]
    BY <1>0, <1>3, <2>2 DEF Propose, WorkerRows
  <2>4. LastKnows(w)'
    BY <1>0, <1>3, <2>1, <2>3
    DEF LastKnows, HasReadLatest, HasStoredLatest, Propose, Change, Stages,
        LatestDone, Latest
  <2> QED
    BY <1>3, <2>3, <2>4, LastAfter DEF Propose, LatestDone, Latest
<1>4. CASE SchedulePreview(w) \/ ScheduleLanding(w)
  <2> DEFINE g == worker[w].gen
  <2>1. /\ worker[w].pc \in {"preview", "landing"} /\ InBounds(g) /\ UNCHANGED forge
        /\ g \in Generations /\ g.rev \in Revisions
    BY <1>0, <1>4 DEF SchedulePreview, ScheduleLanding, WorkerRows, IInv, Minds, Knows,
                      OfChange, Stages
  <2>2. CASE Repeats(g) \/ Follows(g)
    <3>1. Stores(g) /\ End(w, "complete")
      BY <1>4, <2>1, <2>2 DEF Stores, SchedulePreview, ScheduleLanding
    <3>2. \A k \in JobIds : job'[k] # job[k] => k[1] = "preview"
      BY <1>0, <1>4, <2>2 DEF SchedulePreview, ScheduleLanding, SchedulePlanning, Preview
    <3> QED
      BY <2>1, <3>1, <3>2, LastStored
  <2>3. CASE ~(Repeats(g) \/ Follows(g))
    <3>1. End(w, "failed") /\ UNCHANGED <<generation, job>>
      BY <1>4, <2>3 DEF SchedulePreview, ScheduleLanding
    <3> QED
      BY <2>1, <3>1, LastEnded DEF LatestDone, Latest
  <2> QED
    BY <2>2, <2>3
<1> QED
  BY <1>1, <1>2, <1>3, <1>4 DEF WebhookStep

LEMMA LastOfPreview ==
    ASSUME IInv, LastInv, NEW w \in Workers, PreviewStep(w)
    PROVE  LastInv'
<1>0. worker \in [Workers -> WorkerRows] /\ worker[w] \in WorkerRows
      /\ job \in [JobIds -> JobRow] /\ worker[w].pc # "idle"
      /\ worker[w].job \in JobIds /\ worker[w].job[1] = "preview"
  BY DEF IInv, Typed, Minds, Knows, Claims, OfGeneration, Previewing, PreviewStep,
     ReadGeneration, PublishSuperseded, PublishPreviewResult
<1>1. CASE ReadGeneration(w)
  <2>1. worker'[w].pc \in Previewing /\ \A v \in Workers : v # w => worker'[v] = worker[v]
    BY <1>0, <1>1 DEF ReadGeneration, Goto, WorkerRows, Previewing
  <2>2. LastKnows(w)'
    BY <2>1 DEF LastKnows, HasReadLatest, HasStoredLatest, Stages, Previewing
  <2> QED
    BY <1>1, <2>1, <2>2, LastAfter DEF ReadGeneration, LatestDone, Latest
<1>2. CASE PublishSuperseded(w)
  BY <1>0, <1>2, LastEnded DEF PublishSuperseded, LatestDone, Latest
<1>3. CASE PublishPreviewResult(w)
  <2>1. \/ End(w, "failed") /\ UNCHANGED <<generation, job>>
        \/ /\ Free(w) /\ \E p : generation' = [generation EXCEPT !.plan = p]
           /\ \E row : job' = Settled(w, row)
    BY <1>3 DEF PublishPreviewResult
  <2>2. CASE End(w, "failed") /\ UNCHANGED <<generation, job>>
    BY <1>3, <2>2, LastEnded DEF PublishPreviewResult, LatestDone, Latest
  <2>3. CASE /\ Free(w) /\ \E p : generation' = [generation EXCEPT !.plan = p]
             /\ \E row : job' = Settled(w, row)
    <3>1. \A k \in JobIds : job'[k] # job[k] => k[1] = "preview"
      BY <1>0, <2>3 DEF Settled
    <3>2. generation'.rev = generation.rev /\ generation'.cand = generation.cand
      BY <2>3 DEF IInv, Typed, Generations
    <3> QED
      BY <1>3, <2>3, <3>1, <3>2, LatestKept, LastFreed DEF PublishPreviewResult
  <2> QED
    BY <2>1, <2>2, <2>3
<1> QED
  BY <1>1, <1>2, <1>3 DEF PreviewStep

\* The webhook of the latest event is done when its run has stored what it read.
LEMMA LastOfCompletion ==
    ASSUME IInv, LastInv, NEW w \in Workers, CompleteJob(w)
    PROVE  LastInv'
<1>1. /\ worker[w].pc = "complete" /\ HoldsJob(w) /\ worker[w].job \in JobIds
      /\ UNCHANGED <<forge, generation>>
  BY JobInHand DEF CompleteJob
<1>2. job' = Settled(w, Completed(job[worker[w].job])) /\ Free(w)
  BY <1>1 DEF CompleteJob
<1>3. \A k \in JobIds : k # worker[w].job => job'[k] = job[k]
  BY <1>2 DEF Settled, IInv, Typed
<1>4. CASE worker[w].job[1] = "preview"
  BY <1>1, <1>2, <1>3, <1>4, LatestKept, LastFreed
<1>5. CASE worker[w].job[1] = "webhook" /\ worker[w].job # Latest
  <2>1. LatestDone' => LatestDone
    <3>1. ASSUME LatestDone'
          PROVE  Latest \in JobIds
      <4>1. forge # <<>>
        BY <1>1, <3>1 DEF LatestDone
      <4>2. Len(forge) \in 1..MaxEvents
        BY <4>1, PlanningAssumption DEF IInv, Typed
      <4> QED
        BY <4>2, JobIdFacts DEF Latest
    <3> QED
      BY <1>1, <1>3, <1>5, <3>1 DEF LatestDone, Latest
  <2> QED
    BY <1>1, <1>2, <2>1, LastFreed
<1>6. CASE worker[w].job = Latest
  <2>1. /\ worker'[w].pc = "idle" /\ \A v \in Workers : v # w => worker'[v] = worker[v]
    BY <1>2, IdleRow DEF Free, IInv, Typed
  <2>2. Change' = Change /\ Latest' = Latest /\ worker[w].job[1] = "webhook"
    BY <1>1, <1>6 DEF Change, Latest
  <2>3. forge # <<>> /\ Change.state # "closed" => IsLatest
    BY <1>1, <1>6 DEF LastInv, LastKnows, HasStoredLatest
  <2>4. LastEventWins'
    <3>1. IsLatest <=> IsLatest'
      BY <1>1, <2>2 DEF IsLatest
    <3> QED
      BY <1>1, <2>2, <2>3, <3>1 DEF LastEventWins, IsLatest
  <2>5. ASSUME NEW v \in Workers, v # w
        PROVE  LastKnows(v)'
    <3>1. worker[v].pc # "idle" => worker[v].job[1] # "webhook"
      BY <1>1, <2>2, <2>5, OnlyOneHandles
    <3>2. worker[v].pc \notin Stages /\ worker[v].pc # "idle" => worker[v].job # Latest
      BY <3>1 DEF Latest
    <3>3. worker[v].pc \notin Stages
      BY <3>1 DEF IInv, Minds, Knows, OfChange, Stages
    <3> QED
      BY <2>1, <2>2, <2>5, <3>2, <3>3 DEF LastKnows, HasReadLatest, HasStoredLatest, Stages
  <2>6. LastKnows(w)'
    BY <2>1 DEF LastKnows, HasReadLatest, HasStoredLatest, Stages
  <2> QED
    BY <2>4, <2>5, <2>6 DEF LastInv
<1> QED
  BY <1>1, <1>4, <1>5, <1>6, JobIdFacts

LEMMA LastOfOthers ==
    ASSUME IInv, LastInv, NEW w \in Workers,
           ClaimJob(w) \/ HandleFailure(w) \/ Fault(w) \/ Crash(w)
    PROVE  LastInv'
<1>0. worker \in [Workers -> WorkerRows] /\ job \in [JobIds -> JobRow]
      /\ UNCHANGED <<forge, generation>>
  BY DEF IInv, Typed, ClaimJob, HandleFailure, Fault, Crash
<1>1. CASE ClaimJob(w)
  <2>1. \A k \in JobIds : job'[k] # job[k] => job'[k].state # "done"
    <3>1. \A k \in JobIds : SweptJob(k) # job[k] => SweptJob(k).state # "done"
      BY DEF SweptJob, GaveUp, Released
    <3>2. \A k \in JobIds : Leased(job[k], w).state # "done"
      BY DEF Leased
    <3>3. \E j : \A k \in JobIds : job'[k] \in {SweptJob(k), Leased(job[k], w)}
      BY <1>1 DEF ClaimJob
    <3> QED
      BY <3>1, <3>2, <3>3
  <2>2. LatestDone' => LatestDone
    BY <1>0, <2>1, LatestKept
  <2>3. \A v \in Workers : v # w => worker'[v] = worker[v]
    BY <1>0, <1>1 DEF ClaimJob
  <2>4. worker'[w] = worker[w] \/ worker'[w].pc \in {"change", "generation"}
    <3>1. CASE UNCHANGED worker
      BY <3>1
    <3>2. CASE ~UNCHANGED worker
      <4>1. PICK j \in JobIds :
              worker' = [worker EXCEPT ![w] = [Idle EXCEPT
                          !.job = j, !.fence = job[j].fence + 1,
                          !.pc = IF j[1] = "webhook" THEN "change" ELSE "generation"]]
        BY <1>1, <3>2 DEF ClaimJob, Eligible
      <4>2. worker'[w] = [Idle EXCEPT
                            !.job = j, !.fence = job[j].fence + 1,
                            !.pc = IF j[1] = "webhook" THEN "change" ELSE "generation"]
        BY ONLY <1>0, <4>1
      <4> QED
        BY ONLY <4>2 DEF Idle
    <3> QED
      BY <3>1, <3>2
  <2>5. LastKnows(w)'
    <3>1. CASE worker'[w] = worker[w]
      BY <1>0, <2>2, <3>1, LastStays
    <3>2. CASE worker'[w].pc \in {"change", "generation"}
      BY <3>2 DEF LastKnows, HasReadLatest, HasStoredLatest, Stages
    <3> QED
      BY <2>4, <3>1, <3>2
  <2> QED
    BY <1>0, <2>2, <2>3, <2>5, LastAfter
<1>2. CASE HandleFailure(w)
  <2>1. HoldsJob(w)
    BY <1>2, JobInHand DEF HandleFailure
  <2>2. FailedOnce(job[worker[w].job]).state # "done"
    BY DEF FailedOnce, Released
  <2>3. \A k \in JobIds : job'[k] # job[k] => job'[k].state # "done"
    BY <1>0, <1>2, <2>1, <2>2 DEF HandleFailure, Settled
  <2>4. LatestDone' => LatestDone
    BY <1>0, <2>3, LatestKept
  <2> QED
    BY <1>0, <1>2, <2>4, LastFreed DEF HandleFailure
<1>3. CASE Fault(w)
  BY <1>0, <1>3, LastEnded DEF Fault, LatestDone, Latest
<1>4. CASE Crash(w)
  BY <1>0, <1>4, LastFreed DEF Crash, LatestDone, Latest
<1> QED
  BY <1>1, <1>2, <1>3, <1>4

LEMMA LastNext == IInv /\ IInv' /\ LastInv /\ [Next]_vars => LastInv'
<1> SUFFICES ASSUME IInv, IInv', LastInv, [Next]_vars
             PROVE  LastInv'
  OBVIOUS
<1>1. CASE UNCHANGED vars
  BY <1>1, LastStays DEF vars, LastInv, LatestDone, Latest
<1>2. ASSUME NEW w \in Workers, WorkerStep(w)
      PROVE  LastInv'
  BY <1>2, LastOfWebhook, LastOfPreview, LastOfCompletion, LastOfOthers DEF WorkerStep
<1> QED
  BY <1>1, <1>2, LastOfEnvironment DEF Next

\* Once the webhook of the last event is handled, in whatever order the webhooks
\* come and whoever fails in between, the generation is of the last revision.
THEOREM LastEventIsKept == Spec => []LastEventWins
<1>1. Init => LastInv
  <2> SUFFICES ASSUME Init
               PROVE  LastInv
    OBVIOUS
  <2>1. \A w \in Workers : worker[w].pc = "idle"
    BY IdleRow DEF Init
  <2> QED
    BY <2>1 DEF Init, LastInv, LastEventWins, LastKnows, HasReadLatest, HasStoredLatest,
                Stages
<1>2. LastInv => LastEventWins
  BY DEF LastInv
<1> QED
  BY <1>1, <1>2, Invariance, LastNext, PTL DEF Spec
=============================================================================
