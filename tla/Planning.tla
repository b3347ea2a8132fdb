------------------------------ MODULE Planning ------------------------------
(***************************************************************************)
(* From a pull request event to a planned generation.  The server accepts  *)
(* webhooks and candidate publications; the control worker turns webhooks  *)
(* into generations, preview jobs and landing intents; planning workers    *)
(* run the preview jobs.  Sources: internal/remote/server                  *)
(* webhook_ingress.go (Intake), coordinator.go (PublishCandidate,          *)
(* runWebhook, runPreview), coordinator_outbox.go (ScheduleCandidate,      *)
(* SchedulePreview, ScheduleLanding, PublishPreviewResult),                *)
(* coordinator_store.go (generations, plans, deliveries).                  *)
(*                                                                         *)
(* One change of one repository with automatic landing.  A webhook only    *)
(* says that something happened: what happened is read from the forge when *)
(* its job runs, and by then the change may have moved on.  A revision is  *)
(* a pair of base and head commits; several revisions may share a head.    *)
(* Claims, leases and retries are those of JobLease.                       *)
(***************************************************************************)
EXTENDS JobLease, Sequences, FiniteSets

CONSTANTS Revisions,    \* pairs of base and head
          Heads, HeadOf,  \* HeadOf \in [Revisions -> Heads]
          Candidates,   \* digests of candidate contexts
          NoCandidate, NoPlan, NoRevision,
          Kinds,        \* [Workers -> SUBSET {"webhook", "preview"}]
          Publishers,   \* BOUND: requests of candidate publish, one each
          MaxEvents,    \* BOUND on the events of the change
          MaxVersion,   \* BOUND on generations
          Contexts,     \* versions of the canonical ref
          MaxTrouble    \* BOUND on faults and crashes

ASSUME PlanningAssumption ==
    /\ HeadOf \in [Revisions -> Heads]
    /\ NoCandidate \notin Candidates
    /\ NoRevision \notin Revisions
    /\ {MaxEvents, MaxVersion, MaxTrouble} \subseteq Nat

VARIABLES
    forge,       \* the events of the change: seq of [state, rev]
    job,         \* [JobIds -> JobRow]
    payload,     \* [Versions -> the head in the payload of its preview job]
    generation,  \* the pr_generations row
    plans,       \* identifiers of stored context plans
    artifacts,   \* candidate_artifacts
    intents,     \* landing_intents: set of [cand, plan]
    check,       \* [Heads -> desired check state]
    worker,      \* [Workers -> the local state of the goroutine]
    publisher,   \* [Publishers -> the local state of the request]
    trouble      \* adversities so far

vars == <<forge, job, payload, generation, plans, artifacts, intents, check,
          worker, publisher, trouble>>

Versions == 1..MaxVersion
JobIds   == ({"webhook"} \X (1..MaxEvents)) \union ({"preview"} \X Versions)
Preview(v) == <<"preview", v>>

PlanIds == [rev : Revisions, cand : Candidates \union {NoCandidate},
            context : Contexts]
ASSUME NoPlanAssumption == NoPlan \notin PlanIds

\* Config.Validate demands one control worker.
ASSUME OneControlWorker ==
    \A v, w \in Workers : "webhook" \in Kinds[v] \intersect Kinds[w] => v = w

NoGeneration == [version |-> 0, rev |-> NoRevision, cand |-> NoCandidate,
                 plan |-> NoPlan]

Idle == [pc |-> "idle", job |-> <<"none", 0>>, fence |-> 0, state |-> "none",
         gen |-> NoGeneration]
NoRequest == [pc |-> "idle", gen |-> NoGeneration]

Init == /\ forge = <<>>
        /\ job = [j \in JobIds |-> NoJob]
        /\ payload = [v \in Versions |-> "none"]
        /\ generation = NoGeneration
        /\ plans = {} /\ artifacts = {} /\ intents = {}
        /\ check = [h \in Heads |-> "none"]
        /\ worker = [w \in Workers |-> Idle]
        /\ publisher = [p \in Publishers |-> NoRequest]
        /\ trouble = 0

Change      == forge[Len(forge)]
HoldsJob(w) == Holds(job[worker[w].job], w, worker[w].fence)
Settled(w, row) == [job EXCEPT ![worker[w].job] = row]
Goto(w, pc) == worker' = [worker EXCEPT ![w].pc = pc]
End(w, pc)  == worker' = [worker EXCEPT ![w] = [Idle EXCEPT
                    !.pc = pc, !.job = worker[w].job, !.fence = worker[w].fence]]
Free(w)     == worker' = [worker EXCEPT ![w] = Idle]
Trouble     == trouble < MaxTrouble /\ trouble' = trouble + 1

-----------------------------------------------------------------------------
(* The forge, and the intake of its webhooks.                              *)

\* The change is opened, pushed to, retargeted, edited, merged or closed.
ForgeEvent(state, r) ==
    /\ Len(forge) < MaxEvents
    /\ forge # <<>> => Change.state = "open"
    /\ forge = <<>> => state = "open"
    /\ state = "closed" => r = Change.rev
    /\ forge' = Append(forge, [state |-> state, rev |-> r])
    /\ UNCHANGED <<job, payload, generation, plans, artifacts, intents, check,
                   worker, publisher, trouble>>

\* Intake and AcceptWebhook: delivery and job in one transaction.  Deliveries
\* come late, in any order or never; a repeated one finds its row.
Intake(n) ==
    /\ n <= Len(forge)
    /\ job[<<"webhook", n>>] = NoJob
    /\ job' = [job EXCEPT ![<<"webhook", n>>] = NewJob]
    /\ UNCHANGED <<forge, payload, generation, plans, artifacts, intents,
                   check, worker, publisher, trouble>>

-----------------------------------------------------------------------------
(* Generations.                                                            *)

\* proposedGeneration: the stored one if the content is the same, its plan
\* included, else the next version.
\* Seeded fault: the next version keeps the plan of the one it replaces.
ProposedKeepsPlan(r, c) ==
    IF generation.rev = r /\ generation.cand = c THEN generation
    ELSE [version |-> generation.version + 1, rev |-> r, cand |-> c,
          plan |-> generation.plan]
Proposed(r, c) ==
    IF generation.rev = r /\ generation.cand = c THEN generation
    ELSE [version |-> generation.version + 1, rev |-> r, cand |-> c,
          plan |-> NoPlan]

\* upsertGenerationTx: a repeated version must be identical (sameGeneration-
\* Content), any other must be the next one; everything else is refused.
Repeats(g)  == g.version = generation.version /\ g = generation
Follows(g)  == g.version = generation.version + 1
InBounds(g) == Follows(g) => g.version <= MaxVersion
Upserted(g) == IF Follows(g) THEN [g EXCEPT !.plan = NoPlan] ELSE generation

\* The new generation's preview job and check, in the same transaction.
\* Seeded fault: a repeated generation is shown as planning, too.
ShowPlanning(g) == check' = [check EXCEPT ![HeadOf[g.rev]] = "planning"]
ShowRepeatedPlanning(g) ==
    IF Follows(g)
      THEN /\ job' = [job EXCEPT ![Preview(g.version)] = NewJob]
           /\ payload' = [payload EXCEPT ![g.version] = HeadOf[g.rev]]
           /\ ShowPlanning(g)
      ELSE UNCHANGED <<job, payload>> /\ ShowPlanning(g)
SchedulePlanning(g) ==
    IF Follows(g)
      THEN /\ job' = [job EXCEPT ![Preview(g.version)] = NewJob]
           /\ payload' = [payload EXCEPT ![g.version] = HeadOf[g.rev]]
           /\ ShowPlanning(g)
      ELSE UNCHANGED <<job, payload, check>>

-----------------------------------------------------------------------------
(* candidate publish.                                                      *)

\* The candidate must match the open change as it is now.
PublishStart(p, c) ==
    /\ publisher[p] = NoRequest
    /\ forge # <<>> /\ Change.state = "open"
    /\ publisher' = [publisher EXCEPT
                       ![p] = [pc |-> "propose",
                               gen |-> [NoGeneration EXCEPT !.rev = Change.rev,
                                                            !.cand = c]]]
    /\ UNCHANGED <<forge, job, payload, generation, plans, artifacts, intents,
                   check, worker, trouble>>

PublishPropose(p) ==
    LET g == publisher[p].gen IN
    /\ publisher[p].pc = "propose"
    /\ publisher' = [publisher EXCEPT
                       ![p] = [pc |-> "schedule", gen |-> Proposed(g.rev, g.cand)]]
    /\ UNCHANGED <<forge, job, payload, generation, plans, artifacts, intents,
                   check, worker, trouble>>

\* ScheduleCandidate, or the error the client sees.
ScheduleCandidate(p) ==
    LET g == publisher[p].gen IN
    /\ publisher[p].pc = "schedule" /\ InBounds(g)
    /\ publisher' = [publisher EXCEPT ![p] = [NoRequest EXCEPT !.pc = "done"]]
    /\ \/ /\ Repeats(g) \/ Follows(g)
          /\ artifacts' = artifacts \union {g.cand}
          /\ generation' = Upserted(g)
          /\ SchedulePlanning(g)
       \/ UNCHANGED <<artifacts, generation, job, payload, check>>
    /\ UNCHANGED <<forge, plans, intents, worker, trouble>>

-----------------------------------------------------------------------------
(* Claims.                                                                 *)

SweptJob(j) == IF Exhausted(job[j]) THEN GaveUp(job[j]) ELSE job[j]
Eligible(w) == {j \in JobIds : j[1] \in Kinds[w] /\ Claimable(job[j])}

\* ClaimJobKinds; the sweep takes place even if there is nothing to claim.
ClaimJob(w) ==
    /\ worker[w] = Idle
    /\ \/ \E j \in Eligible(w) :
            /\ job' = [k \in JobIds |->
                         IF k = j THEN Leased(job[j], w) ELSE SweptJob(k)]
            /\ worker' = [worker EXCEPT ![w] = [Idle EXCEPT
                   !.job = j, !.fence = job[j].fence + 1,
                   !.pc = IF j[1] = "webhook" THEN "change" ELSE "generation"]]
       \/ /\ Eligible(w) = {}
          /\ \E j \in JobIds : Exhausted(job[j])
          /\ job' = [j \in JobIds |-> SweptJob(j)]
          /\ UNCHANGED worker
    /\ UNCHANGED <<forge, payload, generation, plans, artifacts, intents,
                   check, publisher, trouble>>

CompleteJob(w) ==
    /\ worker[w].pc = "complete"
    /\ IF HoldsJob(w) THEN job' = Settled(w, Completed(job[worker[w].job])) /\ Free(w)
                      ELSE UNCHANGED job /\ End(w, "failed")
    /\ UNCHANGED <<forge, payload, generation, plans, artifacts, intents,
                   check, publisher, trouble>>

\* handleJobFailure
HandleFailure(w) ==
    /\ worker[w].pc = "failed"
    /\ job' = IF HoldsJob(w) THEN Settled(w, FailedOnce(job[worker[w].job])) ELSE job
    /\ Free(w)
    /\ UNCHANGED <<forge, payload, generation, plans, artifacts, intents,
                   check, publisher, trouble>>

-----------------------------------------------------------------------------
(* runWebhook.                                                             *)

\* GetChange: the change as it is now, not as it was when the event was sent.
\* Seeded fault: the event itself is believed.
ReadEvent(w) ==
    LET c == forge[worker[w].job[2]] IN
    /\ worker[w].pc = "change"
    /\ IF c.state = "closed" THEN End(w, "complete")
       ELSE worker' = [worker EXCEPT ![w].pc = "carry", ![w].state = c.state,
                                     ![w].gen.rev = c.rev]
    /\ UNCHANGED <<forge, job, payload, generation, plans, artifacts, intents,
                   check, publisher, trouble>>
ReadChange(w) ==
    LET c == Change IN
    /\ worker[w].pc = "change"
    /\ IF c.state = "closed" THEN End(w, "complete")
       ELSE worker' = [worker EXCEPT ![w].pc = "carry", ![w].state = c.state,
                                     ![w].gen.rev = c.rev]
    /\ UNCHANGED <<forge, job, payload, generation, plans, artifacts, intents,
                   check, publisher, trouble>>

\* The candidate of the stored generation is carried over if that is of the
\* same revision.  An error of this read is not reported: it counts as none.
CarryCandidate(w) ==
    LET carried == IF generation.rev = worker[w].gen.rev THEN generation.cand
                                                         ELSE NoCandidate IN
    /\ worker[w].pc = "carry"
    /\ \/ /\ worker' = [worker EXCEPT ![w].pc = "propose", ![w].gen.cand = carried]
          /\ UNCHANGED trouble
       \/ Goto(w, "propose") /\ Trouble
    /\ UNCHANGED <<forge, job, payload, generation, plans, artifacts, intents,
                   check, publisher>>

\* A second read of the same row.
Propose(w) ==
    LET g == worker[w].gen IN
    /\ worker[w].pc = "propose"
    /\ worker' = [worker EXCEPT
                    ![w].gen = Proposed(g.rev, g.cand),
                    ![w].pc = IF worker[w].state = "merged" THEN "landing"
                                                            ELSE "preview"]
    /\ UNCHANGED <<forge, job, payload, generation, plans, artifacts, intents,
                   check, publisher, trouble>>

SchedulePreview(w) ==
    LET g == worker[w].gen IN
    /\ worker[w].pc = "preview" /\ InBounds(g)
    /\ IF Repeats(g) \/ Follows(g)
         THEN generation' = Upserted(g) /\ SchedulePlanning(g) /\ End(w, "complete")
         ELSE UNCHANGED <<generation, job, payload, check>> /\ End(w, "failed")
    /\ UNCHANGED <<forge, plans, artifacts, intents, publisher, trouble>>

\* The intent's identifier digests the merge commit and the candidate.
HasIntent(c) == \E i \in intents : i.cand = c

ScheduleLanding(w) ==
    LET g == worker[w].gen IN
    /\ worker[w].pc = "landing" /\ InBounds(g)
    /\ IF Repeats(g) \/ Follows(g)
         THEN /\ generation' = Upserted(g)
              /\ IF HasIntent(g.cand) THEN UNCHANGED <<intents, check>>
                 ELSE /\ intents' = intents \union {[cand |-> g.cand, plan |-> g.plan]}
                      /\ ShowPlanning(g)
              /\ End(w, "complete")
         ELSE UNCHANGED <<generation, intents, check>> /\ End(w, "failed")
    /\ UNCHANGED <<forge, job, payload, plans, artifacts, publisher, trouble>>

-----------------------------------------------------------------------------
(* runPreview.                                                             *)

ReadGeneration(w) ==
    /\ worker[w].pc = "generation"
    /\ IF generation.version = worker[w].job[2]
         THEN worker' = [worker EXCEPT ![w].pc = "publish", ![w].gen = generation]
         ELSE Goto(w, "supersede")
    /\ UNCHANGED <<forge, job, payload, generation, plans, artifacts, intents,
                   check, publisher, trouble>>

\* publishCheckDurably for the head in the payload: not fenced, and not in the
\* transaction that read the generation.
PublishSuperseded(w) ==
    /\ worker[w].pc = "supersede"
    /\ check' = [check EXCEPT ![payload[worker[w].job[2]]] = "superseded"]
    /\ End(w, "complete")
    /\ UNCHANGED <<forge, job, payload, generation, plans, artifacts,
                   intents, publisher, trouble>>

\* Checkout and indexing succeed, then canonicalContext reads the ref: none of
\* it changes anything here, and the version of the ref may be any by then.
PlanOf(w, v) == [rev |-> worker[w].gen.rev, cand |-> worker[w].gen.cand,
                 context |-> v]

\* saveCurrentPlanTx: the generation is still the one that was read, but for
\* its plan; a plan row is never replaced, and its payload holds the time of
\* the run, so no other run can have stored the same one.
\* Seeded fault: the version is not compared.
CurrentButForVersion(g) == g.rev = generation.rev /\ g.cand = generation.cand
CurrentContent(g) == /\ g.version = generation.version
                     /\ g.rev = generation.rev
                     /\ g.cand = generation.cand

\* Seeded fault: the generation is not compared.
PublishUnverified(w) ==
    /\ worker[w].pc = "publish"
    /\ \E v \in Contexts :
         IF PlanOf(w, v) \notin plans /\ HoldsJob(w)
           THEN /\ plans' = plans \union {PlanOf(w, v)}
                /\ generation' = [generation EXCEPT !.plan = PlanOf(w, v)]
                /\ check' = [check EXCEPT ![HeadOf[worker[w].gen.rev]] = "planned"]
                /\ job' = Settled(w, Completed(job[worker[w].job]))
                /\ Free(w)
           ELSE UNCHANGED <<plans, generation, check, job>> /\ End(w, "failed")
    /\ UNCHANGED <<forge, payload, artifacts, intents, publisher, trouble>>
PublishPreviewResult(w) ==
    /\ worker[w].pc = "publish"
    /\ \E v \in Contexts :
         IF /\ CurrentContent(worker[w].gen)
            /\ PlanOf(w, v) \notin plans
            /\ HoldsJob(w)
           THEN /\ plans' = plans \union {PlanOf(w, v)}
                /\ generation' = [generation EXCEPT !.plan = PlanOf(w, v)]
                /\ check' = [check EXCEPT ![HeadOf[worker[w].gen.rev]] = "planned"]
                /\ job' = Settled(w, Completed(job[worker[w].job]))
                /\ Free(w)
           ELSE UNCHANGED <<plans, generation, check, job>> /\ End(w, "failed")
    /\ UNCHANGED <<forge, payload, artifacts, intents, publisher, trouble>>

-----------------------------------------------------------------------------
(* Adversities.                                                            *)

\* A call of the run fails, or its answer is lost.
Fault(w) ==
    /\ worker[w].pc \notin {"idle", "failed"}
    /\ End(w, "failed")
    /\ Trouble
    /\ UNCHANGED <<forge, job, payload, generation, plans, artifacts,
                   intents, check, publisher>>

Crash(w) ==
    /\ worker[w].pc # "idle"
    /\ Free(w)
    /\ Trouble
    /\ UNCHANGED <<forge, job, payload, generation, plans, artifacts,
                   intents, check, publisher>>

\* The lease of a run that ended without a report runs out.  The timeouts are
\* ordered so that a run ends before its lease does, which is taken for granted
\* here; JobQueue, Landing and CheckOutbox let a worker overrun its lease.
Lapse(j) ==
    /\ job[j].live
    /\ \A w \in Workers : worker[w].job = j => worker[w].fence # job[j].fence
    /\ job' = [job EXCEPT ![j] = Lapsed(@)]
    /\ UNCHANGED <<forge, payload, generation, plans, artifacts, intents, check,
                   worker, publisher, trouble>>

-----------------------------------------------------------------------------
WebhookStep(w) == \/ ReadChange(w) \/ CarryCandidate(w) \/ Propose(w)
                  \/ SchedulePreview(w) \/ ScheduleLanding(w)
PreviewStep(w) == \/ ReadGeneration(w) \/ PublishSuperseded(w)
                  \/ PublishPreviewResult(w)
WorkerStep(w) == \/ ClaimJob(w) \/ WebhookStep(w) \/ PreviewStep(w)
                 \/ CompleteJob(w) \/ HandleFailure(w)
                 \/ Fault(w) \/ Crash(w)

Next == \/ \E state \in {"open", "merged", "closed"}, r \in Revisions :
              ForgeEvent(state, r)
        \/ \E n \in 1..MaxEvents : Intake(n)
        \/ \E p \in Publishers : \/ \E c \in Candidates : PublishStart(p, c)
                                 \/ PublishPropose(p) \/ ScheduleCandidate(p)
        \/ \E w \in Workers : WorkerStep(w)
        \/ \E j \in JobIds : Lapse(j)

Spec == Init /\ [][Next]_vars

-----------------------------------------------------------------------------
(* Properties.                                                             *)

Generations == [version : 0..MaxVersion + 1,
                rev     : Revisions \union {NoRevision},
                cand    : Candidates \union {NoCandidate},
                plan    : PlanIds \union {NoPlan}]

TypeOK ==
    /\ \A n \in 1..Len(forge) :
          forge[n] \in [state : {"open", "merged", "closed"}, rev : Revisions]
    /\ job \in [JobIds -> JobRow]
    /\ payload \in [Versions -> Heads \union {"none"}]
    /\ generation \in Generations
    /\ plans \subseteq PlanIds
    /\ artifacts \subseteq Candidates
    /\ intents \subseteq [cand : Candidates \union {NoCandidate},
                          plan : PlanIds \union {NoPlan}]
    /\ check \in [Heads -> {"none", "planning", "planned", "superseded"}]
    /\ worker \in [Workers ->
          [pc : {"idle", "change", "carry", "propose", "preview", "landing",
                 "generation", "supersede", "publish", "complete",
                 "failed"},
           job : JobIds \union {<<"none", 0>>}, fence : Nat,
           state : {"none", "open", "merged", "closed"},
           gen : Generations]]
    /\ publisher \in [Publishers ->
          [pc : {"idle", "propose", "schedule", "done"}, gen : Generations]]
    /\ trouble \in 0..MaxTrouble

\* The plan a generation shows was computed for its own revision and candidate
\* (PublishPreviewResult): a preview that was planned while the change moved on
\* is never published, whatever the retries and claims of its job.
PlanIsCurrent ==
    generation.plan # NoPlan =>
        /\ generation.plan \in plans
        /\ generation.plan.rev = generation.rev
        /\ generation.plan.cand = generation.cand

\* The preview job of the current generation is done exactly when its plan is
\* there: no such job is closed as superseded, and the plan comes from it, not
\* from the job of an older generation with the same content.
PlannedByItsJob ==
    generation.version \in Versions =>
        (generation.plan # NoPlan
            <=> job[Preview(generation.version)].state = "done")

\* Webhooks are handled late and out of order, but once the one of the last
\* event is done the generation is that of the last revision; only a candidate
\* that was checked earlier and stored later can bring an old one back.
LastEventWins ==
    LET n == Len(forge) IN
    /\ n > 0 /\ Change.state # "closed"
    /\ job[<<"webhook", n>>].state = "done"
    /\ generation.cand = NoCandidate
    => generation.rev = Change.rev

\* The check of a planned head says so, or that its landing is being planned
\* (PublishPreviewResult, ScheduleLanding).  Checks are kept by head, not by
\* generation (DesiredCheckLogicalKey), and runPreview reports a superseded
\* preview unfenced, so the late report of an older generation of the same
\* head, and nothing else, hides the plan.
CheckShowsPlan ==
    LET head == HeadOf[generation.rev] IN
    generation.plan # NoPlan =>
        \/ check[head] = "planned"
        \/ check[head] = "planning" /\ HasIntent(generation.cand)
        \/ /\ check[head] = "superseded"
           /\ \E v \in 1..(generation.version - 1) : payload[v] = head

\* The preview a landing intent refers to is one of the merged revision with
\* the intent's own candidate (runWebhook, ScheduleLanding).
IntentNamesItsPreview ==
    \A i \in intents : i.plan # NoPlan =>
        i.plan \in plans /\ i.plan.rev = Change.rev /\ i.plan.cand = i.cand
=============================================================================
