---------------------------- MODULE LandingQueue ----------------------------
(***************************************************************************)
(* The final jobs of Landing are jobs of the durable queue: whatever a     *)
(* landing run does between its transactions, what it does to its own row  *)
(* is a step of JobQueue.  So the fencing guarantees proved of the queue   *)
(* hold of landing.                                                        *)
(***************************************************************************)
EXTENDS Landing

CONSTANT NoClaim

\* The zero JobClaim of a worker at rest is no claim of a job.
ASSUME NoClaimAssumption == NoClaim \notin [job : Landings, fence : Nat]

\* The JobClaim a worker carries.
claim == [w \in Workers |->
            IF worker[w].pc = "idle" THEN NoClaim
            ELSE [job |-> worker[w].landing, fence |-> worker[w].fence]]

Queue == INSTANCE JobQueue WITH
            Jobs     <- Landings,
            Kind     <- [l \in Landings |-> "final_plan"],
            Kinds    <- [w \in Workers |-> {"final_plan"}],
            Priority <- [l \in Landings |-> 200]

\* Every landing run implements the queue's protocol: runFinal and its failure
\* handlers only ever claim, settle or lose their row the way coordinator_store
\* lets them.
ImplementsQueue == Queue!Spec

-----------------------------------------------------------------------------
\* Workers poll for ever, a run always ends (job_timeout), and a lease that is
\* not released runs out.
Fairness == /\ \A w \in Workers : /\ WF_vars(ClaimFinal(w))
                                  /\ WF_vars(RunStep(w))
            /\ \A l \in Landings : WF_vars(Lapse(l))

FairSpec == Spec /\ Fairness

\* Every scheduled landing is decided in the end: its job does not stay in the
\* queue for ever, although handleFinalFailure sometimes records nothing and
\* leaves the row to the lease and the next claim.
EveryLandingJobEnds ==
    \A l \in Landings :
        job[l].state # "absent" ~> job[l].state \in Terminal
=============================================================================
