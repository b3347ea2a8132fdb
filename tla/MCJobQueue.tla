----------------------------- MODULE MCJobQueue -----------------------------
(***************************************************************************)
(* A run with two planning workers, the run that replaces it, and a final  *)
(* job that outranks a preview job.                                        *)
(***************************************************************************)
EXTENDS Coordinator, TLC

CONSTANTS w1, w2, w3, old, new, final, preview

MCWorkers  == {w1, w2, w3}
MCJobs     == {final, preview}
MCKind     == (final :> "final_plan") @@ (preview :> "preview_plan")
MCKinds    == [w \in MCWorkers |-> {"final_plan", "preview_plan"}]
MCCoordinatorOf == (w1 :> old) @@ (w2 :> old) @@ (w3 :> new)
MCPriority == (final :> 200) @@ (preview :> 100)
=============================================================================
