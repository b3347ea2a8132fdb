----------------------------- MODULE MCPlanning -----------------------------
(***************************************************************************)
(* A change with two revisions of one head (the base moved), the control   *)
(* worker, one planning worker, and a candidate publication.               *)
(***************************************************************************)
EXTENDS Planning, TLC

CONSTANTS control, planner, r1, r2, h, x, p, old, moved

MCHead  == [r \in {r1, r2} |-> h]
MCKinds == (control :> {"webhook"}) @@ (planner :> {"preview"})

Symmetry == {f @@ g : f \in Permutations({r1, r2}),
                      g \in Permutations({old, moved})}
=============================================================================
