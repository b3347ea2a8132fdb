------------------------- MODULE MCRunnerExecution --------------------------
(***************************************************************************)
(* Two workers of one coordinator, over both kinds of backend.             *)
(***************************************************************************)
EXTENDS RunnerExecution

CONSTANTS w1, w2
=============================================================================
