--------------------------- MODULE MCCheckOutbox ----------------------------
(***************************************************************************)
(* One head of a pull request, whose check goes back and forth between two *)
(* contents, and the one control worker of the coordinator.                *)
(***************************************************************************)
EXTENDS CheckOutbox

CONSTANTS w1, planning, ready
=============================================================================
