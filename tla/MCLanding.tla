----------------------------- MODULE MCLanding ------------------------------
(***************************************************************************)
(* Bounded instances of Landing.                                           *)
(***************************************************************************)
EXTENDS LandingQueue, TLC

CONSTANTS w1, w2, c1, first, second

\* The candidate of the first change is for the first version of the ref, and
\* conflicts with it; the second change has none.
MCPinned == [l \in {first, second} |-> IF l = first THEN 1 ELSE 0]
MCPinnedOne == [l \in {first} |-> 1]
MCUnpinned == [l \in {first} |-> 0]
MCConflicting == {<<first, 1>>}

Symmetry == Permutations({w1, w2})
=============================================================================
