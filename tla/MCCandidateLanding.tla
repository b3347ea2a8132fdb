------------------------- MODULE MCCandidateLanding -------------------------
(***************************************************************************)
(* Bounded instances of CandidateLanding: an entity that changes, one that *)
(* moves, a canonical note with a superseded revision, and one that needs  *)
(* review.  The foreign candidates start from the superseded revision, or  *)
(* take a note for new that is not.  The note files are a successor of the *)
(* canonical revision, and one that takes an old revision for its own, is  *)
(* bound to an entity that is not there and leaves the canonical one out.  *)
(***************************************************************************)
EXTENDS CandidateLanding, TLC

CONSTANTS s1, s2, s3, f, g, m, n1, n2, h1, h2, h3, t1, t2

MCTree == (s1 :> ((f :> h1) @@ (g :> h2)))
            @@ (s2 :> ((f :> h3) @@ (g :> h2)))
            @@ (s3 :> ((f :> h3) @@ (m :> h2)))

Canonical(state) ==
    [objects |-> <<Object(<<>>, s1, n1 :> Entry(1, 0, g, "active", s1)),
                   Object(<<1>>, s1, n1 :> Entry(2, 1, g, state, s1))>>,
     revs |-> 2]
MCHistories == {Canonical("active"), Canonical("needs_review")}

MCForeign ==
    {{Record("revise", n1, 11, 1, 1, g, h2), Record("revise", n2, 12, 1, 1, f, h3)},
     {Record("add", n1, 11, 0, 0, m, h2), Record("add", n2, 12, 0, 0, f, h1)},
     {Record("rebind", n1, 1, 1, 0, f, h1)},
     {Record("revise", n1, 2, 1, 1, f, h1)}}

MCAuthored == {Entry(21, 2, g, "active", s1), Entry(1, 0, m, "needs_review", s3)}

MCSymmetry == Permutations(Terminals)
=============================================================================
