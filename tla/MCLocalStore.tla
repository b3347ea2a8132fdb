---------------------------- MODULE MCLocalStore ----------------------------
(***************************************************************************)
(* Bounded instances of LocalStore: an entity that changes and one that    *)
(* appears with the hash the other one had.                                *)
(***************************************************************************)
EXTENDS LocalStore, TLC

CONSTANTS s1, s2, f, g, n1, n2, d1, h1, h2

World(actors, srcs, objs, rs, ids) ==
    [actors |-> actors, sources |-> srcs, objects |-> objs, revs |-> rs, notes |-> ids]

MCWorlds == {World({"git", "pack"}, {s1, s2}, 2, 2, 2),
             World({"git", "loss"}, {s1, s2}, 2, 1, 1),
             World({"git", "clone"}, {s1, s2}, 3, 3, 1),
             World({"clone"}, {s2}, 4, 4, 1),
             World({"git", "provider"}, {s1, s2}, 1, 2, 2)}
MCWedged == {World({"git"}, {s1, s2}, 3, 2, 2)}
MCTree == (s1 :> (f :> h1)) @@ (s2 :> ((f :> h2) @@ (g :> h1)))
MCDraftOf == d1 :> [entity |-> f, hash |-> h1]
MCEnvelopes == <<[merged |-> s1, notes |-> {d1}], [merged |-> s1, notes |-> {d1}]>>
Symmetry == Permutations({n1, n2})
=============================================================================
