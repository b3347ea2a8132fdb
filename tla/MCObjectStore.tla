--------------------------- MODULE MCObjectStore ----------------------------
(***************************************************************************)
(* Bounded instances of ObjectStore: 2 and 3 succeed 1 on two clones, 4    *)
(* merges them.                                                            *)
(***************************************************************************)
EXTENDS ObjectStore, TLC

CONSTANTS a, b, m, n

MCChain == <<  <<1>>, <<1, 2>>, <<1, 3>>, <<1, 2, 3, 4>>  >>

World(ns, rs, as, bs, ps) ==
    [nodes |-> ns, reads |-> rs, tips |-> (a :> as) @@ (b :> bs), packs |-> ps]

MCWorlds == {World({m}, FALSE, {2, 4}, {3}, 1),
             World({m}, TRUE, {1, 2}, {}, 3),
             World({m, n}, FALSE, {2}, {}, 1)}
=============================================================================
