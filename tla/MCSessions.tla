----------------------------- MODULE MCSessions -----------------------------
(***************************************************************************)
(* Two tabs of one browser: the first has two calls under way, which share *)
(* its refresh, the second has one.                                        *)
(***************************************************************************)
EXTENDS Sessions, TLC

CONSTANTS t1, t2, c1, c2, c3

MCTabOf == (c1 :> t1) @@ (c2 :> t1) @@ (c3 :> t2)

Symmetry == Permutations({c1, c2}) \cup Permutations(Roots)
=============================================================================
