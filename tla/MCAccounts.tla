----------------------------- MODULE MCAccounts -----------------------------
(***************************************************************************)
(* Two addresses, two Google accounts of which the first has the first     *)
(* address, and a university with one department.                          *)
(***************************************************************************)
EXTENDS Accounts, TLC

CONSTANTS e1, e2, s1, s2, top, dept

MCEmailOf == (s1 :> e1) @@ (s2 :> e2)
MCParent == (top :> None) @@ (dept :> top)

Symmetry == Permutations(Requests)
=============================================================================
