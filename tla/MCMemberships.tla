--------------------------- MODULE MCMemberships ----------------------------
(***************************************************************************)
(* Instances of Memberships for TLC: a university o1 and a department o2.  *)
(***************************************************************************)
EXTENDS Memberships, TLC

CONSTANTS o1, o2, u1, u2

MCParent == [o \in Orgs |-> IF o = o1 THEN None ELSE o1]
MCAncestors == [o \in Orgs |-> {o1, o}]

\* u1 founded the university; the department does not exist yet.
MCFounders == [o \in Orgs |-> IF o = o1 THEN {u1} ELSE {}]

\* Requests are interchangeable.
MCSymmetry == Permutations(Requests)

=============================================================================
