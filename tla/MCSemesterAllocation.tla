------------------------ MODULE MCSemesterAllocation ------------------------
(***************************************************************************)
(* Instances of SemesterAllocation for TLC: a university o1 and one        *)
(* department o2.                                                          *)
(***************************************************************************)
EXTENDS SemesterAllocation, TLC

CONSTANTS o1, o2

MCAncestors == [o \in Orgs |-> {o1, o}]
MCSymmetry == Permutations(Requests) \cup Permutations(Users)

=============================================================================
