----------------------------- MODULE MCDisputes -----------------------------
(***************************************************************************)
(* Two bookings of one resource, and one administrator.                   *)
(***************************************************************************)
EXTENDS Disputes

CONSTANTS x1

MCResourceOf == [b \in Bookings |-> x1]

Review(to, notes, action) == [to |-> to, notes |-> notes, action |-> action]

MCReviews ==
    {Review(None, "text", "MARK_UNAVAILABLE"), Review(None, "none", "RESTORE"),
     Review(None, "blank", "NONE"), Review("UNDER_REVIEW", "none", "MARK_UNAVAILABLE"),
     Review("RESOLVED", "text", "NONE"), Review("REJECTED", "text", "RESTORE"),
     Review("RESOLVED", "none", "NONE")}

Symmetry == Permutations(Calls) \cup Permutations(Bookings)
=============================================================================
