---------------------------- MODULE MCBookings ------------------------------
(***************************************************************************)
(* Instances of Bookings for TLC: a university o1 with one department o2   *)
(* that owns the resources; u1 administers the department.                 *)
(***************************************************************************)
EXTENDS Bookings, TLC

CONSTANTS o1, o2, u1, r1, s1

MCOwner == [r \in Resources |-> o2]
MCAncestors == [o \in Orgs |-> IF o = o2 THEN Orgs ELSE {o}]
MCAdmins == [o \in Orgs |-> IF o = o2 THEN {u1} ELSE {}]
MCSlotResource == [s \in Slots |-> r1]

\* One slot starts at 1, the other, if any, at 2: neither overlaps.
MCStartsAt == [s \in Slots |-> IF s = s1 THEN 1 ELSE 2]
MCEndsAt == [s \in Slots |-> MCStartsAt[s] + 1]

\* Slots that all start at 2, and so overlap on one resource.
MCStartsAtTwo == [s \in Slots |-> 2]
MCEndsAtThree == [s \in Slots |-> 3]

Symmetry == Permutations(BookingIds) \cup Permutations(Requests)

=============================================================================
