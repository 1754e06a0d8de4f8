---------------------------- MODULE Reservation -----------------------------
(***************************************************************************)
(* What the booking service promises about slots, without requests, points *)
(* or time: a slot is reserved by at most one booking, a reservation is    *)
(* released at most once, and a finished one is never released.            *)
(***************************************************************************)
CONSTANTS Slots, BookingIds

VARIABLES
    holders,    \* [Slots -> SUBSET BookingIds]: who holds each slot
    used,       \* the bookings ever made
    finished    \* the bookings that were carried out

Init ==
    /\ holders = [s \in Slots |-> {}]
    /\ used = {}
    /\ finished = {}

Reserve(s, b) ==
    /\ holders[s] = {}
    /\ b \notin used
    /\ holders' = [holders EXCEPT ![s] = {b}]
    /\ used' = used \cup {b}
    /\ UNCHANGED finished

Release(s, b) ==
    /\ b \in holders[s] \ finished
    /\ holders' = [holders EXCEPT ![s] = {}]
    /\ UNCHANGED <<used, finished>>

Finish(s, b) ==
    /\ b \in holders[s]
    /\ finished' = finished \cup {b}
    /\ UNCHANGED <<holders, used>>

Next ==
    \E s \in Slots, b \in BookingIds : Reserve(s, b) \/ Release(s, b) \/ Finish(s, b)

Spec == Init /\ [][Next]_<<holders, used, finished>>
=============================================================================
