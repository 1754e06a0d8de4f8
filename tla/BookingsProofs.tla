--------------------------- MODULE BookingsProofs ---------------------------
(***************************************************************************)
(* Proofs about Bookings for all users, organizations, resources, slots,   *)
(* bookings and concurrent requests.  The inductive invariant is IInv.     *)
(***************************************************************************)
EXTENDS Bookings, FiniteSetTheorems, WellFoundedInduction, TLAPS

USE ConstantsAssumption

\* A row that exists names its user and its slot; one that does not is empty.
RowsOK ==
    \A b \in BookingIds :
        IF booking[b].status = "NONE"
        THEN booking[b] = NoRow /\ deduction[b] = 0 /\ refund[b] = 0
        ELSE booking[b].user \in Users /\ booking[b].slot \in Slots

\* A request works on bookings that exist; a user cancellation is the owner's.
RequestsOK ==
    \A p \in Requests :
        /\ req[p].op \in {"cancel", "complete"} =>
              booking[req[p].booking].status # "NONE"
        /\ req[p].op = "cancel" /\ req[p].byUser =>
              req[p].actor = booking[req[p].booking].user
        /\ req[p].op = "reevaluate" =>
              \A b \in req[p].todo : booking[b].status # "NONE"

IInv ==
    /\ TypeOK
    /\ RowsOK
    /\ RequestsOK
    /\ OneActiveBookingPerSlot
    /\ RefundsAreDue

-----------------------------------------------------------------------------
(* Requests *)

\* The op of a request tells which record it is (createBooking, cancelBooking,
\* completeBooking, reevaluateBookings, SlotsService.create).
LEMMA RequestCases ==
    ASSUME NEW q \in Request
    PROVE  /\ q.op = "begun" => q \in CreateBegun
           /\ q.op = "ready" => q \in CreateReady
           /\ q.op = "cancel" => q \in CancelRead
           /\ q.op = "complete" => q \in CompleteRead
           /\ q.op = "reevaluate" => q \in ReevaluateRead
           /\ q.op = "slot" => q \in SlotRead
BY DEF Request, Idle, CreateBegun, CreateReady, CancelRead, CompleteRead,
       ReevaluateRead, SlotRead

\* A ledger entry or a commit elsewhere only raises flags of a create in flight.
LEMMA DisturbOnlyFlags ==
    ASSUME NEW q \in Request, NEW u, NEW t
    PROVE  /\ TouchBalance(q, u) \in Request
           /\ NotifyCommit(q, t) \in Request
           /\ TouchBalance(q, u).op = q.op
           /\ NotifyCommit(q, t).op = q.op
           /\ q.op # "ready" => TouchBalance(q, u) = q /\ NotifyCommit(q, t) = q
<1>1. CASE q.op = "ready"
  <2>1. q \in CreateReady
    BY <1>1, RequestCases
  <2>2. TouchBalance(q, u) \in CreateReady /\ TouchBalance(q, u).op = "ready"
    BY <2>1 DEF TouchBalance, CreateReady
  <2>3. TouchBalance(q, t.user) \in CreateReady
    BY <2>1 DEF TouchBalance, CreateReady
  <2>4. NotifyCommit(q, t) \in CreateReady /\ NotifyCommit(q, t).op = "ready"
    BY <2>1, <2>3 DEF NotifyCommit, CreateReady
  <2> QED
    BY <1>1, <2>2, <2>4 DEF Request
<1>2. CASE q.op # "ready"
  BY <1>2 DEF TouchBalance, NotifyCommit, Conflicts
<1> QED
  BY <1>1, <1>2

-----------------------------------------------------------------------------
(* Type correctness *)

LEMMA InitIInv == Init => IInv
<1> SUFFICES ASSUME Init PROVE IInv
  OBVIOUS
<1> USE DEF Init
<1>1. TypeOK
  BY DEF TypeOK, ResourceRow, Row, NoRow, Request, SlotStatus
<1>2. RowsOK /\ RequestsOK
  BY DEF RowsOK, NoRow, RequestsOK, Idle
<1>3. OneActiveBookingPerSlot /\ RefundsAreDue
  BY DEF OneActiveBookingPerSlot, RefundsAreDue, Holds, NoRow
<1> QED
  BY <1>1, <1>2, <1>3 DEF IInv

\* A refund entry is typed whatever booking it is for (AppendBookingRefund and
\* the rounding of cancelBooking).
LEMMA RefundTyped ==
    ASSUME TypeOK, NEW b \in BookingIds, NEW byUser \in BOOLEAN
    PROVE  /\ RefundPoints(b, byUser) \in Nat
           /\ AppendBookingRefund(b, RefundPoints(b, byUser)) =>
                 refund' \in [BookingIds -> Nat] /\ balance' \in [Users -> Nat]
<1>1. RefundPoints(b, byUser) \in Nat
  BY DEF TypeOK, RefundPoints
<1> QED
  BY <1>1 DEF TypeOK, AppendBookingRefund

\* The columns that cancelBooking, completeBooking and reevaluateBookings set.
LEMMA RowUpdates ==
    ASSUME NEW row \in Row, NEW st \in BookingStatus, NEW by \in Users \cup {None}
    PROVE  /\ [row EXCEPT !.status = st] \in Row
           /\ [row EXCEPT !.status = st, !.cancelledBy = by] \in Row
BY DEF Row, BookingStatus

LEMMA EndTouchingTyped ==
    ASSUME TypeOK, NEW p \in Requests, NEW u, NEW amount, NEW next \in Request,
           EndTouching(p, u, amount, next)
    PROVE  req' \in [Requests -> Request]
BY DisturbOnlyFlags DEF TypeOK, EndTouching

LEMMA BecomeTyped ==
    ASSUME TypeOK, NEW p \in Requests, NEW q \in Request, Become(p, q)
    PROVE  req' \in [Requests -> Request]
BY DEF TypeOK, Become

\* Every action keeps every variable in its type; the balance stays a natural
\* number because the trigger refuses a deduction larger than it.
LEMMA StepTypeOK ==
    ASSUME TypeOK, NEW p \in Requests, Step(p)
    PROVE  TypeOK'
<1> USE DEF tables, ledger
<1>0. req[p] \in Request /\ Idle \in Request
  BY DEF TypeOK, Request
<1>1. CASE ValidateBooking(p)
  <2>1. req[p] \in CreateBegun
    BY <1>0, <1>1, RequestCases DEF ValidateBooking
  <2>2. resource[SlotResource[req[p].slot]] \in ResourceRow
    BY <2>1 DEF TypeOK, CreateBegun
  <2> DEFINE r == resource[SlotResource[req[p].slot]]
             ready == [op |-> "ready", user |-> req[p].user, slot |-> req[p].slot,
                       attempt |-> req[p].attempt, cost |-> r.pointCost,
                       notice |-> r.notice, ssi |-> FALSE, touched |-> FALSE]
  <2>3. ready \in CreateReady
    BY <2>1, <2>2 DEF CreateReady, CreateBegun, ResourceRow
  <2>4. \E q \in Request : Become(p, q)
    BY <1>0, <1>1, <2>3 DEF ValidateBooking, Request
  <2>5. req' \in [Requests -> Request]
    BY <2>4, BecomeTyped
  <2> QED
    BY <1>1, <2>5 DEF ValidateBooking, TypeOK
<1>2. CASE CommitCreate(p)
  <2> DEFINE q == req[p]
  <2>1. q \in CreateReady
    BY <1>0, <1>2, RequestCases DEF CommitCreate
  <2>2. q.user \in Users /\ q.slot \in Slots /\ q.cost \in Nat /\ q.notice \in Nat
    BY <2>1 DEF CreateReady
  <2>3. req' \in [Requests -> Request]
    BY <1>0, <1>2, DisturbOnlyFlags DEF CommitCreate, TypeOK
  <2>4. PICK b \in BookingIds :
          /\ booking' = [booking EXCEPT ![b] =
               [status |-> "CONFIRMED", user |-> q.user, slot |-> q.slot,
                notice |-> q.notice, cancelledBy |-> None]]
          /\ deduction' = [deduction EXCEPT ![b] = q.cost]
    BY <1>2 DEF CommitCreate
  <2>5. booking' \in [BookingIds -> Row] /\ deduction' \in [BookingIds -> Nat]
    BY <2>2, <2>4 DEF TypeOK, Row, BookingStatus
  <2>6. balance[q.user] - q.cost \in Nat
    BY <1>2, <2>2 DEF CommitCreate, TypeOK
  <2>7. balance' \in [Users -> Nat]
    BY <1>2, <2>6 DEF CommitCreate, TypeOK
  <2> QED
    BY <1>2, <2>3, <2>5, <2>7 DEF CommitCreate, TypeOK
<1>3. CASE UniqueConflict(p) \/ LedgerConflict(p)
  BY <1>0, <1>3, BecomeTyped DEF UniqueConflict, LedgerConflict, End, TypeOK
<1>4. CASE SerializationConflict(p)
  <2>1. req[p] \in CreateReady
    BY <1>0, <1>4, RequestCases DEF SerializationConflict
  <2>2. NextAttempt(req[p]) \in CreateBegun \cup {Idle}
    BY <2>1 DEF NextAttempt, CreateReady, CreateBegun, Attempt
  <2>3. req' \in [Requests -> Request]
    BY <1>4, <2>2, BecomeTyped DEF SerializationConflict, Request
  <2> QED
    BY <1>4, <2>3 DEF SerializationConflict, TypeOK
<1>5. CASE CommitCancel(p)
  <2> DEFINE q == req[p]
             b == q.booking
  <2>1. q \in CancelRead
    BY <1>0, <1>5, RequestCases DEF CommitCancel
  <2>2. b \in BookingIds /\ q.actor \in Users /\ q.byUser \in BOOLEAN
          /\ q.slotStatus \in SlotStatus
    BY <2>1 DEF CancelRead
  <2>3. booking' \in [BookingIds -> Row]
    <3>1. [booking[b] EXCEPT !.status = "CANCELLED", !.cancelledBy = q.actor] \in Row
      BY <2>2, RowUpdates DEF TypeOK, BookingStatus
    <3>2. booking' = [booking EXCEPT ![b] =
             [booking[b] EXCEPT !.status = "CANCELLED", !.cancelledBy = q.actor]]
      BY <1>5, <2>2 DEF CommitCancel, TypeOK, Row
    <3> QED
      BY <2>2, <3>1, <3>2 DEF TypeOK
  <2>4. slot' \in [Slots -> SlotStatus \cup {"NONE"}]
    BY <1>5, <2>2 DEF CommitCancel, TypeOK
  <2>5. refund' \in [BookingIds -> Nat] /\ balance' \in [Users -> Nat]
    BY <1>5, <2>2, RefundTyped DEF CommitCancel
  <2>6. req' \in [Requests -> Request]
    BY <1>0, <1>5, EndTouchingTyped DEF CommitCancel
  <2> QED
    BY <1>5, <2>3, <2>4, <2>5, <2>6 DEF CommitCancel, TypeOK
<1>6. CASE CancelConflict(p)
  BY <1>0, <1>6, BecomeTyped DEF CancelConflict, End, TypeOK
<1>7. CASE CommitComplete(p)
  <2>1. booking' \in [BookingIds -> Row]
    <3> DEFINE b == req[p].booking
    <3>1. req[p] \in CompleteRead
      BY <1>0, <1>7, RequestCases DEF CommitComplete, Completable
    <3>2. [booking[b] EXCEPT !.status = "COMPLETED"] \in Row
      BY <3>1, RowUpdates DEF CompleteRead, TypeOK, BookingStatus
    <3> QED
      BY <1>7, <3>1, <3>2 DEF CommitComplete, CompleteRead, TypeOK
  <2> QED
    BY <1>0, <1>7, <2>1, BecomeTyped DEF CommitComplete, End, TypeOK
<1>8. ASSUME NEW b \in BookingIds, ReevaluateOne(p, b)
      PROVE  TypeOK'
  <2>1. req[p] \in ReevaluateRead
    BY <1>0, <1>8, RequestCases DEF ReevaluateOne
  <2>2. booking' \in [BookingIds -> Row]
    <3>1. [booking[b] EXCEPT !.status = "CANCELLED"] \in Row
      BY RowUpdates DEF TypeOK, BookingStatus
    <3> QED
      BY <1>8, <3>1 DEF ReevaluateOne, TypeOK
  <2>3. slot' \in [Slots -> SlotStatus \cup {"NONE"}]
    BY <1>8 DEF ReevaluateOne, TypeOK, SlotStatus
  <2>4. refund' \in [BookingIds -> Nat] /\ balance' \in [Users -> Nat]
    BY <1>8, RefundTyped DEF ReevaluateOne
  <2>5. [req[p] EXCEPT !.todo = @ \ {b}] \in Request
    BY <2>1 DEF ReevaluateRead, Request
  <2>6. req' \in [Requests -> Request]
    BY <1>8, <2>5, EndTouchingTyped DEF ReevaluateOne
  <2> QED
    BY <1>8, <2>2, <2>3, <2>4, <2>6 DEF ReevaluateOne, TypeOK
<1>9. ASSUME NEW b \in BookingIds, ReevaluateAborts(p, b)
      PROVE  TypeOK'
  BY <1>0, <1>9, BecomeTyped DEF ReevaluateAborts, End, TypeOK
<1>10. CASE ReevaluateEnds(p)
  BY <1>0, <1>10, BecomeTyped DEF ReevaluateEnds, End, TypeOK
<1>11. CASE CommitCreateSlot(p)
  <2>1. slot' \in [Slots -> SlotStatus \cup {"NONE"}]
    BY <1>11 DEF CommitCreateSlot, TypeOK, SlotStatus
  <2> QED
    BY <1>0, <1>11, <2>1, BecomeTyped DEF CommitCreateSlot, End, TypeOK
<1> QED
  BY <1>1, <1>2, <1>3, <1>4, <1>5, <1>6, <1>7, <1>8, <1>9, <1>10, <1>11 DEF Step

\* New requests are typed: each record is built from rows that are.
LEMMA ArriveTypeOK ==
    ASSUME TypeOK, NEW p \in Requests, Arrive(p)
    PROVE  TypeOK'
<1> USE DEF tables, ledger
<1>1. ASSUME NEW u \in Users, NEW s \in Slots, RequestBooking(p, u, s)
      PROVE  TypeOK'
  <2>1. [op |-> "begun", user |-> u, slot |-> s, attempt |-> 1] \in CreateBegun
    BY DEF CreateBegun, Attempt
  <2>2. req' \in [Requests -> Request]
    BY <1>1, <2>1, BecomeTyped DEF RequestBooking, Request
  <2> QED
    BY <1>1, <2>2 DEF RequestBooking, TypeOK
<1>2. ASSUME NEW a \in Users, NEW b \in BookingIds,
             NEW m \in {"undefined", "true", "false"}, BeginCancel(p, a, b, m)
      PROVE  TypeOK'
  <2> DEFINE byUser == booking[b].user = a /\ m = "undefined"
             q == [op |-> "cancel", booking |-> b, actor |-> a,
                   byUser |-> byUser,
                   slotStatus |-> IF byUser \/ m = "true"
                                  THEN "PUBLISHED" ELSE "WITHDRAWN"]
  <2>1. q \in CancelRead
    <3>1. byUser \in BOOLEAN
      OBVIOUS
    <3> HIDE DEF byUser
    <3> QED
      BY <3>1 DEF CancelRead, SlotStatus, TypeOK
  <2>2. req' \in [Requests -> Request]
    BY <1>2, <2>1, BecomeTyped DEF BeginCancel, Request
  <2> QED
    BY <1>2, <2>2 DEF BeginCancel, TypeOK
<1>3. ASSUME NEW a \in Users, NEW b \in BookingIds, BeginComplete(p, a, b)
      PROVE  TypeOK'
  <2>1. [op |-> "complete", booking |-> b] \in Request
    BY DEF Request, CompleteRead
  <2> QED
    BY <1>3, <2>1, BecomeTyped DEF BeginComplete, TypeOK
<1>4. ASSUME NEW r \in Resources, BeginReevaluate(p, r)
      PROVE  TypeOK'
  <2>1. PICK lost \in SUBSET BookingIds :
          Become(p, [op |-> "reevaluate", resource |-> r, todo |-> lost])
    BY <1>4 DEF BeginReevaluate
  <2>2. [op |-> "reevaluate", resource |-> r, todo |-> lost] \in Request
    BY DEF Request, ReevaluateRead
  <2>3. req' \in [Requests -> Request]
    BY <2>1, <2>2, BecomeTyped
  <2>4. triggers' \in [Resources -> Nat]
    BY <1>4 DEF BeginReevaluate, TypeOK
  <2> QED
    BY <1>4, <2>3, <2>4 DEF BeginReevaluate, TypeOK
<1>5. ASSUME NEW a \in Users, NEW s \in Slots, BeginCreateSlot(p, a, s)
      PROVE  TypeOK'
  <2>1. [op |-> "slot", slot |-> s] \in Request
    BY DEF Request, SlotRead
  <2> QED
    BY <1>5, <2>1, BecomeTyped DEF BeginCreateSlot, TypeOK
<1> QED
  BY <1>1, <1>2, <1>3, <1>4, <1>5 DEF Arrive

LEMMA ResourceUpdates ==
    ASSUME NEW row \in ResourceRow, NEW st \in {"ACTIVE", "INACTIVE"},
           NEW c \in Nat, NEW n \in Nat, NEW allowed \in SUBSET Orgs
    PROVE  /\ [row EXCEPT !.pointCost = c, !.notice = n, !.status = st]
                 \in ResourceRow
           /\ [row EXCEPT !.allowed = allowed] \in ResourceRow
           /\ [row EXCEPT !.status = st] \in ResourceRow
BY DEF ResourceRow

LEMMA EnvironmentTypeOK ==
    ASSUME TypeOK, Environment
    PROVE  TypeOK'
<1> USE DEF tables, ledger
<1>1. ASSUME NEW r \in Resources, NEW c \in Costs, NEW n \in Notices,
             NEW st \in UpdateStatuses, UpdateResource(r, c, n, st)
      PROVE  TypeOK'
  <2>1. [resource[r] EXCEPT !.pointCost = c, !.notice = n, !.status = st]
           \in ResourceRow
    BY ResourceUpdates DEF TypeOK
  <2>2. resource' = [resource EXCEPT ![r] =
           [resource[r] EXCEPT !.pointCost = c, !.notice = n, !.status = st]]
    BY <1>1 DEF UpdateResource, TypeOK, ResourceRow
  <2> QED
    BY <1>1, <2>1, <2>2 DEF UpdateResource, TypeOK
<1>2. ASSUME NEW r \in Resources, NEW allowed \in SUBSET Orgs,
             UpdateAllowedOrganizations(r, allowed)
      PROVE  TypeOK'
  <2>0. {Owner[r]} \cup allowed \in SUBSET Orgs /\ resource[r] \in ResourceRow
    BY DEF TypeOK
  <2>1. [resource[r] EXCEPT !.allowed = {Owner[r]} \cup allowed] \in ResourceRow
    BY <2>0 DEF ResourceRow
  <2>2. resource' \in [Resources -> ResourceRow]
    BY <1>2, <2>1 DEF UpdateAllowedOrganizations, TypeOK
  <2> QED
    BY <1>2, <2>2 DEF UpdateAllowedOrganizations, TypeOK
<1>3. ASSUME NEW r \in Resources, RemoveResource(r)
      PROVE  TypeOK'
  <2>1. [resource[r] EXCEPT !.status = "INACTIVE"] \in ResourceRow
    BY ResourceUpdates DEF TypeOK
  <2>2. resource' \in [Resources -> ResourceRow]
    BY <1>3, <2>1 DEF RemoveResource, TypeOK
  <2> QED
    BY <1>3, <2>2 DEF RemoveResource, TypeOK
<1>4. ASSUME NEW r \in Resources, LoseTrigger(r)
      PROVE  TypeOK'
  BY <1>4 DEF LoseTrigger, TypeOK
<1>5. ASSUME NEW u \in Leavers, NEW o \in Orgs, RemoveMembership(u, o)
      PROVE  TypeOK'
  BY <1>5 DEF RemoveMembership, TypeOK
<1>6. ASSUME NEW u \in Users, GrantPoints(u)
      PROVE  TypeOK'
  <2>1. req' \in [Requests -> Request]
    BY <1>6, DisturbOnlyFlags DEF GrantPoints, TypeOK
  <2> QED
    BY <1>6, <2>1 DEF GrantPoints, TypeOK
<1>7. CASE Tick
  BY <1>7 DEF Tick, TypeOK
<1>8. ASSUME NEW p \in Requests, Interrupt(p)
      PROVE  TypeOK'
  <2>1. Idle \in Request
    BY DEF Request
  <2> QED
    BY <1>8, <2>1, BecomeTyped DEF Interrupt, End, TypeOK
<1> QED
  BY <1>1, <1>2, <1>3, <1>4, <1>5, <1>6, <1>7, <1>8 DEF Environment

LEMMA NextTypeOK == TypeOK /\ [Next]_vars => TypeOK'
<1>1. ASSUME TypeOK, UNCHANGED vars PROVE TypeOK'
  BY <1>1 DEF TypeOK, vars
<1> QED
  BY <1>1, StepTypeOK, ArriveTypeOK, EnvironmentTypeOK DEF Next

\* Every table and every request keeps its type in every execution, and no
\* user's projected balance goes below zero.
THEOREM TypeCorrect == Spec => []TypeOK
<1>1. Init => TypeOK
  BY InitIInv DEF IInv
<1> QED
  BY <1>1, NextTypeOK, PTL DEF Spec

-----------------------------------------------------------------------------
(* The inductive invariant *)

\* A step keeps the user, the slot and the terms of every booking that exists.
RowsKept ==
    \A b \in BookingIds : booking[b].status # "NONE" =>
        /\ booking'[b].status # "NONE"
        /\ booking'[b].user = booking[b].user
        /\ booking'[b].slot = booking[b].slot
        /\ booking'[b].notice = booking[b].notice

\* A step leaves what request p knows of bookings as it is, or shrinks it.
RequestKept(p) ==
    \/ req'[p].op \in {"idle", "begun", "ready", "slot"}
    \/ req'[p] = req[p]
    \/ /\ req[p].op = "reevaluate"
       /\ req'[p].op = "reevaluate"
       /\ req'[p].todo \subseteq req[p].todo

\* A conflict that another transaction's commit records leaves it as it is.
LEMMA DisturbedIsKept ==
    ASSUME NEW p \in Requests, req[p] \in Request, NEW u, NEW t,
           req'[p] = TouchBalance(req[p], u) \/ req'[p] = NotifyCommit(req[p], t)
    PROVE  RequestKept(p)
<1>1. PICK q \in Request : q = req[p]
  OBVIOUS
<1>2. /\ TouchBalance(q, u).op = q.op /\ NotifyCommit(q, t).op = q.op
      /\ q.op # "ready" => TouchBalance(q, u) = q /\ NotifyCommit(q, t) = q
  BY DisturbOnlyFlags, Zenon
<1>3. req'[p] = TouchBalance(q, u) \/ req'[p] = NotifyCommit(q, t)
  BY <1>1
<1>4. \/ req'[p].op = "ready"
      \/ req'[p] = req[p]
  BY <1>1, <1>2, <1>3
<1> QED
  BY <1>4 DEF RequestKept

\* What a request has read stays true under steps of the others: the rows of
\* bookings are never deleted and their slot and notice are never updated.
LEMMA RequestsStayOK ==
    ASSUME TypeOK, RequestsOK, RowsKept,
           \A p \in Requests : RequestKept(p)
    PROVE  RequestsOK'
<1> SUFFICES ASSUME NEW p \in Requests
             PROVE  /\ req'[p].op \in {"cancel", "complete"} =>
                          booking'[req'[p].booking].status # "NONE"
                    /\ req'[p].op = "cancel" /\ req'[p].byUser =>
                          req'[p].actor = booking'[req'[p].booking].user
                    /\ req'[p].op = "reevaluate" =>
                          \A b \in req'[p].todo : booking'[b].status # "NONE"
  BY DEF RequestsOK
<1>1. CASE req'[p].op \in {"idle", "begun", "ready", "slot"}
  BY <1>1
<1>2. CASE req'[p] = req[p]
  <2>1. req[p] \in Request
    BY DEF TypeOK
  <2>2. req[p].op \in {"cancel", "complete"} => req[p].booking \in BookingIds
    BY <2>1, RequestCases DEF CancelRead, CompleteRead
  <2>3. req[p].op = "reevaluate" => req[p].todo \subseteq BookingIds
    BY <2>1, RequestCases DEF ReevaluateRead
  <2> QED
    BY <1>2, <2>2, <2>3 DEF RequestsOK, RowsKept
<1>3. CASE /\ req[p].op = "reevaluate"
           /\ req'[p].op = "reevaluate"
           /\ req'[p].todo \subseteq req[p].todo
  <2>1. req[p].todo \subseteq BookingIds
    BY <1>3, RequestCases DEF TypeOK, ReevaluateRead
  <2> QED
    BY <1>3, <2>1 DEF RequestsOK, RowsKept
<1> QED
  BY <1>1, <1>2, <1>3 DEF RequestKept

\* Steps that write no booking and no entry for a booking.
LEMMA RowsUnchanged ==
    ASSUME IInv, TypeOK', UNCHANGED <<booking, deduction, refund>>,
           \A p \in Requests : RequestKept(p)
    PROVE  IInv'
<1>1. RowsKept
  BY DEF RowsKept
<1>2. RequestsOK'
  BY <1>1, RequestsStayOK DEF IInv
<1>3. RowsOK'
  BY DEF IInv, RowsOK
<1>4. OneActiveBookingPerSlot' /\ RefundsAreDue'
  BY DEF IInv, OneActiveBookingPerSlot, RefundsAreDue, Holds
<1> QED
  BY <1>2, <1>3, <1>4 DEF IInv

LEMMA BecomeKept ==
    ASSUME TypeOK, NEW p \in Requests, NEW q, Become(p, q),
           q.op \in {"idle", "begun", "ready", "slot"}
    PROVE  \A o \in Requests : RequestKept(o)
BY DEF TypeOK, Become, RequestKept

LEMMA EndTouchingKept ==
    ASSUME TypeOK, NEW p \in Requests, NEW u, NEW amount, NEW next,
           EndTouching(p, u, amount, next),
           \/ next.op = "idle"
           \/ /\ req[p].op = "reevaluate"
              /\ next.op = "reevaluate"
              /\ next.todo \subseteq req[p].todo
    PROVE  \A o \in Requests : RequestKept(o)
<1> TAKE o \in Requests
<1>1. CASE o = p
  BY <1>1 DEF EndTouching, RequestKept
<1>2. CASE o # p
  <2>1. req[o] \in Request
    BY DEF TypeOK
  <2>2. req'[o] = req[o] \/ req'[o] = TouchBalance(req[o], u)
    BY <1>2 DEF EndTouching
  <2>3. CASE req'[o] = req[o]
    BY <2>3 DEF RequestKept
  <2>4. CASE req'[o] = TouchBalance(req[o], u)
    BY <2>1, <2>4, DisturbedIsKept
  <2> QED
    BY <2>2, <2>3, <2>4
<1> QED
  BY <1>1, <1>2

\* A step cancels booking b in the name of by, and pays what is due for it.
CancelsRow(b, by, amount) ==
    /\ booking[b].status \in {"CONFIRMED", "CANCELLED"}
    /\ booking'[b] = [booking[b] EXCEPT !.status = "CANCELLED", !.cancelledBy = by]
    /\ refund'[b] = amount
    /\ \A c \in BookingIds \ {b} : booking'[c] = booking[c] /\ refund'[c] = refund[c]
    /\ UNCHANGED deduction
    /\ amount <= deduction[b]
    /\ 2 * amount >= deduction[b]
    /\ by # booking[b].user => amount = deduction[b]

LEMMA CancellingRow ==
    ASSUME IInv, TypeOK', NEW b \in BookingIds, NEW by, NEW amount,
           CancelsRow(b, by, amount), \A p \in Requests : RequestKept(p)
    PROVE  IInv'
<1>0. /\ booking[b] \in Row
      /\ RowsOK /\ OneActiveBookingPerSlot /\ RefundsAreDue
  BY DEF IInv, TypeOK
<1>1. /\ booking'[b].status = "CANCELLED"
      /\ booking'[b].cancelledBy = by
      /\ booking'[b].user = booking[b].user
      /\ booking'[b].slot = booking[b].slot
      /\ booking'[b].notice = booking[b].notice
  BY <1>0 DEF Row, CancelsRow
<1>2. /\ \A c \in BookingIds \ {b} : booking'[c] = booking[c] /\ refund'[c] = refund[c]
      /\ UNCHANGED deduction
      /\ booking[b].status \in {"CONFIRMED", "CANCELLED"}
      /\ refund'[b] = amount
      /\ amount <= deduction[b]
      /\ 2 * amount >= deduction[b]
      /\ by # booking[b].user => amount = deduction[b]
  BY DEF CancelsRow
<1>3. RowsKept
  BY <1>1, <1>2 DEF RowsKept
<1>4. RequestsOK'
  BY <1>3, RequestsStayOK DEF IInv
<1>5. RowsOK'
  <2> SUFFICES ASSUME NEW c \in BookingIds
               PROVE  IF booking'[c].status = "NONE"
                      THEN booking'[c] = NoRow /\ deduction'[c] = 0 /\ refund'[c] = 0
                      ELSE booking'[c].user \in Users /\ booking'[c].slot \in Slots
    BY DEF RowsOK, NoRow
  <2>1. CASE c = b
    BY <1>0, <1>1, <1>2, <2>1 DEF RowsOK
  <2>2. CASE c # b
    BY <1>0, <1>2, <2>2 DEF RowsOK
  <2> QED
    BY <2>1, <2>2
<1>6. OneActiveBookingPerSlot'
  BY <1>0, <1>1, <1>2 DEF OneActiveBookingPerSlot, Holds
<1>7. RefundsAreDue'
  <2> SUFFICES ASSUME NEW c \in BookingIds
               PROVE  /\ booking'[c].status # "CANCELLED" => refund'[c] = 0
                      /\ booking'[c].status = "CANCELLED" =>
                            /\ refund'[c] <= deduction'[c]
                            /\ 2 * refund'[c] >= deduction'[c]
                            /\ booking'[c].cancelledBy # booking'[c].user
                                  => refund'[c] = deduction'[c]
    BY DEF RefundsAreDue
  <2>1. CASE c = b
    BY <1>1, <1>2, <2>1
  <2>2. CASE c # b
    BY <1>0, <1>2, <2>2 DEF RefundsAreDue
  <2> QED
    BY <2>1, <2>2
<1> QED
  BY <1>4, <1>5, <1>6, <1>7 DEF IInv

LEMMA CommitCreateIInv ==
    ASSUME IInv, TypeOK', NEW p \in Requests, CommitCreate(p)
    PROVE  IInv'
<1> USE DEF IInv
<1> DEFINE q == req[p]
<1>0. booking \in [BookingIds -> Row] /\ q \in Request
  BY DEF TypeOK
<1>1. q.user \in Users /\ q.slot \in Slots /\ q.cost \in Nat
  BY <1>0, RequestCases DEF CommitCreate, CreateReady
<1>2. PICK b \in BookingIds :
        /\ booking[b].status = "NONE"
        /\ booking' = [booking EXCEPT ![b] =
             [status |-> "CONFIRMED", user |-> q.user, slot |-> q.slot,
              notice |-> q.notice, cancelledBy |-> None]]
        /\ deduction' = [deduction EXCEPT ![b] = q.cost]
  BY DEF CommitCreate
<1>3. /\ booking'[b].status = "CONFIRMED"
      /\ booking'[b].user = q.user
      /\ booking'[b].slot = q.slot
  BY <1>0, <1>2
<1>4. \A c \in BookingIds \ {b} :
        booking'[c] = booking[c] /\ deduction'[c] = deduction[c]
  BY <1>0, <1>2 DEF TypeOK
<1>5. UNCHANGED refund /\ refund[b] = 0
  BY <1>2 DEF CommitCreate, RowsOK
<1>6. RowsKept
  BY <1>2, <1>4 DEF RowsKept
<1>7. \A o \in Requests : RequestKept(o)
  <2> TAKE o \in Requests
  <2>1. CASE o = p
    BY <2>1 DEF CommitCreate, RequestKept, Idle
  <2>2. CASE o # p
    <3>1. req'[o] = NotifyCommit(req[o], q) /\ req[o] \in Request
      BY <2>2 DEF CommitCreate, TypeOK
    <3> QED
      BY <3>1, DisturbedIsKept
  <2> QED
    BY <2>1, <2>2
<1>8. RequestsOK'
  BY <1>6, <1>7, RequestsStayOK
<1>9. RowsOK'
  BY <1>1, <1>3, <1>4, <1>5 DEF RowsOK
<1>10. OneActiveBookingPerSlot'
  <2>1. \A c \in BookingIds : ~(Holds(c) /\ booking[c].slot = q.slot)
    BY DEF CommitCreate, Taken, Holds, Active, ActiveStatus
  <2>2. \A c \in BookingIds \ {b} : Holds(c)' = Holds(c)
    BY <1>4 DEF Holds
  <2> QED
    BY <1>3, <1>4, <2>1, <2>2 DEF OneActiveBookingPerSlot
<1>11. RefundsAreDue'
  BY <1>3, <1>4, <1>5 DEF RefundsAreDue
<1> QED
  BY <1>8, <1>9, <1>10, <1>11

LEMMA CommitCancelIInv ==
    ASSUME IInv, TypeOK', NEW p \in Requests, CommitCancel(p)
    PROVE  IInv'
<1> DEFINE q == req[p]
           b == q.booking
           amount == RefundPoints(b, q.byUser)
<1>0. TypeOK /\ q \in Request
  BY DEF IInv, TypeOK
<1>1. b \in BookingIds /\ q.byUser \in BOOLEAN /\ q.actor \in Users
  BY <1>0, RequestCases DEF CommitCancel, CancelRead
<1>2. deduction[b] \in Nat
  BY <1>0, <1>1 DEF TypeOK
<1>3. amount <= deduction[b] /\ 2 * amount >= deduction[b]
  BY <1>1, <1>2 DEF RefundPoints
<1>4. q.actor # booking[b].user => amount = deduction[b]
  BY <1>1 DEF IInv, RequestsOK, RefundPoints, CommitCancel
<1>5. \A o \in Requests : RequestKept(o)
  BY <1>0, EndTouchingKept DEF CommitCancel, Idle
<1>6. CancelsRow(b, q.actor, amount)
  <2>1. /\ booking[b].status = "CONFIRMED"
        /\ booking' = [booking EXCEPT ![b].status = "CANCELLED",
                                      ![b].cancelledBy = q.actor]
        /\ refund' = [refund EXCEPT ![b] = amount]
        /\ UNCHANGED deduction
    BY DEF CommitCancel, AppendBookingRefund
  <2> HIDE DEF amount
  <2>2. booking'[b] = [booking[b] EXCEPT !.status = "CANCELLED",
                                         !.cancelledBy = q.actor]
    BY <1>0, <1>1, <2>1 DEF TypeOK, Row
  <2> QED
    BY <1>0, <1>1, <1>3, <1>4, <2>1, <2>2 DEF CancelsRow, TypeOK
<1> QED
  BY <1>1, <1>5, <1>6, CancellingRow

LEMMA ReevaluateOneIInv ==
    ASSUME IInv, TypeOK', NEW p \in Requests, NEW b \in BookingIds,
           ReevaluateOne(p, b)
    PROVE  IInv'
<1>0. TypeOK /\ req[p] \in Request /\ deduction[b] \in Nat
  BY DEF IInv, TypeOK
<1>1. req[p] \in ReevaluateRead
  BY <1>0, RequestCases DEF ReevaluateOne
<1>2. booking[b].status \in {"CONFIRMED", "CANCELLED"}
  BY DEF IInv, RequestsOK, TypeOK, Row, BookingStatus, ReevaluateOne, Reevaluable
<1>3. RefundPoints(b, FALSE) = deduction[b]
  BY DEF RefundPoints
<1>4. \A o \in Requests : RequestKept(o)
  <2>1. /\ [req[p] EXCEPT !.todo = @ \ {b}].op = "reevaluate"
        /\ [req[p] EXCEPT !.todo = @ \ {b}].todo \subseteq req[p].todo
    BY <1>1 DEF ReevaluateRead
  <2> QED
    BY <1>0, <2>1, EndTouchingKept DEF ReevaluateOne
<1>5. CancelsRow(b, booking[b].cancelledBy, deduction[b])
  <2>1. /\ booking' = [booking EXCEPT ![b].status = "CANCELLED"]
        /\ refund' = [refund EXCEPT ![b] = deduction[b]]
        /\ UNCHANGED deduction
    BY <1>3 DEF ReevaluateOne, AppendBookingRefund
  <2>2. booking'[b] = [booking[b] EXCEPT !.status = "CANCELLED",
                                         !.cancelledBy = booking[b].cancelledBy]
    BY <1>0, <2>1 DEF TypeOK, Row
  <2> QED
    BY <1>0, <1>2, <2>1, <2>2 DEF CancelsRow, TypeOK
<1> QED
  BY <1>4, <1>5, CancellingRow

LEMMA CommitCompleteIInv ==
    ASSUME IInv, TypeOK', NEW p \in Requests, CommitComplete(p)
    PROVE  IInv'
<1> USE DEF IInv
<1> DEFINE b == req[p].booking
<1>0. booking \in [BookingIds -> Row] /\ TypeOK /\ req[p] \in Request
  BY DEF TypeOK
<1>1. b \in BookingIds /\ booking[b].status # "NONE"
  BY <1>0, RequestCases DEF CommitComplete, CompleteRead, RequestsOK
<1>2. \A o \in Requests : RequestKept(o)
  BY <1>0, BecomeKept DEF CommitComplete, End, Idle
<1>3. UNCHANGED <<deduction, refund>>
  BY DEF CommitComplete, ledger
<1>4. CASE booking[b].status = "CANCELLED"
  <2>1. UNCHANGED booking
    BY <1>4 DEF CommitComplete, Completable
  <2> QED
    BY <1>2, <1>3, <2>1, RowsUnchanged
<1>5. CASE booking[b].status # "CANCELLED"
  <2>1. booking' = [booking EXCEPT ![b].status = "COMPLETED"]
    BY <1>5 DEF CommitComplete, Completable
  <2>2. /\ booking'[b].status = "COMPLETED"
        /\ booking'[b].cancelledBy = booking[b].cancelledBy
        /\ booking'[b].user = booking[b].user
        /\ booking'[b].slot = booking[b].slot
        /\ booking'[b].notice = booking[b].notice
    BY <1>0, <1>1, <2>1 DEF Row
  <2>3. \A c \in BookingIds \ {b} : booking'[c] = booking[c]
    BY <1>0, <2>1
  <2>4. RowsKept
    BY <2>2, <2>3 DEF RowsKept
  <2>5. RequestsOK'
    BY <1>0, <1>2, <2>4, RequestsStayOK
  <2>6. RowsOK'
    BY <1>1, <1>3, <2>2, <2>3 DEF RowsOK
  <2>7. OneActiveBookingPerSlot'
    <3>1. Holds(b)
      BY <1>0, <1>1, <1>5 DEF Holds, Row, BookingStatus
    <3>2. \A c \in BookingIds : Holds(c)' = Holds(c)
      BY <1>1, <2>2, <2>3, <3>1 DEF Holds
    <3>3. \A c \in BookingIds : booking'[c].slot = booking[c].slot
      BY <2>2, <2>3
    <3> QED
      BY <3>2, <3>3 DEF OneActiveBookingPerSlot
  <2>8. RefundsAreDue'
    BY <1>1, <1>3, <1>5, <2>2, <2>3 DEF RefundsAreDue
  <2> QED
    BY <2>5, <2>6, <2>7, <2>8
<1> QED
  BY <1>4, <1>5

\* A new request knows only bookings that are confirmed when it reads them.
LEMMA ArriveIInv ==
    ASSUME IInv, TypeOK', NEW p \in Requests, Arrive(p)
    PROVE  IInv'
<1> USE DEF tables, ledger
<1>0. TypeOK
  BY DEF IInv
<1>1. ASSUME NEW u \in Users, NEW s \in Slots, RequestBooking(p, u, s)
      PROVE  IInv'
  <2>1. \A o \in Requests : RequestKept(o)
    BY <1>0, <1>1, BecomeKept DEF RequestBooking
  <2> QED
    BY <1>1, <2>1, RowsUnchanged DEF RequestBooking
<1>2. ASSUME NEW a \in Users, NEW b \in BookingIds,
             NEW m \in {"undefined", "true", "false"}, BeginCancel(p, a, b, m)
      PROVE  IInv'
  <2>1. UNCHANGED <<booking, deduction, refund>>
    BY <1>2 DEF BeginCancel
  <2>2. booking[b].status = "CONFIRMED"
    BY <1>2 DEF BeginCancel
  <2>3. /\ req'[p].op = "cancel"
        /\ req'[p].booking = b
        /\ req'[p].actor = a
        /\ req'[p].byUser = (booking[b].user = a /\ m = "undefined")
    BY <1>0, <1>2 DEF BeginCancel, Become, TypeOK
  <2>5. \A o \in Requests \ {p} : req'[o] = req[o]
    BY <1>0, <1>2 DEF BeginCancel, Become, TypeOK
  <2>7. RequestsOK'
    <3>1. RequestsOK /\ \A c \in BookingIds : booking'[c] = booking[c]
      BY <2>1 DEF IInv
    <3> SUFFICES ASSUME NEW o \in Requests
                 PROVE  /\ req'[o].op \in {"cancel", "complete"} =>
                              booking'[req'[o].booking].status # "NONE"
                        /\ req'[o].op = "cancel" /\ req'[o].byUser =>
                              req'[o].actor = booking'[req'[o].booking].user
                        /\ req'[o].op = "reevaluate" =>
                              \A c \in req'[o].todo : booking'[c].status # "NONE"
      BY DEF RequestsOK
    <3>2. CASE o = p
      BY <2>1, <2>2, <2>3, <3>2
    <3>3. CASE o # p
      BY <2>1, <2>5, <3>1, <3>3 DEF RequestsOK
    <3> QED
      BY <3>2, <3>3
  <2>8. RowsOK'
    BY <2>1 DEF IInv, RowsOK
  <2>9. OneActiveBookingPerSlot' /\ RefundsAreDue'
    BY <2>1 DEF IInv, OneActiveBookingPerSlot, RefundsAreDue, Holds
  <2> QED
    BY <2>7, <2>8, <2>9 DEF IInv
<1>3. ASSUME NEW a \in Users, NEW b \in BookingIds, BeginComplete(p, a, b)
      PROVE  IInv'
  <2>1. UNCHANGED <<booking, deduction, refund>>
    BY <1>3 DEF BeginComplete
  <2>2. req' = [req EXCEPT ![p] = [op |-> "complete", booking |-> b]]
    BY <1>3 DEF BeginComplete, Become
  <2>3. RequestsOK'
    BY <1>0, <1>3, <2>1, <2>2
       DEF IInv, RequestsOK, BeginComplete, TypeOK
  <2>4. RowsOK'
    BY <2>1 DEF IInv, RowsOK
  <2>5. OneActiveBookingPerSlot' /\ RefundsAreDue'
    BY <2>1 DEF IInv, OneActiveBookingPerSlot, RefundsAreDue, Holds
  <2> QED
    BY <2>3, <2>4, <2>5 DEF IInv
<1>4. ASSUME NEW r \in Resources, BeginReevaluate(p, r)
      PROVE  IInv'
  <2>1. UNCHANGED <<booking, deduction, refund>>
    BY <1>4 DEF BeginReevaluate
  <2>2. PICK lost : /\ \A b \in lost : booking[b].status = "CONFIRMED"
                    /\ req' = [req EXCEPT ![p] = [op |-> "reevaluate",
                                          resource |-> r, todo |-> lost]]
    BY <1>4 DEF BeginReevaluate, Become
  <2>3. RequestsOK'
    BY <1>0, <2>1, <2>2 DEF IInv, RequestsOK, TypeOK
  <2>4. RowsOK'
    BY <2>1 DEF IInv, RowsOK
  <2>5. OneActiveBookingPerSlot' /\ RefundsAreDue'
    BY <2>1 DEF IInv, OneActiveBookingPerSlot, RefundsAreDue, Holds
  <2> QED
    BY <2>3, <2>4, <2>5 DEF IInv
<1>5. ASSUME NEW a \in Users, NEW s \in Slots, BeginCreateSlot(p, a, s)
      PROVE  IInv'
  <2>1. \A o \in Requests : RequestKept(o)
    BY <1>0, <1>5, BecomeKept DEF BeginCreateSlot
  <2> QED
    BY <1>5, <2>1, RowsUnchanged DEF BeginCreateSlot
<1> QED
  BY <1>1, <1>2, <1>3, <1>4, <1>5 DEF Arrive

LEMMA StepIInv ==
    ASSUME IInv, TypeOK', NEW p \in Requests, Step(p)
    PROVE  IInv'
<1> USE DEF tables, ledger
<1>0. TypeOK
  BY DEF IInv
<1>1. CASE ValidateBooking(p)
  <2>1. PICK q : Become(p, q) /\ q.op \in {"ready", "idle"}
    BY <1>1 DEF ValidateBooking, Idle
  <2>2. \A o \in Requests : RequestKept(o)
    BY <1>0, <2>1, BecomeKept
  <2> QED
    BY <1>1, <2>2, RowsUnchanged DEF ValidateBooking
<1>2. CASE SerializationConflict(p)
  <2>1. NextAttempt(req[p]).op \in {"begun", "idle"}
    BY DEF NextAttempt, Idle
  <2>2. \A o \in Requests : RequestKept(o)
    BY <1>0, <1>2, <2>1, BecomeKept DEF SerializationConflict
  <2> QED
    BY <1>2, <2>2, RowsUnchanged DEF SerializationConflict
<1>3. ASSUME End(p), UNCHANGED <<booking, deduction, refund>>
      PROVE  IInv'
  <2>1. \A o \in Requests : RequestKept(o)
    BY <1>0, <1>3, BecomeKept DEF End, Idle
  <2> QED
    BY <1>3, <2>1, RowsUnchanged
<1>4. CASE UniqueConflict(p) \/ LedgerConflict(p) \/ CancelConflict(p)
             \/ ReevaluateEnds(p) \/ CommitCreateSlot(p)
             \/ \E b \in BookingIds : ReevaluateAborts(p, b)
  BY <1>3, <1>4 DEF UniqueConflict, LedgerConflict, CancelConflict,
       ReevaluateEnds, CommitCreateSlot, ReevaluateAborts
<1> QED
  BY <1>1, <1>2, <1>4, CommitCreateIInv, CommitCancelIInv, CommitCompleteIInv,
     ReevaluateOneIInv DEF Step

LEMMA EnvironmentIInv ==
    ASSUME IInv, TypeOK', Environment
    PROVE  IInv'
<1> USE DEF tables, ledger
<1>0. TypeOK
  BY DEF IInv
<1>1. UNCHANGED <<booking, deduction, refund>>
  BY DEF Environment, UpdateResource, UpdateAllowedOrganizations,
         RemoveResource, LoseTrigger, RemoveMembership, GrantPoints, Tick,
         Interrupt
<1>2. CASE UNCHANGED req
  <2>1. \A o \in Requests : RequestKept(o)
    BY <1>2 DEF RequestKept
  <2> QED
    BY <1>1, <2>1, RowsUnchanged
<1>3. ASSUME NEW u \in Users, GrantPoints(u)
      PROVE  IInv'
  <2>1. \A o \in Requests : RequestKept(o)
    <3> TAKE o \in Requests
    <3>1. req'[o] = TouchBalance(req[o], u) /\ req[o] \in Request
      BY <1>0, <1>3 DEF GrantPoints, TypeOK
    <3> QED
      BY <3>1, DisturbedIsKept
  <2> QED
    BY <1>1, <2>1, RowsUnchanged
<1>4. ASSUME NEW p \in Requests, Interrupt(p)
      PROVE  IInv'
  <2>1. \A o \in Requests : RequestKept(o)
    BY <1>0, <1>4, BecomeKept DEF Interrupt, End, Idle
  <2> QED
    BY <1>1, <2>1, RowsUnchanged
<1> QED
  BY <1>2, <1>3, <1>4 DEF Environment, UpdateResource,
     UpdateAllowedOrganizations, RemoveResource, LoseTrigger, RemoveMembership,
     Tick

LEMMA NextIInv == IInv /\ [Next]_vars => IInv'
<1> SUFFICES ASSUME IInv, [Next]_vars PROVE IInv'
  OBVIOUS
<1>1. TypeOK'
  BY NextTypeOK DEF IInv
<1>2. CASE UNCHANGED vars
  <2>1. \A o \in Requests : RequestKept(o)
    BY <1>2 DEF RequestKept, vars
  <2> QED
    BY <1>1, <1>2, <2>1, RowsUnchanged DEF vars
<1>3. CASE Next
  BY <1>1, <1>3, ArriveIInv, StepIInv, EnvironmentIInv DEF Next
<1> QED
  BY <1>2, <1>3

LEMMA AlwaysIInv == Spec => []IInv
BY InitIInv, NextIInv, PTL DEF Spec

-----------------------------------------------------------------------------
(* The theorems *)

\* No slot is ever held by two bookings, for any number of concurrent create,
\* cancel, complete and reevaluate requests.
THEOREM NoDoubleBooking == Spec => []OneActiveBookingPerSlot
<1>1. IInv => OneActiveBookingPerSlot
  BY DEF IInv
<1> QED
  BY <1>1, AlwaysIInv, PTL

\* Requests and rows keep their types, balances stay at zero or above, attempts
\* within their bound, and a booking's points are refunded only if it is cancelled,
\* at most once, in full unless the owner cancelled, and then at least half.
THEOREM RefundsCorrect == Spec => []BookingsAreSound
<1>1. IInv => BookingsAreSound
  BY DEF IInv, BookingsAreSound
<1> QED
  BY <1>1, AlwaysIInv, PTL

\* How a step may change the table of bookings: not at all, by one new row on
\* a free slot, or by one row that is cancelled or completed from CONFIRMED
\* (a cancelled row may be cancelled again by reevaluateBookings).
SetsStatus(b, from, to) ==
    /\ booking[b].status \in from
    /\ booking'[b].status = to
    /\ booking'[b].slot = booking[b].slot
    /\ \A c \in BookingIds \ {b} : booking'[c] = booking[c]

AddsRow(b) ==
    /\ booking[b].status = "NONE"
    /\ booking'[b].status = "CONFIRMED"
    /\ booking'[b].slot \in Slots
    /\ ~Taken(booking'[b].slot)
    /\ \A c \in BookingIds \ {b} : booking'[c] = booking[c]

LEMMA BookingChanges ==
    ASSUME IInv, [Next]_vars
    PROVE  \/ UNCHANGED booking
           \/ \E b \in BookingIds :
                \/ AddsRow(b)
                \/ SetsStatus(b, {"CONFIRMED", "CANCELLED"}, "CANCELLED")
                \/ SetsStatus(b, {"CONFIRMED", "COMPLETED"}, "COMPLETED")
<1> USE DEF tables, ledger
<1>0. booking \in [BookingIds -> Row]
  BY DEF IInv, TypeOK
<1>1. ASSUME NEW p \in Requests, CommitCreate(p)
      PROVE  \E b \in BookingIds : AddsRow(b)
  <2>1. req[p].slot \in Slots
    BY <1>1, RequestCases DEF IInv, TypeOK, CommitCreate, CreateReady
  <2>2. PICK b \in BookingIds :
            /\ booking[b].status = "NONE"
            /\ booking' = [booking EXCEPT ![b] =
                   [status |-> "CONFIRMED", user |-> req[p].user, slot |-> req[p].slot,
                    notice |-> req[p].notice, cancelledBy |-> None]]
    BY <1>1 DEF CommitCreate
  <2>3. /\ booking'[b].status = "CONFIRMED" /\ booking'[b].slot = req[p].slot
        /\ \A c \in BookingIds \ {b} : booking'[c] = booking[c]
    BY <1>0, <2>2
  <2>4. ~Taken(req[p].slot)
    BY <1>1 DEF CommitCreate
  <2> QED
    BY <2>1, <2>2, <2>3, <2>4 DEF AddsRow
<1>2. ASSUME NEW p \in Requests, CommitCancel(p)
      PROVE  \E b \in BookingIds :
                SetsStatus(b, {"CONFIRMED", "CANCELLED"}, "CANCELLED")
  <2>1. req[p].booking \in BookingIds
    BY <1>2, RequestCases DEF IInv, TypeOK, CommitCancel, CancelRead
  <2> DEFINE b == req[p].booking
  <2>2. /\ booking[b].status = "CONFIRMED"
        /\ booking' = [booking EXCEPT ![b].status = "CANCELLED",
                                      ![b].cancelledBy = req[p].actor]
    BY <1>2 DEF CommitCancel
  <2> HIDE DEF b
  <2>3. SetsStatus(b, {"CONFIRMED", "CANCELLED"}, "CANCELLED")
    BY <1>0, <2>1, <2>2 DEF SetsStatus, Row, b
  <2> QED
    BY <2>1, <2>3 DEF b
<1>3. ASSUME NEW p \in Requests, NEW b \in BookingIds, ReevaluateOne(p, b)
      PROVE  SetsStatus(b, {"CONFIRMED", "CANCELLED"}, "CANCELLED")
  <2>1. booking[b].status \in {"CONFIRMED", "CANCELLED"}
    BY <1>0, <1>3 DEF IInv, RequestsOK, Row, BookingStatus, ReevaluateOne,
         Reevaluable
  <2> QED
    BY <1>0, <1>3, <2>1 DEF ReevaluateOne, SetsStatus, Row
<1>4. ASSUME NEW p \in Requests, CommitComplete(p), ~UNCHANGED booking
      PROVE  \E b \in BookingIds :
                SetsStatus(b, {"CONFIRMED", "COMPLETED"}, "COMPLETED")
  <2> DEFINE b == req[p].booking
  <2>1. b \in BookingIds
    BY <1>4, RequestCases DEF IInv, TypeOK, CommitComplete, CompleteRead
  <2>2. booking[b].status \in {"CONFIRMED", "COMPLETED"}
    BY <1>0, <1>4, <2>1 DEF IInv, RequestsOK, Row, BookingStatus, CommitComplete, Completable
  <2>3. booking' = [booking EXCEPT ![b].status = "COMPLETED"]
    BY <1>4 DEF CommitComplete, Completable
  <2> QED
    BY <1>0, <2>1, <2>2, <2>3 DEF SetsStatus, Row
<1>5. ASSUME NEW p \in Requests, Arrive(p)
      PROVE  UNCHANGED booking
  BY <1>5 DEF Arrive, RequestBooking, BeginCancel, BeginComplete,
       BeginReevaluate, BeginCreateSlot
<1>6. ASSUME Environment
      PROVE  UNCHANGED booking
  BY <1>6 DEF Environment, UpdateResource, UpdateAllowedOrganizations,
       RemoveResource, LoseTrigger, RemoveMembership, GrantPoints, Tick,
       Interrupt
<1>7. ASSUME NEW p \in Requests, Step(p)
      PROVE  \/ UNCHANGED booking
             \/ CommitCreate(p) \/ CommitCancel(p) \/ CommitComplete(p)
             \/ \E b \in BookingIds : ReevaluateOne(p, b)
  BY <1>7 DEF Step, ValidateBooking, UniqueConflict, LedgerConflict,
       SerializationConflict, CancelConflict, ReevaluateAborts, ReevaluateEnds,
       CommitCreateSlot
<1>8. UNCHANGED vars => UNCHANGED booking
  BY DEF vars
<1> QED
  BY <1>1, <1>2, <1>3, <1>4, <1>5, <1>6, <1>7, <1>8 DEF Next

\* A cancelled or completed booking never changes status again, although
\* completeBooking and reevaluateBookings UPDATE by id only.
THEOREM TerminalStatusCorrect == Spec => TerminalStatusIsFinal
<1>1. IInv /\ [Next]_vars =>
        [\A b \in BookingIds :
           booking[b].status \in {"CANCELLED", "COMPLETED"} =>
              booking'[b].status = booking[b].status]_vars
  BY BookingChanges DEF AddsRow, SetsStatus
<1> QED
  BY <1>1, AlwaysIInv, PTL DEF Spec, TerminalStatusIsFinal

\* What reevaluateBookings may withdraw: the slot of a booking that is still
\* confirmed, or one that cost nothing; a cancelled one that was paid for has its
\* refund (RefundsAreDue), and the unique index refuses a second.
LEMMA ReevaluateWithdraws ==
    ASSUME IInv, NEW p \in Requests, NEW b \in BookingIds, ReevaluateOne(p, b)
    PROVE  /\ booking'[b].status = "CANCELLED"
           /\ booking[b].status = "CONFIRMED" \/ deduction[b] = 0
           /\ slot' = [slot EXCEPT ![booking[b].slot] = "WITHDRAWN"]
<1>0. TypeOK /\ req[p] \in ReevaluateRead
  BY RequestCases DEF IInv, TypeOK, ReevaluateOne
<1>1. booking' = [booking EXCEPT ![b].status = "CANCELLED"]
        /\ slot' = [slot EXCEPT ![booking[b].slot] = "WITHDRAWN"]
  BY DEF ReevaluateOne
<1>2. booking'[b].status = "CANCELLED"
  BY <1>0, <1>1 DEF TypeOK, Row
<1>3. booking[b].status \in {"CONFIRMED", "CANCELLED"}
  BY DEF IInv, RequestsOK, TypeOK, Row, BookingStatus, ReevaluateOne, Reevaluable
<1>4. deduction[b] \in Nat /\ refund[b] \in Nat
  BY <1>0 DEF TypeOK
<1>5. CASE booking[b].status = "CANCELLED"
  <2>1. 2 * refund[b] >= deduction[b]
    BY <1>5 DEF IInv, RefundsAreDue
  <2>2. deduction[b] > 0 => refund[b] = 0
    BY DEF ReevaluateOne, Reevaluable
  <2> QED
    BY <1>1, <1>2, <1>4, <2>1, <2>2
<1> QED
  BY <1>1, <1>2, <1>3, <1>5

\* A slot is withdrawn only with the booking that holds it, or with a cancelled
\* one that cost nothing, however late a batch of reevaluateBookings works off
\* the list it read, for any number of bookings and requests.
THEOREM SlotsWithdrawnCorrectly == Spec => SlotsGoWithTheirBooking
<1> DEFINE Goes ==
             \A s \in Slots :
               slot[s] = "PUBLISHED" /\ slot'[s] = "WITHDRAWN" =>
                  \E b \in BookingIds :
                     /\ booking[b].slot = s /\ booking'[b].status = "CANCELLED"
                     /\ booking[b].status = "CONFIRMED" \/ deduction[b] = 0
<1>1. IInv /\ [Next]_vars => [Goes]_vars
  <2> SUFFICES ASSUME IInv, [Next]_vars, NEW s \in Slots,
                      slot[s] = "PUBLISHED", slot'[s] = "WITHDRAWN"
               PROVE  \E b \in BookingIds :
                         /\ booking[b].slot = s /\ booking'[b].status = "CANCELLED"
                         /\ booking[b].status = "CONFIRMED" \/ deduction[b] = 0
    OBVIOUS
  <2> USE DEF tables, ledger
  <2>0. TypeOK /\ slot \in [Slots -> SlotStatus \cup {"NONE"}]
    BY DEF IInv, TypeOK
  <2>1. CASE slot' = slot
    BY <2>1
  <2>2. ASSUME NEW p \in Requests, CommitCancel(p)
        PROVE  \E b \in BookingIds :
                  /\ booking[b].slot = s /\ booking'[b].status = "CANCELLED"
                  /\ booking[b].status = "CONFIRMED" \/ deduction[b] = 0
    <3> DEFINE b == req[p].booking
    <3>1. b \in BookingIds
      BY <2>0, <2>2, RequestCases DEF CommitCancel, CancelRead, TypeOK
    <3>2. /\ booking[b].status = "CONFIRMED"
          /\ booking' = [booking EXCEPT ![b].status = "CANCELLED",
                                        ![b].cancelledBy = req[p].actor]
          /\ slot' = [slot EXCEPT ![booking[b].slot] = req[p].slotStatus]
      BY <2>2 DEF CommitCancel
    <3>3. booking'[b].status = "CANCELLED"
      BY <2>0, <3>1, <3>2 DEF TypeOK, Row
    <3>4. booking[b].slot = s
      BY <2>0, <3>2
    <3> QED
      BY <3>1, <3>2, <3>3, <3>4
  <2>3. ASSUME NEW p \in Requests, NEW b \in BookingIds, ReevaluateOne(p, b)
        PROVE  /\ booking[b].slot = s /\ booking'[b].status = "CANCELLED"
               /\ booking[b].status = "CONFIRMED" \/ deduction[b] = 0
    BY <2>0, <2>3, ReevaluateWithdraws
  <2>4. ASSUME NEW p \in Requests, CommitCreateSlot(p)
        PROVE  slot'[s] = slot[s] \/ slot'[s] = "PUBLISHED"
    BY <2>0, <2>4 DEF CommitCreateSlot
  <2>5. ASSUME NEW p \in Requests, Step(p)
        PROVE  \/ slot' = slot \/ CommitCancel(p) \/ CommitCreateSlot(p)
               \/ \E b \in BookingIds : ReevaluateOne(p, b)
    BY <2>5 DEF Step, ValidateBooking, CommitCreate, UniqueConflict, LedgerConflict,
       SerializationConflict, CancelConflict, CommitComplete, ReevaluateAborts,
       ReevaluateEnds
  <2>6. ASSUME NEW p \in Requests, Arrive(p)
        PROVE  slot' = slot
    BY <2>6 DEF Arrive, RequestBooking, BeginCancel, BeginComplete,
       BeginReevaluate, BeginCreateSlot
  <2>7. Environment => slot' = slot
    BY DEF Environment, UpdateResource, UpdateAllowedOrganizations,
       RemoveResource, LoseTrigger, RemoveMembership, GrantPoints, Tick, Interrupt
  <2>8. UNCHANGED vars => slot' = slot
    BY DEF vars
  <2> QED
    BY <2>1, <2>2, <2>3, <2>4, <2>5, <2>6, <2>7, <2>8 DEF Next
<1> QED
  BY <1>1, AlwaysIInv, PTL DEF Spec, SlotsGoWithTheirBooking

\* The service implements Reservation.  OneActiveBookingPerSlot is what makes a
\* cancellation release its slot: no other booking holds it.
THEOREM ReservationImplemented == Spec => ImplementsReservation
<1> DEFINE Holders == [s \in Slots |-> {b \in BookingIds :
                                          Holds(b) /\ booking[b].slot = s}]
           Used == {b \in BookingIds : booking[b].status # "NONE"}
           Finished == {b \in BookingIds : booking[b].status = "COMPLETED"}
<1>1. Init => R!Init
  BY DEF Init, R!Init, NoRow, Holds
<1>2. IInv /\ [Next]_vars => [R!Next]_<<Holders, Used, Finished>>
  <2> SUFFICES ASSUME IInv, [Next]_vars
               PROVE  R!Next \/ UNCHANGED <<Holders, Used, Finished>>
    OBVIOUS
  <2>1. CASE UNCHANGED booking
    BY <2>1 DEF Holds
  <2>2. ASSUME NEW b \in BookingIds, AddsRow(b)
        PROVE  R!Next
    <3>0. PICK s \in Slots : s = booking'[b].slot
      BY <2>2 DEF AddsRow
    <3>1. Holders[s] = {} /\ b \notin Used
      BY <2>2, <3>0 DEF AddsRow, Taken, Holds, Active, ActiveStatus
    <3>2. ~Holds(b) /\ Holds(b)'
      BY <2>2 DEF AddsRow, Holds
    <3>3. \A c \in BookingIds \ {b} :
             booking'[c] = booking[c] /\ Holds(c)' = Holds(c)
      BY <2>2 DEF AddsRow, Holds
    <3>4. \A t \in Slots \ {s} : Holders'[t] = Holders[t]
      BY <3>0, <3>2, <3>3
    <3>5. Holders' = [Holders EXCEPT ![s] = {b}]
      <4>1. \A c \in BookingIds :
               (Holds(c) /\ booking[c].slot = s)' <=> c = b
        BY <3>0, <3>1, <3>2, <3>3
      <4>2. Holders'[s] = {b}
        BY <4>1
      <4> QED
        BY <3>4, <4>2
    <3>6. Used' = Used \cup {b} /\ Finished' = Finished
      BY <2>2, <3>3 DEF AddsRow
    <3>7. R!Reserve(s, b)
      BY <3>1, <3>5, <3>6 DEF R!Reserve
    <3> HIDE DEF Holders, Used, Finished
    <3> QED
      BY <3>7 DEF R!Next
  <2>3. ASSUME NEW b \in BookingIds,
               SetsStatus(b, {"CONFIRMED", "CANCELLED"}, "CANCELLED")
        PROVE  R!Next \/ UNCHANGED <<Holders, Used, Finished>>
    <3>1. PICK s \in Slots : s = booking[b].slot
      BY <2>3 DEF SetsStatus, IInv, RowsOK
    <3>2. \A c \in BookingIds \ {b} :
             booking'[c] = booking[c] /\ Holds(c)' = Holds(c)
      BY <2>3 DEF SetsStatus, Holds
    <3>3. ~Holds(b)' /\ booking'[b].slot = s
      BY <2>3, <3>1 DEF SetsStatus, Holds
    <3>4. Used' = Used /\ Finished' = Finished
      BY <2>3, <3>2 DEF SetsStatus
    <3>5. CASE booking[b].status = "CANCELLED"
      <4>1. ~Holds(b)
        BY <3>5 DEF Holds
      <4>2. Holders' = Holders
        BY <3>2, <3>3, <4>1
      <4> QED
        BY <3>4, <4>2
    <3>6. CASE booking[b].status = "CONFIRMED"
      <4>1. Holds(b)
        BY <3>6 DEF Holds
      <4>2. \A t \in Slots : Holders'[t] = IF t = s THEN {} ELSE Holders[t]
        BY <3>1, <3>2, <3>3, <4>1 DEF IInv, OneActiveBookingPerSlot
      <4>3. Holders' = [Holders EXCEPT ![s] = {}]
        BY <4>2
      <4>4. b \in Holders[s] \ Finished
        BY <3>1, <3>6, <4>1
      <4>5. R!Release(s, b)
        BY <3>4, <4>3, <4>4 DEF R!Release
      <4> HIDE DEF Holders, Used, Finished
      <4> QED
        BY <4>5 DEF R!Next
    <3> QED
      BY <2>3, <3>5, <3>6 DEF SetsStatus
  <2>4. ASSUME NEW b \in BookingIds,
               SetsStatus(b, {"CONFIRMED", "COMPLETED"}, "COMPLETED")
        PROVE  R!Next
    <3>0. PICK s \in Slots : s = booking[b].slot
      BY <2>4 DEF SetsStatus, IInv, RowsOK
    <3>1. Holds(b) /\ Holds(b)' /\ booking'[b].slot = s
      BY <2>4, <3>0 DEF SetsStatus, Holds
    <3>2. \A c \in BookingIds \ {b} :
             booking'[c] = booking[c] /\ Holds(c)' = Holds(c)
      BY <2>4 DEF SetsStatus, Holds
    <3>3. Holders' = Holders
      BY <3>0, <3>1, <3>2
    <3>4. Used' = Used /\ Finished' = Finished \cup {b}
      BY <2>4, <3>2 DEF SetsStatus
    <3>5. R!Finish(s, b)
      BY <3>0, <3>1, <3>3, <3>4 DEF R!Finish
    <3> QED
      BY <3>5 DEF R!Next
  <2> QED
    BY <2>1, <2>2, <2>3, <2>4, BookingChanges
<1> QED
  BY <1>1, <1>2, AlwaysIInv, PTL DEF Spec, ImplementsReservation, R!Spec

-----------------------------------------------------------------------------
(* Slots under bookings, as long as nothing is reevaluated *)

Free(s) == \A b \in BookingIds : Holds(b) => booking[b].slot # s

\* A create that would still commit: no conflicting commit since its snapshot.
InTime(p) == req[p].op = "ready" /\ ~req[p].ssi

\* Only a cancellation withdraws a slot, and a slot that can be cancelled was
\* booked after the snapshot: createBooking then has a conflict.
OfferedInv ==
    /\ IInv
    /\ ActiveSlotIsPublished
    /\ \A r \in Resources : triggers[r] = 0
    /\ \A p \in Requests : req[p].op # "reevaluate"
    /\ \A p \in Requests :
          InTime(p) => slot[req[p].slot] = "PUBLISHED" /\ Free(req[p].slot)

\* Ledger entries and commits elsewhere leave the slot of a create; a commit for
\* the same slot is a conflict.
LEMMA DisturbKeepsSlot ==
    ASSUME NEW q \in CreateReady, NEW u, NEW t
    PROVE  /\ TouchBalance(q, u).slot = q.slot
           /\ TouchBalance(q, u).ssi = q.ssi
           /\ NotifyCommit(q, t).slot = q.slot
           /\ q.ssi => NotifyCommit(q, t).ssi
           /\ q.slot = t.slot => NotifyCommit(q, t).ssi
<1>1. TouchBalance(q, u).slot = q.slot /\ TouchBalance(q, u).ssi = q.ssi
  BY DEF TouchBalance, CreateReady
<1>2. PICK q1 \in CreateReady :
        /\ q1 = IF t.cost > 0 THEN TouchBalance(q, t.user) ELSE q
        /\ q1.slot = q.slot /\ q1.ssi = q.ssi
  <2>1. /\ TouchBalance(q, t.user) \in CreateReady
        /\ TouchBalance(q, t.user).slot = q.slot
        /\ TouchBalance(q, t.user).ssi = q.ssi
    BY DEF TouchBalance, CreateReady
  <2> QED
    BY <2>1
<1>3. NotifyCommit(q, t) = IF Conflicts(q, t) THEN [q1 EXCEPT !.ssi = TRUE] ELSE q1
  BY <1>2 DEF NotifyCommit
<1>4. q.slot = t.slot => Conflicts(q, t)
  BY DEF Conflicts, CreateReady
<1>5. /\ [q1 EXCEPT !.ssi = TRUE].slot = q.slot
      /\ [q1 EXCEPT !.ssi = TRUE].ssi
  BY <1>2 DEF CreateReady
<1> QED
  BY <1>1, <1>2, <1>3, <1>4, <1>5

SlotKept(s) == slot'[s] = slot[s] \/ slot'[s] = "PUBLISHED"

StillInTime(p) ==
    /\ req[p].op = "ready" /\ ~req[p].ssi
    /\ req'[p].slot = req[p].slot

\* A step that books nothing and withdraws no slot of a booking or of a create.
LEMMA OfferedFrame ==
    ASSUME OfferedInv, IInv',
           \A r \in Resources : triggers'[r] = 0,
           \A b \in BookingIds : Holds(b)' =>
              /\ Holds(b)
              /\ booking'[b].slot = booking[b].slot
              /\ SlotKept(booking[b].slot),
           \A p \in Requests :
              /\ req'[p].op # "reevaluate"
              /\ InTime(p)' =>
                    \/ StillInTime(p) /\ SlotKept(req[p].slot)
                    \/ /\ slot'[req'[p].slot] = "PUBLISHED"
                       /\ Free(req'[p].slot)
    PROVE  OfferedInv'
<1>1. ActiveSlotIsPublished'
  <2> SUFFICES ASSUME NEW b \in BookingIds, Holds(b)'
               PROVE  slot'[booking'[b].slot] = "PUBLISHED"
    BY DEF ActiveSlotIsPublished
  <2> QED
    BY DEF OfferedInv, ActiveSlotIsPublished, SlotKept
<1>2. ASSUME NEW p \in Requests, InTime(p)'
      PROVE  (slot[req[p].slot] = "PUBLISHED" /\ Free(req[p].slot))'
  <2>1. PICK s : s = req'[p].slot
    OBVIOUS
  <2>2. slot'[s] = "PUBLISHED" /\ Free(s)
    <3>1. CASE StillInTime(p) /\ SlotKept(req[p].slot)
      BY <2>1, <3>1 DEF OfferedInv, StillInTime, SlotKept, InTime
    <3> QED
      BY <1>2, <2>1, <3>1
  <2>3. Free(s)'
    BY <2>2 DEF Free
  <2> QED
    BY <2>1, <2>2, <2>3
<1> QED
  BY <1>1, <1>2 DEF OfferedInv

\* The same when the bookings and the slots stay and p becomes q, which is no
\* create that has validated.
LEMMA OfferedBecome ==
    ASSUME OfferedInv, IInv', NEW p \in Requests, NEW q, Become(p, q),
           q.op \in {"idle", "begun", "cancel", "complete", "slot"},
           UNCHANGED tables
    PROVE  OfferedInv'
<1>1. UNCHANGED <<booking, slot, triggers>>
  BY DEF tables
<1>2. req \in [Requests -> Request]
  BY DEF OfferedInv, IInv, TypeOK
<1>3. req'[p] = q /\ \A o \in Requests \ {p} : req'[o] = req[o]
  BY <1>2 DEF Become
<1>4. \A o \in Requests :
        /\ req'[o].op # "reevaluate"
        /\ InTime(o)' => StillInTime(o) /\ SlotKept(req[o].slot)
  BY <1>1, <1>3 DEF OfferedInv, InTime, StillInTime, SlotKept
<1>5. \A b \in BookingIds : Holds(b)' =>
        /\ Holds(b) /\ booking'[b].slot = booking[b].slot
        /\ SlotKept(booking[b].slot)
  BY <1>1 DEF Holds, SlotKept
<1>6. \A r \in Resources : triggers'[r] = 0
  BY <1>1 DEF OfferedInv
<1> QED
  BY <1>4, <1>5, <1>6, OfferedFrame

\* Flags that are raised leave a create in time only if it was.
LEMMA OfferedOthers ==
    ASSUME OfferedInv, NEW o \in Requests, NEW u, NEW t,
           req'[o] \in {req[o], TouchBalance(req[o], u), NotifyCommit(req[o], t)}
    PROVE  /\ req'[o].op # "reevaluate"
           /\ InTime(o)' => StillInTime(o)
<1>1. req[o] \in Request /\ req[o].op # "reevaluate"
  BY DEF OfferedInv, IInv, TypeOK
<1>2. req'[o].op = req[o].op
  BY <1>1, DisturbOnlyFlags
<1>3. CASE req[o].op = "ready"
  <2>1. req[o] \in CreateReady
    BY <1>1, <1>3, RequestCases
  <2>2. req'[o].slot = req[o].slot /\ (req[o].ssi => req'[o].ssi)
    BY <2>1, DisturbKeepsSlot, SMTT(30)
  <2>3. InTime(o)' => StillInTime(o)
    BY <1>2, <1>3, <2>2 DEF InTime, StillInTime
  <2> QED
    BY <1>1, <1>2, <2>3
<1>4. CASE req[o].op # "ready"
  BY <1>1, <1>2, <1>4 DEF InTime
<1> QED
  BY <1>3, <1>4

LEMMA OfferedCreate ==
    ASSUME OfferedInv, IInv', NEW p \in Requests, CommitCreate(p)
    PROVE  OfferedInv'
<1>1. PICK q \in CreateReady : q = req[p]
  BY RequestCases DEF OfferedInv, IInv, TypeOK, CommitCreate
<1>2. q.slot \in Slots /\ ~q.ssi /\ slot[q.slot] = "PUBLISHED"
  BY <1>1 DEF CreateReady, OfferedInv, InTime, CommitCreate
<1>3. UNCHANGED <<slot, triggers>>
  BY DEF CommitCreate
<1>4. PICK b \in BookingIds :
        /\ booking'[b].slot = q.slot
        /\ \A c \in BookingIds \ {b} : booking'[c] = booking[c]
  BY <1>1 DEF CommitCreate, OfferedInv, IInv, TypeOK
<1>5. ActiveSlotIsPublished'
  <2> SUFFICES ASSUME NEW c \in BookingIds, Holds(c)'
               PROVE  slot'[booking'[c].slot] = "PUBLISHED"
    BY DEF ActiveSlotIsPublished
  <2>1. CASE c = b
    BY <1>2, <1>3, <1>4, <2>1
  <2>2. CASE c # b
    <3>1. booking'[c] = booking[c]
      BY <1>4, <2>2
    <3> QED
      BY <1>3, <3>1 DEF Holds, OfferedInv, ActiveSlotIsPublished
  <2> QED
    BY <2>1, <2>2
<1>6. ASSUME NEW o \in Requests
      PROVE  /\ req'[o].op # "reevaluate"
             /\ InTime(o)' =>
                  (slot[req[o].slot] = "PUBLISHED" /\ Free(req[o].slot))'
  <2>1. req' = [x \in Requests |-> IF x = p THEN Idle ELSE NotifyCommit(req[x], q)]
    BY <1>1 DEF CommitCreate
  <2>2. CASE o = p
    BY <2>1, <2>2 DEF Idle, InTime
  <2>3. CASE o # p
    <3>1. req'[o] = NotifyCommit(req[o], q)
      BY <2>1, <2>3
    <3>2. req'[o].op # "reevaluate" /\ (InTime(o)' => StillInTime(o))
      BY <3>1, OfferedOthers
    <3>3. ASSUME InTime(o)'
          PROVE  (slot[req[o].slot] = "PUBLISHED" /\ Free(req[o].slot))'
      <4>1. PICK s : s = req[o].slot
        OBVIOUS
      <4>2. StillInTime(o) /\ req[o] \in CreateReady
        BY <3>2, <3>3, RequestCases DEF StillInTime, OfferedInv, IInv, TypeOK
      <4>3. s # q.slot
        <5>1. PICK x \in CreateReady : x = req[o]
          BY <4>2
        <5>2. x.slot = q.slot => NotifyCommit(x, q).ssi
          BY DisturbKeepsSlot
        <5>3. ~NotifyCommit(x, q).ssi
          BY <3>1, <3>3, <5>1 DEF InTime
        <5> QED
          BY <4>1, <5>1, <5>2, <5>3
      <4>4. slot[s] = "PUBLISHED" /\ Free(s)
        BY <4>1, <4>2 DEF StillInTime, OfferedInv, InTime
      <4>5. Free(s)'
        <5> SUFFICES ASSUME NEW c \in BookingIds, Holds(c)'
                     PROVE  booking'[c].slot # s
          BY DEF Free
        <5>1. CASE c = b
          BY <1>4, <4>3, <5>1
        <5>2. CASE c # b
          BY <1>4, <4>4, <5>2 DEF Free, Holds
        <5> QED
          BY <5>1, <5>2
      <4> QED
        BY <1>3, <4>1, <4>2, <4>4, <4>5 DEF StillInTime
    <3> QED
      BY <3>2, <3>3
  <2> QED
    BY <2>2, <2>3
<1>7. \A r \in Resources : triggers'[r] = 0
  BY <1>3 DEF OfferedInv
<1> QED
  BY <1>5, <1>6, <1>7 DEF OfferedInv

LEMMA OfferedCancel ==
    ASSUME OfferedInv, IInv', NEW p \in Requests, CommitCancel(p)
    PROVE  OfferedInv'
<1>1. PICK b \in BookingIds : b = req[p].booking
  BY RequestCases DEF OfferedInv, IInv, TypeOK, CommitCancel, CancelRead
<1>2. booking[b].status = "CONFIRMED" /\ booking[b] \in Row
  BY <1>1 DEF CommitCancel, OfferedInv, IInv, TypeOK
<1>3. Holds(b) /\ booking[b].slot \in Slots
  BY <1>2 DEF Holds, OfferedInv, IInv, RowsOK
<1>4. booking \in [BookingIds -> Row] /\ slot \in [Slots -> SlotStatus \cup {"NONE"}]
  BY DEF OfferedInv, IInv, TypeOK
<1>5. PICK s \in Slots : s = booking[b].slot
  BY <1>3
<1>6. /\ ~Holds(b)'
      /\ \A c \in BookingIds \ {b} : booking'[c] = booking[c]
  BY <1>1, <1>2, <1>4 DEF CommitCancel, Holds, Row
<1>7. \A x : x # s => slot'[x] = slot[x]
  BY <1>1, <1>4, <1>5 DEF CommitCancel
<1>8. \A c \in BookingIds : Holds(c)' =>
        /\ Holds(c) /\ booking'[c].slot = booking[c].slot
        /\ SlotKept(booking[c].slot)
  <2> SUFFICES ASSUME NEW c \in BookingIds, Holds(c)'
               PROVE  /\ Holds(c) /\ booking'[c].slot = booking[c].slot
                      /\ SlotKept(booking[c].slot)
    OBVIOUS
  <2>1. c # b /\ booking'[c] = booking[c]
    BY <1>6
  <2>2. Holds(c)
    BY <2>1 DEF Holds
  <2>3. booking[c].slot # s
    BY <1>3, <1>5, <2>1, <2>2 DEF OfferedInv, IInv, OneActiveBookingPerSlot
  <2> QED
    BY <1>7, <2>1, <2>2, <2>3 DEF SlotKept
<1>9. ASSUME NEW o \in Requests
      PROVE  /\ req'[o].op # "reevaluate"
             /\ InTime(o)' => StillInTime(o) /\ SlotKept(req[o].slot)
  <2>1. \/ req'[o] = Idle
        \/ \E u : req'[o] \in {req[o], TouchBalance(req[o], u)}
    BY DEF CommitCancel, EndTouching
  <2>2. CASE req'[o] = Idle
    BY <2>2 DEF Idle, InTime
  <2>3. ASSUME NEW u, req'[o] \in {req[o], TouchBalance(req[o], u)}
        PROVE  /\ req'[o].op # "reevaluate"
               /\ InTime(o)' => StillInTime(o) /\ SlotKept(req[o].slot)
    <3>1. /\ req'[o].op # "reevaluate"
          /\ InTime(o)' => StillInTime(o)
      BY <2>3, OfferedOthers
    <3>2. StillInTime(o) => req[o].slot # s
      BY <1>3, <1>5 DEF StillInTime, OfferedInv, InTime, Free
    <3> QED
      BY <1>7, <3>1, <3>2 DEF SlotKept
  <2> QED
    BY <2>1, <2>2, <2>3, SMTT(30)
<1>10. \A r \in Resources : triggers'[r] = 0
  BY DEF CommitCancel, OfferedInv
<1> QED
  BY <1>8, <1>9, <1>10, OfferedFrame

LEMMA OfferedComplete ==
    ASSUME OfferedInv, IInv', NEW p \in Requests, CommitComplete(p)
    PROVE  OfferedInv'
<1>1. PICK b \in BookingIds : b = req[p].booking
  BY RequestCases DEF OfferedInv, IInv, TypeOK, CommitComplete, CompleteRead
<1>2. UNCHANGED <<slot, triggers>> /\ End(p)
  BY DEF CommitComplete
<1>3. booking \in [BookingIds -> Row] /\ req \in [Requests -> Request]
  BY DEF OfferedInv, IInv, TypeOK
<1>4. \A c \in BookingIds : Holds(c)' =>
        Holds(c) /\ booking'[c].slot = booking[c].slot
  <2>1. CASE UNCHANGED booking
    BY <2>1 DEF Holds
  <2>2. CASE /\ Completable(b)
             /\ booking' = [booking EXCEPT ![b].status = "COMPLETED"]
    <3>1. Holds(b)
      BY <1>1, <1>3, <2>2 DEF Completable, OfferedInv, IInv, RequestsOK,
           CommitComplete, Row, BookingStatus, Holds
    <3>2. booking'[b].slot = booking[b].slot
      BY <1>3, <2>2 DEF Row
    <3>3. \A c \in BookingIds \ {b} : booking'[c] = booking[c]
      BY <1>3, <2>2
    <3> QED
      BY <3>1, <3>2, <3>3 DEF Holds
  <2> QED
    BY <1>1, <2>1, <2>2 DEF CommitComplete
<1>5. req'[p] = Idle /\ \A o \in Requests \ {p} : req'[o] = req[o]
  BY <1>2, <1>3 DEF End, Become
<1>6. \A o \in Requests :
        /\ req'[o].op # "reevaluate"
        /\ InTime(o)' => StillInTime(o) /\ SlotKept(req[o].slot)
  BY <1>2, <1>5 DEF OfferedInv, InTime, StillInTime, SlotKept, Idle
<1>7. \A c \in BookingIds : SlotKept(booking[c].slot)
  BY <1>2 DEF SlotKept
<1>8. \A r \in Resources : triggers'[r] = 0
  BY <1>2 DEF OfferedInv
<1> QED
  BY <1>4, <1>6, <1>7, <1>8, OfferedFrame

\* Bookings stay, slots stay or are published, and requests lose time.
LEMMA OfferedElse ==
    ASSUME OfferedInv, IInv', UNCHANGED booking,
           \A s : SlotKept(s),
           \A r \in Resources : triggers'[r] = 0,
           \A o \in Requests :
              \/ req'[o] = Idle
              \/ \E u : req'[o] \in {req[o], TouchBalance(req[o], u)}
    PROVE  OfferedInv'
<1>1. \A b \in BookingIds : Holds(b)' =>
        /\ Holds(b) /\ booking'[b].slot = booking[b].slot
        /\ SlotKept(booking[b].slot)
  BY DEF Holds
<1>2. ASSUME NEW o \in Requests
      PROVE  /\ req'[o].op # "reevaluate"
             /\ InTime(o)' => StillInTime(o) /\ SlotKept(req[o].slot)
  <2>1. CASE req'[o] = Idle
    BY <2>1 DEF Idle, InTime
  <2>2. ASSUME NEW u, req'[o] \in {req[o], TouchBalance(req[o], u)}
        PROVE  /\ req'[o].op # "reevaluate"
               /\ InTime(o)' => StillInTime(o) /\ SlotKept(req[o].slot)
    BY <2>2, OfferedOthers
  <2> QED
    BY <2>1, <2>2
<1> QED
  BY <1>1, <1>2, OfferedFrame

\* A create that validates has seen its slot published and free.
LEMMA OfferedValidate ==
    ASSUME OfferedInv, IInv', NEW p \in Requests, ValidateBooking(p)
    PROVE  OfferedInv'
<1>1. UNCHANGED tables /\ UNCHANGED <<booking, slot, triggers>>
  BY DEF ValidateBooking, tables
<1>2. PICK q \in CreateBegun : q = req[p]
  BY RequestCases DEF OfferedInv, IInv, TypeOK, ValidateBooking
<1>3. CASE ~Bookable(q.user, q.slot)
  <2>1. Become(p, Idle)
    BY <1>2, <1>3 DEF ValidateBooking
  <2>2. Idle.op = "idle"
    BY DEF Idle
  <2> QED
    BY <1>1, <2>1, <2>2, OfferedBecome
<1>4. CASE Bookable(q.user, q.slot)
  <2>1. req \in [Requests -> Request]
    BY DEF OfferedInv, IInv, TypeOK
  <2>2. PICK n : /\ Become(p, n) /\ n.op = "ready" /\ n.slot = q.slot
    BY <1>2, <1>4 DEF ValidateBooking
  <2>3. req'[p] = n /\ \A o \in Requests \ {p} : req'[o] = req[o]
    BY <2>1, <2>2 DEF Become
  <2>4. slot'[q.slot] = "PUBLISHED" /\ Free(q.slot)
    BY <1>1, <1>4 DEF Bookable, Taken, Active, ActiveStatus, Free, Holds
  <2>5. \A b \in BookingIds : Holds(b)' =>
          /\ Holds(b) /\ booking'[b].slot = booking[b].slot
          /\ SlotKept(booking[b].slot)
    BY <1>1 DEF Holds, SlotKept
  <2>6. ASSUME NEW o \in Requests
        PROVE  /\ req'[o].op # "reevaluate"
               /\ InTime(o)' =>
                    \/ StillInTime(o) /\ SlotKept(req[o].slot)
                    \/ /\ slot'[req'[o].slot] = "PUBLISHED"
                       /\ Free(req'[o].slot)
    <3>1. CASE o = p
      BY <2>2, <2>3, <2>4, <3>1
    <3>2. CASE o # p
      BY <1>1, <2>3, <3>2 DEF OfferedInv, InTime, StillInTime, SlotKept
    <3> QED
      BY <3>1, <3>2
  <2>7. \A r \in Resources : triggers'[r] = 0
    BY <1>1 DEF OfferedInv
  <2> QED
    BY <2>5, <2>6, <2>7, OfferedFrame
<1> QED
  BY <1>3, <1>4

\* Requests that arrive; without a trigger there is nothing to reevaluate.
LEMMA OfferedArrive ==
    ASSUME OfferedInv, IInv', NEW p \in Requests, Arrive(p)
    PROVE  OfferedInv'
<1>1. ASSUME NEW u \in Users, NEW s \in Slots, RequestBooking(p, u, s)
      PROVE  OfferedInv'
  <2>1. PICK q : Become(p, q) /\ q.op = "begun" /\ UNCHANGED tables
    BY <1>1 DEF RequestBooking
  <2> QED
    BY <2>1, OfferedBecome
<1>2. ASSUME NEW a \in Users, NEW b \in BookingIds,
             NEW m \in {"undefined", "true", "false"}, BeginCancel(p, a, b, m)
      PROVE  OfferedInv'
  <2>1. PICK q : Become(p, q) /\ q.op = "cancel" /\ UNCHANGED tables
    BY <1>2 DEF BeginCancel
  <2> QED
    BY <2>1, OfferedBecome
<1>3. ASSUME NEW a \in Users, NEW b \in BookingIds, BeginComplete(p, a, b)
      PROVE  OfferedInv'
  <2>1. PICK q : Become(p, q) /\ q.op = "complete" /\ UNCHANGED tables
    BY <1>3 DEF BeginComplete
  <2> QED
    BY <2>1, OfferedBecome
<1>4. ASSUME NEW r \in Resources, BeginReevaluate(p, r)
      PROVE  FALSE
  BY <1>4 DEF BeginReevaluate, OfferedInv
<1>5. ASSUME NEW a \in Users, NEW s \in Slots, BeginCreateSlot(p, a, s)
      PROVE  OfferedInv'
  <2>1. PICK q : Become(p, q) /\ q.op = "slot" /\ UNCHANGED tables
    BY <1>5 DEF BeginCreateSlot
  <2> QED
    BY <2>1, OfferedBecome
<1> QED
  BY <1>1, <1>2, <1>3, <1>4, <1>5 DEF Arrive

LEMMA OfferedStep ==
    ASSUME OfferedInv, IInv', NEW p \in Requests, Step(p)
    PROVE  OfferedInv'
<1>1. Idle.op = "idle"
  BY DEF Idle
<1>2. CASE \/ UniqueConflict(p) \/ LedgerConflict(p) \/ CancelConflict(p)
  BY <1>1, <1>2, OfferedBecome DEF UniqueConflict, LedgerConflict, CancelConflict, End
<1>3. CASE SerializationConflict(p)
  <2>1. NextAttempt(req[p]).op \in {"idle", "begun"}
    BY <1>1 DEF NextAttempt
  <2> QED
    BY <1>3, <2>1, OfferedBecome DEF SerializationConflict
<1>4. CASE \/ ReevaluateEnds(p)
           \/ \E b \in BookingIds : ReevaluateOne(p, b) \/ ReevaluateAborts(p, b)
  BY <1>4 DEF ReevaluateOne, ReevaluateAborts, ReevaluateEnds, OfferedInv
<1>5. CASE CommitCreateSlot(p)
  <2>1. UNCHANGED <<booking, triggers>>
    BY <1>5 DEF CommitCreateSlot
  <2>2. \A s : SlotKept(s)
    BY <1>5 DEF CommitCreateSlot, SlotKept, OfferedInv, IInv, TypeOK
  <2>3. \A o \in Requests : req'[o] = Idle \/ req'[o] = req[o]
    BY <1>5 DEF CommitCreateSlot, End, Become, OfferedInv, IInv, TypeOK
  <2>4. \A r \in Resources : triggers'[r] = 0
    BY <2>1 DEF OfferedInv
  <2> QED
    BY <2>1, <2>2, <2>3, <2>4, OfferedElse
<1> QED
  BY <1>2, <1>3, <1>4, <1>5, OfferedValidate, OfferedCreate, OfferedCancel,
     OfferedComplete DEF Step

LEMMA OfferedEnvironment ==
    ASSUME OfferedInv, IInv', MaxTriggers = 0, Environment
    PROVE  OfferedInv'
<1>1. UNCHANGED <<booking, slot>>
  BY DEF Environment, UpdateResource, UpdateAllowedOrganizations, RemoveResource,
       LoseTrigger, RemoveMembership, GrantPoints, Tick, Interrupt, tables
<1>2. UNCHANGED triggers
  <2>1. \A r \in Resources : ~(triggers[r] < MaxTriggers) /\ ~(triggers[r] > 0)
    BY DEF OfferedInv
  <2>2. ASSUME NEW r \in Resources
        PROVE  ~RemoveResource(r) /\ ~LoseTrigger(r)
    BY <2>1 DEF RemoveResource, LoseTrigger
  <2>3. ASSUME NEW r \in Resources, NEW allowed
        PROVE  ~UpdateAllowedOrganizations(r, allowed)
    BY <2>1 DEF UpdateAllowedOrganizations
  <2> QED
    BY <2>2, <2>3 DEF Environment, UpdateResource, RemoveMembership, GrantPoints,
       Tick, Interrupt, tables
<1>3. \A o \in Requests :
        \/ req'[o] = Idle
        \/ \E u : req'[o] \in {req[o], TouchBalance(req[o], u)}
  <2>1. ASSUME NEW p \in Requests, Interrupt(p)
        PROVE  \A o \in Requests : req'[o] = Idle \/ req'[o] = req[o]
    BY <2>1 DEF Interrupt, End, Become, OfferedInv, IInv, TypeOK
  <2>2. ASSUME NEW u \in Users, GrantPoints(u)
        PROVE  \A o \in Requests : req'[o] = TouchBalance(req[o], u)
    BY <2>2 DEF GrantPoints
  <2>3. \/ UNCHANGED req
        \/ \E p \in Requests : Interrupt(p)
        \/ \E u \in Users : GrantPoints(u)
    BY DEF Environment, UpdateResource, UpdateAllowedOrganizations, RemoveResource,
         LoseTrigger, RemoveMembership, Tick
  <2> QED
    BY <2>1, <2>2, <2>3
<1>4. \A s : SlotKept(s)
  BY <1>1 DEF SlotKept
<1>5. \A r \in Resources : triggers'[r] = 0
  BY <1>2 DEF OfferedInv
<1> QED
  BY <1>1, <1>3, <1>4, <1>5, OfferedElse

\* While no resource update triggers reevaluateBookings, a booking that holds its
\* slot holds one that is still offered: a create that read the slot before
\* another user booked it and cancelBooking withdrew it cannot commit, because
\* SERIALIZABLE reports the conflict.
THEOREM BookedSlotsAreOffered ==
    ASSUME MaxTriggers = 0
    PROVE  Spec => []ActiveSlotIsPublished
<1>1. Init => OfferedInv
  <2> SUFFICES ASSUME Init PROVE OfferedInv
    OBVIOUS
  <2>1. ActiveSlotIsPublished
    BY DEF Init, ActiveSlotIsPublished, Holds, NoRow
  <2>2. \A p \in Requests : req[p].op = "idle"
    BY DEF Init, Idle
  <2>3. \A r \in Resources : triggers[r] = 0
    BY DEF Init
  <2> QED
    BY <2>1, <2>2, <2>3, InitIInv DEF OfferedInv, InTime
<1>2. OfferedInv /\ [Next]_vars => OfferedInv'
  <2> SUFFICES ASSUME OfferedInv, [Next]_vars PROVE OfferedInv'
    OBVIOUS
  <2>1. IInv'
    BY NextIInv DEF OfferedInv
  <2>2. CASE UNCHANGED vars
    <3>1. UNCHANGED <<booking, slot, triggers, req>>
      BY <2>2 DEF vars
    <3>2. \A s : SlotKept(s)
      BY <3>1 DEF SlotKept
    <3>3. \A r \in Resources : triggers'[r] = 0
      BY <3>1 DEF OfferedInv
    <3> QED
      BY <2>1, <3>1, <3>2, <3>3, OfferedElse
  <2> QED
    BY <2>1, <2>2, OfferedArrive, OfferedStep, OfferedEnvironment DEF Next
<1>3. OfferedInv => ActiveSlotIsPublished
  BY DEF OfferedInv
<1> QED
  BY <1>1, <1>2, <1>3, PTL DEF Spec

-----------------------------------------------------------------------------
(* Sums over the ledger.  MapThenSumSet picks the entries of a user one by *)
(* one, in an order that CHOOSE fixes; the lemmas show that it computes a  *)
(* sum, which is what SUM(amount) does.  A set of counterexamples would    *)
(* have a least element: that takes the place of an induction.             *)

LEMMA LeastNumber ==
    ASSUME NEW N \in SUBSET Nat, N # {}
    PROVE  \E n \in N : \A m \in N : n <= m
<1> DEFINE L == OpToRel(<, Nat)
<1>1. \A x, y \in Nat : y < x => <<y, x>> \in L
  BY Zenon DEF OpToRel
<1>2. IsWellFoundedOn(L, Nat)
  BY NatLessThanWellFounded
<1> HIDE DEF L
<1>3. PICK x \in N : \A y \in N : ~(<<y, x>> \in L)
  BY <1>2, WFMin
<1>4. \A y \in N : x <= y
  <2> SUFFICES ASSUME NEW y \in N PROVE x <= y
    OBVIOUS
  <2>1. x \in Nat /\ y \in Nat
    OBVIOUS
  <2>2. ~(y < x)
    BY <1>1, <1>3, <2>1
  <2> QED
    BY <2>1, <2>2
<1> QED
  BY <1>4

\* Among subsets of a finite set there is one that contains no other.
LEMMA LeastSubset ==
    ASSUME NEW S, IsFiniteSet(S), NEW B \in SUBSET (SUBSET S), B # {}
    PROVE  \E s \in B : \A x \in s : s \ {x} \notin B
<1>1. \A s \in SUBSET S : /\ Cardinality(s) \in Nat
                          /\ \A x \in s : Cardinality(s \ {x}) < Cardinality(s)
  <2> SUFFICES ASSUME NEW s \in SUBSET S
               PROVE  /\ Cardinality(s) \in Nat
                      /\ \A x \in s : Cardinality(s \ {x}) < Cardinality(s)
    OBVIOUS
  <2>1. IsFiniteSet(s)
    BY FS_Subset
  <2>2. Cardinality(s) \in Nat
    BY <2>1, FS_CardinalityType
  <2>3. ASSUME NEW x \in s PROVE Cardinality(s \ {x}) = Cardinality(s) - 1
    BY <2>1, FS_RemoveElement
  <2> QED
    BY <2>2, <2>3
<1> DEFINE N == {n \in Nat : \E s \in B : Cardinality(s) = n}
<1>2. N # {} /\ N \in SUBSET Nat
  BY <1>1
<1>3. PICK n \in N : \A m \in N : n <= m
  BY <1>2, LeastNumber
<1>4. PICK s \in B : Cardinality(s) = n
  OBVIOUS
<1>5. ASSUME NEW x \in s, s \ {x} \in B PROVE FALSE
  <2>1. Cardinality(s \ {x}) \in N /\ Cardinality(s \ {x}) < n /\ n \in Nat
    BY <1>1, <1>4, <1>5
  <2> QED
    BY <1>1, <1>3, <1>5, <2>1
<1> QED
  BY <1>5

\* The function that MapThenSumSet computes with, for the entries w over S.
Iterates(it, w, S) ==
    it = [s \in SUBSET S |->
            IF s = {} THEN 0
            ELSE LET x == CHOOSE x \in s : TRUE IN w[x] + it[s \ {x}]]

\* It exists: there is one that is right for sets of up to n entries, for all n.
LEMMA IterationExists ==
    ASSUME NEW S, IsFiniteSet(S), NEW w
    PROVE  \E it : Iterates(it, w, S)
<1> DEFINE Pick(s) == CHOOSE x \in s : TRUE
           Rule(it, s) == it[s] = IF s = {} THEN 0
                                  ELSE w[Pick(s)] + it[s \ {Pick(s)}]
           Right(it, n) == /\ it = [s \in SUBSET S |-> it[s]]
                           /\ \A s \in SUBSET S : Cardinality(s) <= n => Rule(it, s)
           Fails == {n \in Nat : ~(\E it : Right(it, n))}
<1>0. \A s \in SUBSET S : /\ Cardinality(s) \in Nat
                          /\ Cardinality(s) <= Cardinality(S)
                          /\ Cardinality(s) = 0 => s = {}
                          /\ s # {} => /\ Pick(s) \in s
                                       /\ s \ {Pick(s)} \in SUBSET S
                                       /\ Cardinality(s \ {Pick(s)}) = Cardinality(s) - 1
  <2> SUFFICES ASSUME NEW s \in SUBSET S
               PROVE  /\ Cardinality(s) \in Nat
                      /\ Cardinality(s) <= Cardinality(S)
                      /\ Cardinality(s) = 0 => s = {}
                      /\ s # {} => /\ Pick(s) \in s
                                   /\ s \ {Pick(s)} \in SUBSET S
                                   /\ Cardinality(s \ {Pick(s)}) = Cardinality(s) - 1
    BY Zenon
  <2>1. IsFiniteSet(s) /\ Cardinality(s) <= Cardinality(S)
    BY FS_Subset
  <2>2. Cardinality(s) \in Nat /\ (Cardinality(s) = 0 => s = {})
    BY <2>1, FS_CardinalityType, FS_EmptySet
  <2>3. s # {} => Pick(s) \in s
    BY Zenon
  <2> HIDE DEF Pick
  <2>4. s # {} => Cardinality(s \ {Pick(s)}) = Cardinality(s) - 1
    BY <2>1, <2>3, FS_RemoveElement
  <2> QED
    BY <2>1, <2>2, <2>3, <2>4
<1> HIDE DEF Pick
<1>1. \E it : Right(it, 0)
  <2> DEFINE zero == [s \in SUBSET S |-> 0]
  <2>1. zero = [s \in SUBSET S |-> zero[s]]
    BY Zenon
  <2>2. ASSUME NEW s \in SUBSET S, Cardinality(s) <= 0 PROVE Rule(zero, s)
    <3>1. s = {}
      <4>1. Cardinality(s) \in Nat /\ (Cardinality(s) = 0 => s = {})
        BY <1>0
      <4> QED
        BY <2>2, <4>1
    <3> QED
      BY <3>1
  <2> QED
    BY <2>1, <2>2
<1>2. ASSUME NEW n \in Nat, NEW it, Right(it, n)
      PROVE  \E nt : Right(nt, n + 1)
  <2> DEFINE nt == [s \in SUBSET S |->
                      IF Cardinality(s) <= n THEN it[s]
                      ELSE w[Pick(s)] + it[s \ {Pick(s)}]]
  <2>1. nt = [s \in SUBSET S |-> nt[s]]
    BY Zenon
  <2>2. ASSUME NEW s \in SUBSET S, Cardinality(s) <= n + 1
        PROVE  Rule(nt, s)
    <3>1. CASE s = {}
      <4>1. Cardinality(s) <= n
        BY <3>1, FS_EmptySet
      <4> QED
        BY <1>2, <3>1, <4>1
    <3>2. CASE s # {}
      <4>1. nt[s \ {Pick(s)}] = it[s \ {Pick(s)}]
        BY <1>0, <2>2, <3>2
      <4>2. nt[s] = w[Pick(s)] + it[s \ {Pick(s)}]
        <5>1. CASE Cardinality(s) <= n
          BY <1>2, <3>2, <5>1
        <5>2. CASE ~(Cardinality(s) <= n)
          BY <5>2
        <5> QED
          BY <5>1, <5>2
      <4> QED
        BY <3>2, <4>1, <4>2
    <3> QED
      BY <3>1, <3>2
  <2> QED
    BY <2>1, <2>2
<1> HIDE DEF Right
<1>3. Fails = {}
  <2> SUFFICES ASSUME Fails # {} PROVE FALSE
    OBVIOUS
  <2>0. Fails \in SUBSET Nat
    OBVIOUS
  <2>1. PICK n \in Fails : \A m \in Fails : n <= m
    BY <2>0, LeastNumber
  <2>2. n # 0
    BY <1>1
  <2>3. n - 1 \in Nat /\ n - 1 \notin Fails /\ (n - 1) + 1 = n
    BY <2>1, <2>2
  <2>4. PICK it : Right(it, n - 1)
    BY <2>3
  <2>5. \E nt : Right(nt, (n - 1) + 1)
    BY <1>2, <2>3, <2>4
  <2> QED
    BY <2>3, <2>5
<1>4. Cardinality(S) \in Nat
  BY <1>0
<1>5. PICK it : Right(it, Cardinality(S))
  BY <1>3, <1>4
<1>6. it = [s \in SUBSET S |-> it[s]] /\ \A s \in SUBSET S : Rule(it, s)
  BY <1>0, <1>5 DEF Right
<1>7. Iterates(it, w, S)
  BY <1>6, Zenon DEF Iterates, Pick
<1> QED
  BY <1>7

Amounts(w, S) == \A x \in S : w[x] \in Int

SumsUp(it, w, S) ==
    \A s \in SUBSET S :
        it[s] \in Int /\ \A y \in s : it[s] = w[y] + it[s \ {y}]

\* It counts each entry once, whichever the order.
LEMMA IterationSums ==
    ASSUME NEW S, IsFiniteSet(S), NEW w, Amounts(w, S),
           NEW it, Iterates(it, w, S)
    PROVE  SumsUp(it, w, S)
<1> DEFINE Pick(s) == CHOOSE x \in s : TRUE
           NoInt == {s \in SUBSET S : it[s] \notin Int}
           Split(s) == \A y \in s : it[s] = w[y] + it[s \ {y}]
           Bad == {s \in SUBSET S : ~Split(s)}
<1>1. \A s \in SUBSET S : it[s] = IF s = {} THEN 0 ELSE w[Pick(s)] + it[s \ {Pick(s)}]
  BY Zenon DEF Iterates
<1>2. \A s \in SUBSET S : s # {} => Pick(s) \in s
  BY Zenon
<1> HIDE DEF Pick
<1>0. \A x \in S : w[x] \in Int
  BY DEF Amounts
<1>3. \A s \in SUBSET S : it[s] \in Int
  <2> SUFFICES ASSUME NoInt # {} PROVE FALSE
    OBVIOUS
  <2>1. NoInt \in SUBSET (SUBSET S)
    OBVIOUS
  <2> HIDE DEF NoInt
  <2>2. PICK s \in NoInt : \A x \in s : s \ {x} \notin NoInt
    BY <2>1, LeastSubset
  <2>3. s \in SUBSET S /\ it[s] \notin Int /\ \A x \in s : it[s \ {x}] \in Int
    BY <2>2 DEF NoInt
  <2>4. s # {}
    <3>0. {} \in SUBSET S
      OBVIOUS
    <3>1. it[{}] = 0
      BY <1>1, <3>0, Zenon
    <3>2. it[{}] \in Int
      BY <3>1
    <3> QED
      BY <2>3, <3>2, Zenon
  <2>5. Pick(s) \in s /\ it[s] = w[Pick(s)] + it[s \ {Pick(s)}]
    BY <1>1, <1>2, <2>3, <2>4
  <2>6. w[Pick(s)] \in Int /\ it[s \ {Pick(s)}] \in Int
    BY <1>0, <2>3, <2>5
  <2> QED
    BY <2>3, <2>5, <2>6
<1>4. \A s \in SUBSET S : Split(s)
  <2> SUFFICES ASSUME Bad # {} PROVE FALSE
    BY Zenon
  <2>1. Bad \in SUBSET (SUBSET S)
    BY Zenon
  <2> HIDE DEF Bad
  <2>2. PICK s \in Bad : \A x \in s : s \ {x} \notin Bad
    BY <2>1, LeastSubset
  <2>3. s \in SUBSET S /\ ~Split(s) /\ \A x \in s : Split(s \ {x})
    BY <2>2, Zenon DEF Bad
  <2>4. PICK y \in s : it[s] # w[y] + it[s \ {y}]
    BY <2>3
  <2> DEFINE x == Pick(s)
  <2>5. x \in s /\ it[s] = w[x] + it[s \ {x}] /\ x # y
    BY <1>1, <1>2, <2>3, <2>4
  <2> HIDE DEF x
  <2>6. (s \ {x}) \ {y} = (s \ {y}) \ {x}
    OBVIOUS
  <2>7. it[s \ {x}] = w[y] + it[(s \ {x}) \ {y}]
    BY <2>3, <2>5
  <2>8. it[s \ {y}] = w[x] + it[(s \ {y}) \ {x}]
    BY <2>3, <2>4, <2>5
  <2>9. w[x] \in Int /\ w[y] \in Int /\ it[(s \ {x}) \ {y}] \in Int
    BY <1>0, <1>3, <2>3, <2>5
  <2>10. PICK i, j, k \in Int : i = w[x] /\ j = w[y] /\ k = it[(s \ {x}) \ {y}]
    BY <2>9, Zenon
  <2>11. it[s] = i + (j + k)
    BY <2>5, <2>7, <2>10, Zenon
  <2>12. it[s] # j + (i + k)
    BY <2>4, <2>6, <2>8, <2>10, Zenon
  <2> QED
    BY <2>11, <2>12
<1> QED
  BY <1>3, <1>4, Zenon DEF SumsUp

\* It depends on the entries it sums, and on nothing else.
LEMMA IterationsAgree ==
    ASSUME NEW S, IsFiniteSet(S), NEW w, NEW v, NEW it, Iterates(it, w, S),
           NEW T \in SUBSET S, NEW jt, Iterates(jt, v, T),
           \A x \in T : w[x] = v[x]
    PROVE  it[T] = jt[T]
<1> DEFINE Pick(s) == CHOOSE x \in s : TRUE
           Bad == {s \in SUBSET T : it[s] # jt[s]}
<1>1. \A s \in SUBSET S : it[s] = IF s = {} THEN 0 ELSE w[Pick(s)] + it[s \ {Pick(s)}]
  BY Zenon DEF Iterates
<1>2. \A s \in SUBSET T : jt[s] = IF s = {} THEN 0 ELSE v[Pick(s)] + jt[s \ {Pick(s)}]
  BY Zenon DEF Iterates
<1>3. \A s \in SUBSET T : s # {} => Pick(s) \in s
  BY Zenon
<1> HIDE DEF Pick
<1> SUFFICES ASSUME Bad # {} PROVE FALSE
  OBVIOUS
<1>4. Bad \in SUBSET (SUBSET T) /\ IsFiniteSet(T)
  BY FS_Subset
<1> HIDE DEF Bad
<1>5. PICK s \in Bad : \A x \in s : s \ {x} \notin Bad
  BY <1>4, LeastSubset
<1>6. s \in SUBSET T /\ it[s] # jt[s] /\ \A x \in s : it[s \ {x}] = jt[s \ {x}]
  BY <1>5 DEF Bad
<1> QED
  BY <1>1, <1>2, <1>3, <1>6

\* What MapThenSumSet returns for entries given by a function.
Total(w, S) == (CHOOSE it : Iterates(it, w, S))[S]

LEMMA TotalOfNone ==
    ASSUME NEW w PROVE Total(w, {}) = 0
<1> DEFINE it == CHOOSE it : Iterates(it, w, {})
<1>1. Iterates(it, w, {})
  BY IterationExists, FS_EmptySet, Zenon
<1> QED
  BY <1>1, Zenon DEF Iterates, Total

LEMMA TotalSplits ==
    ASSUME NEW S, IsFiniteSet(S), NEW w, Amounts(w, S)
    PROVE  /\ Total(w, S) \in Int
           /\ \A y \in S : Total(w, S) = w[y] + Total(w, S \ {y})
<1>1. PICK it : Iterates(it, w, S) /\ Total(w, S) = it[S]
  BY IterationExists, Zenon DEF Total
<1>2. it[S] \in Int /\ \A y \in S : it[S] = w[y] + it[S \ {y}]
  <2>1. SumsUp(it, w, S)
    BY <1>1, IterationSums
  <2>2. S \in SUBSET S
    OBVIOUS
  <2> QED
    BY <2>1, <2>2 DEF SumsUp
<1>3. ASSUME NEW y \in S PROVE it[S \ {y}] = Total(w, S \ {y})
  <2> DEFINE T == S \ {y}
             jt == CHOOSE jt : Iterates(jt, w, T)
  <2>1. IsFiniteSet(T) /\ T \in SUBSET S
    BY FS_RemoveElement
  <2> HIDE DEF T
  <2>2. Iterates(jt, w, T) /\ Total(w, T) = jt[T]
    BY <2>1, IterationExists, Zenon DEF Total
  <2> HIDE DEF jt
  <2>3. it[T] = jt[T]
    BY <1>1, <2>1, <2>2, IterationsAgree
  <2> QED
    BY <2>2, <2>3 DEF T
<1> QED
  BY <1>1, <1>2, <1>3

LEMMA TotalsAgree ==
    ASSUME NEW S, IsFiniteSet(S), NEW w, NEW v, \A x \in S : w[x] = v[x]
    PROVE  Total(w, S) = Total(v, S)
<1> DEFINE it == CHOOSE it : Iterates(it, w, S)
           jt == CHOOSE jt : Iterates(jt, v, S)
<1>1. Iterates(it, w, S) /\ Total(w, S) = it[S]
  BY IterationExists, Zenon DEF Total
<1>2. Iterates(jt, v, S) /\ Total(v, S) = jt[S]
  BY IterationExists, Zenon DEF Total
<1> HIDE DEF it, jt
<1> QED
  BY <1>1, <1>2, IterationsAgree

\* One entry changed.
LEMMA TotalWithOneChanged ==
    ASSUME NEW S, IsFiniteSet(S), NEW w, NEW v, NEW y \in S,
           Amounts(w, S), Amounts(v, S), \A x \in S \ {y} : v[x] = w[x]
    PROVE  Total(v, S) = Total(w, S) + (v[y] - w[y])
<1> DEFINE T == S \ {y}
<1>1. IsFiniteSet(T) /\ Amounts(w, T) /\ \A x \in T : w[x] = v[x]
  BY FS_RemoveElement DEF Amounts
<1>2. Total(w, S) = w[y] + Total(w, T) /\ Total(v, S) = v[y] + Total(v, T)
  BY TotalSplits
<1> HIDE DEF T
<1>3. Total(w, T) = Total(v, T) /\ Total(w, T) \in Int
  BY <1>1, TotalsAgree, TotalSplits
<1>4. w[y] \in Int /\ v[y] \in Int
  BY DEF Amounts
<1> QED
  BY <1>2, <1>3, <1>4

-----------------------------------------------------------------------------
(* The projection and the ledger *)

\* The entries of the ledger for each booking, the bookings of a user, and the
\* bookings there are.
Entries == [b \in BookingIds |-> refund[b] - deduction[b]]
Mine(u) == {b \in BookingIds : booking[b].user = u}
Made == {b \in BookingIds : booking[b].status # "NONE"}

\* There are finitely many bookings at any time, however many ids there are.
LedgersOK ==
    /\ IsFiniteSet(Made)
    /\ \A u \in Users : balance[u] = granted[u] + Total(Entries, Mine(u))

\* A user's bookings exist, so they are finitely many with integer entries.
LEMMA MineIsFinite ==
    ASSUME IInv, LedgersOK, NEW u \in Users
    PROVE  IsFiniteSet(Mine(u)) /\ Amounts(Entries, Mine(u))
<1>1. Mine(u) \in SUBSET Made
  BY DEF IInv, RowsOK, NoRow, Mine, Made
<1>2. IsFiniteSet(Mine(u))
  BY <1>1, FS_Subset DEF LedgersOK
<1>3. \A b \in BookingIds : Entries[b] \in Int
  BY DEF IInv, TypeOK, Entries
<1> QED
  BY <1>2, <1>3 DEF Amounts, Mine

\* LedgerSum is the total of the entries of the user's bookings.
LEMMA LedgerSumIsTotal ==
    ASSUME IInv, LedgersOK, NEW u \in Users
    PROVE  LedgerSum(u) = granted[u] + Total(Entries, Mine(u))
<1> DEFINE S == Mine(u)
           Solves(it) == it = [s \in SUBSET S |->
                IF s = {} THEN 0
                ELSE LET x == CHOOSE x \in s : TRUE
                     IN  (refund[x] - deduction[x]) + it[s \ {x}]]
           sol == CHOOSE it : Solves(it)
<1>1. LedgerSum(u) = granted[u] + sol[S]
  BY Zenon DEF LedgerSum, MapThenSumSet, MapThenFoldSet, Mine
<1>2. S \subseteq BookingIds /\ IsFiniteSet(S)
  BY MineIsFinite DEF Mine
<1> HIDE DEF S
<1>3. \A s \in SUBSET S : s # {} =>
        LET x == CHOOSE x \in s : TRUE
        IN  x \in s /\ Entries[x] = refund[x] - deduction[x]
  <2> SUFFICES ASSUME NEW s \in SUBSET S, s # {}
               PROVE  LET x == CHOOSE x \in s : TRUE
                      IN  x \in s /\ Entries[x] = refund[x] - deduction[x]
    BY Zenon
  <2>1. PICK x : x = CHOOSE y \in s : TRUE
    BY Zenon
  <2>2. x \in s
    BY <2>1, Zenon
  <2>3. Entries[x] = refund[x] - deduction[x]
    BY <1>2, <2>2 DEF Entries
  <2> QED
    BY <2>1, <2>2, <2>3, Zenon
<1>4. \A it : Solves(it) <=> Iterates(it, Entries, S)
  <2> TAKE it
  <2>1. [s \in SUBSET S |->
           IF s = {} THEN 0
           ELSE LET x == CHOOSE x \in s : TRUE
                IN  (refund[x] - deduction[x]) + it[s \ {x}]]
        = [s \in SUBSET S |->
             IF s = {} THEN 0
             ELSE LET x == CHOOSE x \in s : TRUE IN Entries[x] + it[s \ {x}]]
    BY <1>3
  <2> QED
    BY <2>1, Zenon DEF Iterates
<1>5. PICK it : Iterates(it, Entries, S) /\ Total(Entries, S) = it[S]
  BY <1>2, IterationExists, Zenon DEF Total
<1>6. (\E jt : Solves(jt)) => Solves(sol)
  BY Zenon
<1> HIDE DEF Solves, sol
<1>7. Iterates(sol, Entries, S)
  BY <1>4, <1>5, <1>6, Zenon
<1>8. sol[S] = it[S]
  BY <1>2, <1>5, <1>7, IterationsAgree
<1> QED
  BY <1>1, <1>5, <1>8 DEF S

\* Steps that add no booking: they may change the entry of one, and pay its
\* user the difference.
LEMMA LedgersPay ==
    ASSUME IInv, TypeOK', LedgersOK, UNCHANGED granted,
           NEW b \in BookingIds, booking[b].user \in Users, NEW amount \in Nat,
           \A c \in BookingIds :
              /\ booking'[c].user = booking[c].user
              /\ booking'[c].status = "NONE" <=> booking[c].status = "NONE"
              /\ deduction'[c] = deduction[c]
              /\ refund'[c] = IF c = b THEN refund[c] + amount ELSE refund[c],
           \A u \in Users :
              balance'[u] = IF u = booking[b].user THEN balance[u] + amount
                            ELSE balance[u]
    PROVE  LedgersOK'
<1>1. Made' = Made /\ \A u : Mine(u)' = Mine(u)
  BY DEF Made, Mine
<1>2. \A c \in BookingIds : Entries'[c] = IF c = b THEN Entries[c] + amount
                                          ELSE Entries[c]
  BY DEF IInv, TypeOK, Entries
<1>3. \A c \in BookingIds : Entries'[c] \in Int /\ Entries[c] \in Int
  BY DEF IInv, TypeOK, Entries
<1>4. ASSUME NEW u \in Users
      PROVE  balance'[u] = granted'[u] + Total(Entries', Mine(u)')
  <2>0. PICK S, w, v : S = Mine(u) /\ w = Entries /\ v = Entries'
    BY Zenon
  <2>1. /\ IsFiniteSet(S) /\ Amounts(w, S) /\ Amounts(v, S)
        /\ S \subseteq BookingIds
    BY <1>3, <2>0, MineIsFinite DEF Amounts, Mine
  <2>2. balance[u] = granted[u] + Total(w, S) /\ Total(w, S) \in Int
    BY <2>0, <2>1, TotalSplits DEF LedgersOK
  <2>3. granted[u] \in Nat /\ w[b] \in Int /\ balance[u] \in Nat
    BY <1>3, <2>0 DEF IInv, TypeOK
  <2>4. CASE u = booking[b].user
    <3>1. b \in S
      BY <2>0, <2>4 DEF Mine
    <3>2. \A x \in S \ {b} : v[x] = w[x]
      BY <1>2, <2>0, <2>1
    <3>3. Total(v, S) = Total(w, S) + (v[b] - w[b])
      BY <2>1, <3>1, <3>2, TotalWithOneChanged
    <3>4. v[b] = w[b] + amount
      BY <1>2, <2>0
    <3>5. Total(v, S) = Total(w, S) + amount
      BY <2>2, <2>3, <3>3, <3>4
    <3>6. balance'[u] = granted[u] + Total(v, S)
      BY <2>2, <2>3, <2>4, <3>5
    <3> QED
      BY <1>1, <2>0, <3>6
  <2>5. CASE u # booking[b].user
    <3>1. \A x \in S : w[x] = v[x]
      BY <1>2, <2>0, <2>1, <2>5 DEF Mine
    <3>2. Total(w, S) = Total(v, S)
      BY <2>1, <3>1, TotalsAgree
    <3>3. balance'[u] = balance[u]
      BY <2>5
    <3> QED
      BY <1>1, <2>0, <2>2, <3>2, <3>3
  <2> QED
    BY <2>4, <2>5
<1> QED
  BY <1>1, <1>4 DEF LedgersOK

\* Steps that change no entry and no booking's user.
LEMMA LedgersKeep ==
    ASSUME LedgersOK, UNCHANGED <<deduction, refund, granted, balance>>,
           \A c \in BookingIds :
              /\ booking'[c].user = booking[c].user
              /\ booking'[c].status = "NONE" <=> booking[c].status = "NONE"
    PROVE  LedgersOK'
<1>1. Made' = Made /\ \A u : Mine(u)' = Mine(u)
  BY DEF Made, Mine
<1>2. Entries' = Entries
  BY DEF Entries
<1> QED
  BY <1>1, <1>2 DEF LedgersOK

\* A new booking brings its deduction, which its user pays.
LEMMA LedgersCreate ==
    ASSUME IInv, TypeOK', LedgersOK, UNCHANGED <<refund, granted>>,
           NEW b \in BookingIds, booking[b].status = "NONE",
           NEW payer \in Users, NEW cost \in Nat,
           booking'[b].user = payer, booking'[b].status # "NONE",
           deduction'[b] = cost,
           \A c \in BookingIds \ {b} :
              booking'[c] = booking[c] /\ deduction'[c] = deduction[c],
           \A u \in Users :
              balance'[u] = IF u = payer THEN balance[u] - cost ELSE balance[u]
    PROVE  LedgersOK'
<1>0. booking[b].user \notin Users /\ refund[b] = 0
  BY DEF IInv, RowsOK, NoRow
<1>1. Made' = Made \cup {b} /\ \A u \in Users : Mine(u)' = IF u = payer THEN Mine(u) \cup {b} ELSE Mine(u)
  BY <1>0 DEF Made, Mine
<1>2. IsFiniteSet(Made')
  BY <1>1, FS_AddElement DEF LedgersOK
<1>3. \A c \in BookingIds \ {b} : Entries'[c] = Entries[c]
  BY DEF Entries
<1>4. Entries'[b] = 0 - cost
  BY <1>0 DEF Entries, IInv, TypeOK
<1>5. ASSUME NEW u \in Users
      PROVE  balance'[u] = granted'[u] + Total(Entries', Mine(u)')
  <2>0. PICK S, w, v : S = Mine(u) /\ w = Entries /\ v = Entries'
    BY Zenon
  <2>1. /\ IsFiniteSet(S) /\ Amounts(w, S) /\ S \subseteq BookingIds /\ b \notin S
    BY <1>0, <2>0, MineIsFinite DEF Mine
  <2>2. balance[u] = granted[u] + Total(w, S) /\ Total(w, S) \in Int
    BY <2>0, <2>1, TotalSplits DEF LedgersOK
  <2>3. granted[u] \in Nat /\ v[b] \in Int /\ v[b] = 0 - cost
    BY <1>4, <2>0 DEF IInv, TypeOK
  <2>4. \A x \in S : w[x] = v[x]
    BY <1>3, <2>0, <2>1
  <2>5. CASE u = payer
    <3>1. PICK T : T = S \cup {b}
      BY Zenon
    <3>2. IsFiniteSet(S \cup {b})
      BY <2>1, FS_AddElement
    <3>3. IsFiniteSet(T) /\ T \ {b} = S /\ b \in T
      BY <2>1, <3>1, <3>2
    <3>4. Amounts(v, T)
      BY <2>1, <2>3, <2>4, <3>1 DEF Amounts
    <3>5. Total(v, T) = v[b] + Total(v, T \ {b})
      BY <3>3, <3>4, TotalSplits
    <3>6. Total(v, T) = v[b] + Total(w, S)
      <4>1. Total(w, S) = Total(v, S)
        BY <2>1, <2>4, TotalsAgree
      <4> QED
        BY <3>3, <3>5, <4>1, Zenon
    <3>7. balance'[u] = granted[u] + Total(v, T)
      BY <2>2, <2>3, <2>5, <3>6
    <3> QED
      BY <1>1, <2>0, <2>5, <3>1, <3>7
  <2>6. CASE u # payer
    <3>1. Total(w, S) = Total(v, S)
      BY <2>1, <2>4, TotalsAgree
    <3> QED
      BY <1>1, <2>0, <2>2, <2>6, <3>1
  <2> QED
    BY <2>5, <2>6
<1> QED
  BY <1>2, <1>5 DEF LedgersOK

\* A point granted is an entry and a point of the projection.
LEMMA LedgersGrant ==
    ASSUME IInv, LedgersOK, NEW u \in Users, GrantPoints(u)
    PROVE  LedgersOK'
<1>1. Made' = Made /\ (\A v : Mine(v)' = Mine(v)) /\ Entries' = Entries
  BY DEF GrantPoints, Made, Mine, Entries
<1>2. ASSUME NEW v \in Users
      PROVE  balance'[v] = granted'[v] + Total(Entries, Mine(v))
  <2>1. PICK t : t = Total(Entries, Mine(v)) /\ t \in Int
    BY MineIsFinite, TotalSplits, Zenon
  <2>2. balance[v] = granted[v] + t /\ granted[v] \in Nat
    BY <2>1 DEF LedgersOK, IInv, TypeOK
  <2>3. balance'[v] = granted'[v] + t
    BY <2>1, <2>2 DEF GrantPoints, IInv, TypeOK
  <2> QED
    BY <2>1, <2>3
<1> QED
  BY <1>1, <1>2 DEF LedgersOK

\* cancelBooking and reevaluateBookings pay a refund where none was paid, or 0.
LEMMA LedgersRefund ==
    ASSUME IInv, TypeOK', LedgersOK, NEW b \in BookingIds, NEW amount \in Nat,
           AppendBookingRefund(b, amount), UNCHANGED <<deduction, granted>>,
           booking[b].status # "NONE", booking'[b].status # "NONE",
           booking'[b].user = booking[b].user,
           \A c \in BookingIds \ {b} : booking'[c] = booking[c],
           refund[b] = 0
    PROVE  LedgersOK'
<1>1. booking[b].user \in Users
  BY DEF IInv, RowsOK
<1>2. \A c \in BookingIds :
        /\ booking'[c].user = booking[c].user
        /\ booking'[c].status = "NONE" <=> booking[c].status = "NONE"
        /\ deduction'[c] = deduction[c]
  OBVIOUS
<1>3. \A c \in BookingIds :
        refund'[c] = IF c = b THEN refund[c] + amount ELSE refund[c]
  BY DEF AppendBookingRefund, IInv, TypeOK
<1>4. \A u \in Users :
        balance'[u] = IF u = booking[b].user THEN balance[u] + amount
                      ELSE balance[u]
  BY <1>1 DEF AppendBookingRefund, IInv, TypeOK
<1> QED
  BY <1>1, <1>2, <1>3, <1>4, LedgersPay

\* The commits of a request; completeBooking writes no entry.
LEMMA LedgersStep ==
    ASSUME IInv, TypeOK', LedgersOK, NEW p \in Requests, Step(p)
    PROVE  LedgersOK'
<1> USE DEF tables, ledger
<1>0. booking \in [BookingIds -> Row] /\ req[p] \in Request /\ TypeOK
  BY DEF IInv, TypeOK
<1>1. CASE CommitCreate(p)
  <2>1. req[p].user \in Users /\ req[p].cost \in Nat
    BY <1>0, <1>1, RequestCases DEF CommitCreate, CreateReady
  <2>2. PICK b \in BookingIds :
          /\ booking[b].status = "NONE"
          /\ booking' = [booking EXCEPT ![b] =
               [status |-> "CONFIRMED", user |-> req[p].user, slot |-> req[p].slot,
                notice |-> req[p].notice, cancelledBy |-> None]]
          /\ deduction' = [deduction EXCEPT ![b] = req[p].cost]
    BY <1>1 DEF CommitCreate
  <2>3. /\ booking'[b].user = req[p].user /\ booking'[b].status # "NONE"
        /\ \A c \in BookingIds \ {b} : booking'[c] = booking[c]
    BY <1>0, <2>2
  <2>4. /\ deduction'[b] = req[p].cost
        /\ \A c \in BookingIds \ {b} : deduction'[c] = deduction[c]
    BY <1>0, <2>2 DEF TypeOK
  <2>5. UNCHANGED <<refund, granted>>
    BY <1>1 DEF CommitCreate
  <2>6. \A u \in Users : balance'[u] =
           IF u = req[p].user THEN balance[u] - req[p].cost ELSE balance[u]
    BY <1>0, <1>1, <2>1 DEF CommitCreate, TypeOK
  <2> QED
    BY <2>1, <2>2, <2>3, <2>4, <2>5, <2>6, LedgersCreate
<1>2. CASE CommitCancel(p)
  <2> DEFINE b == req[p].booking
             amount == RefundPoints(b, req[p].byUser)
  <2>1. b \in BookingIds /\ req[p].byUser \in BOOLEAN
    BY <1>0, <1>2, RequestCases DEF CommitCancel, CancelRead
  <2>2. amount \in Nat
    BY <1>0, <2>1, RefundTyped
  <2>3. /\ booking[b].status = "CONFIRMED"
        /\ booking' = [booking EXCEPT ![b].status = "CANCELLED",
                                      ![b].cancelledBy = req[p].actor]
        /\ AppendBookingRefund(b, amount)
        /\ UNCHANGED <<deduction, granted>>
    BY <1>2 DEF CommitCancel
  <2>4. refund[b] = 0
    BY <2>1, <2>3 DEF IInv, RefundsAreDue
  <2> HIDE DEF amount
  <2>5. /\ booking'[b].user = booking[b].user /\ booking'[b].status # "NONE"
        /\ \A c \in BookingIds \ {b} : booking'[c] = booking[c]
    BY <1>0, <2>1, <2>3 DEF Row
  <2> QED
    BY <2>1, <2>2, <2>3, <2>4, <2>5, LedgersRefund
<1>3. ASSUME NEW b \in BookingIds, ReevaluateOne(p, b)
      PROVE  LedgersOK'
  <2>1. /\ booking' = [booking EXCEPT ![b].status = "CANCELLED"]
        /\ AppendBookingRefund(b, deduction[b])
        /\ UNCHANGED <<deduction, granted>>
        /\ Reevaluable(b)
        /\ booking[b].status # "NONE"
    BY <1>3 DEF ReevaluateOne, RefundPoints, IInv, RequestsOK
  <2>2. deduction[b] \in Nat
    BY <1>0 DEF TypeOK
  <2>3. refund[b] = 0
    <3>1. CASE deduction[b] > 0
      BY <2>1, <3>1 DEF Reevaluable
    <3>2. CASE deduction[b] = 0
      <4>1. refund[b] \in Nat
        BY <1>0 DEF TypeOK
      <4>2. refund[b] = 0 \/ refund[b] <= deduction[b]
        BY DEF IInv, RefundsAreDue
      <4> QED
        BY <3>2, <4>1, <4>2
    <3> QED
      BY <2>2, <3>1, <3>2
  <2>4. /\ booking'[b].user = booking[b].user /\ booking'[b].status # "NONE"
        /\ \A c \in BookingIds \ {b} : booking'[c] = booking[c]
    BY <1>0, <2>1 DEF Row
  <2> QED
    BY <2>1, <2>2, <2>3, <2>4, LedgersRefund
<1>4. CASE CommitComplete(p)
  <2> DEFINE b == req[p].booking
  <2>1. b \in BookingIds
    BY <1>0, <1>4, RequestCases DEF CommitComplete, CompleteRead
  <2>2. booking[b].status # "NONE"
    BY <1>4 DEF CommitComplete, IInv, RequestsOK
  <2>3. /\ booking' = booking \/ booking' = [booking EXCEPT ![b].status = "COMPLETED"]
        /\ UNCHANGED <<deduction, refund, granted, balance>>
    BY <1>4 DEF CommitComplete
  <2>4. \A c \in BookingIds :
          /\ booking'[c].user = booking[c].user
          /\ booking'[c].status = "NONE" <=> booking[c].status = "NONE"
    BY <1>0, <2>1, <2>2, <2>3 DEF Row
  <2> QED
    BY <2>3, <2>4, LedgersKeep
<1>5. \/ CommitCreate(p) \/ CommitCancel(p) \/ CommitComplete(p)
      \/ \E b \in BookingIds : ReevaluateOne(p, b)
      \/ UNCHANGED <<booking, deduction, refund, granted, balance>>
  BY DEF Step, ValidateBooking, UniqueConflict, LedgerConflict,
         SerializationConflict, CancelConflict, ReevaluateAborts, ReevaluateEnds,
         CommitCreateSlot
<1> QED
  BY <1>1, <1>2, <1>3, <1>4, <1>5, LedgersKeep

\* The balance that the trigger keeps for a user is the sum of the user's ledger,
\* whatever creates, cancellations, completions, reevaluations and grants are
\* interleaved, and it never goes below zero: no refund is written twice and no
\* deduction is lost, for any number of users, bookings and requests.
THEOREM BalancesAreLedgerSums == Spec => []BalanceIsLedgerSum
<1>1. Init => LedgersOK
  <2> SUFFICES ASSUME Init PROVE LedgersOK
    OBVIOUS
  <2>1. Made = {} /\ \A u \in Users : Mine(u) = {}
    BY DEF Init, Made, Mine, NoRow
  <2>2. \A u \in Users : balance[u] = granted[u] + 0
    BY DEF Init
  <2> QED
    BY <2>1, <2>2, FS_EmptySet, TotalOfNone DEF LedgersOK
<1>2. IInv /\ LedgersOK /\ [Next]_vars => LedgersOK'
  <2> SUFFICES ASSUME IInv, LedgersOK, [Next]_vars PROVE LedgersOK'
    OBVIOUS
  <2>0. TypeOK'
    BY NextTypeOK DEF IInv
  <2>1. ASSUME NEW p \in Requests, Step(p) PROVE LedgersOK'
    BY <2>0, <2>1, LedgersStep
  <2>2. ASSUME NEW u \in Users, GrantPoints(u) PROVE LedgersOK'
    BY <2>2, LedgersGrant
  <2>3. ASSUME NEW p \in Requests, Arrive(p)
        PROVE  UNCHANGED <<booking, deduction, refund, granted, balance>>
    BY <2>3 DEF Arrive, RequestBooking, BeginCancel, BeginComplete,
         BeginReevaluate, BeginCreateSlot, tables, ledger
  <2>4. ASSUME Environment
        PROVE  \/ \E u \in Users : GrantPoints(u)
               \/ UNCHANGED <<booking, deduction, refund, granted, balance>>
    BY <2>4 DEF Environment, UpdateResource, UpdateAllowedOrganizations,
         RemoveResource, LoseTrigger, RemoveMembership, Tick, Interrupt, tables,
         ledger
  <2>5. UNCHANGED vars => UNCHANGED <<booking, deduction, refund, granted, balance>>
    BY DEF vars
  <2> QED
    BY <2>1, <2>2, <2>3, <2>4, <2>5, LedgersKeep DEF Next
<1>3. IInv /\ LedgersOK => BalanceIsLedgerSum
  <2> SUFFICES ASSUME IInv, LedgersOK, NEW u \in Users
               PROVE  balance[u] = LedgerSum(u) /\ balance[u] >= 0
    BY DEF BalanceIsLedgerSum
  <2>1. balance[u] = LedgerSum(u)
    BY LedgerSumIsTotal DEF LedgersOK
  <2>2. balance[u] \in Nat
    BY DEF IInv, TypeOK
  <2> QED
    BY <2>1, <2>2
<1> QED
  BY <1>1, <1>2, <1>3, AlwaysIInv, PTL DEF Spec

=============================================================================
