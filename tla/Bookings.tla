------------------------------ MODULE Bookings ------------------------------
(***************************************************************************)
(* The booking core of ResourceHive: the bookings, slots and point ledger  *)
(* of services/booking-service, the part of services/resource-service that *)
(* changes the resources bookings are made on, and the PostgreSQL          *)
(* constraints and isolation levels both rely on.                          *)
(*                                                                         *)
(* Every HTTP request runs as a process of Requests.  A request that reads *)
(* and later writes is split at the point where another transaction can    *)
(* commit in between:                                                      *)
(*   - createBooking is one SERIALIZABLE transaction: all its reads see    *)
(*     the snapshot of ValidateBooking, its writes appear in CommitCreate; *)
(*   - cancelBooking is one READ COMMITTED transaction whose reads         *)
(*     (BeginCancel) are not repeated when its guarded UPDATE runs         *)
(*     (CommitCancel);                                                     *)
(*   - completeBooking is two statements in no transaction;                *)
(*   - reevaluateBookings reads all bookings of a resource once, then runs *)
(*     one transaction for each booking that lost access.                  *)
(***************************************************************************)
EXTENDS Integers, FiniteSets, FiniteSetsExt

CONSTANTS
    Users, Orgs, Resources, Slots, BookingIds, Requests,
    None,               \* no user, no slot
    Owner,              \* [Resources -> Orgs]: ownerOrganizationId
    Ancestors,          \* [Orgs -> SUBSET Orgs]: an organization and its parents
    Admins,             \* [Orgs -> SUBSET Users]: ADMIN memberships
    SlotResource,       \* [Slots -> Resources]
    StartsAt, EndsAt,   \* [Slots -> Nat]
    MAX_SERIALIZATION_ATTEMPTS, \* 3 in booking.service.ts
    MaxTime,            \* bound of the clock
    Costs, Notices,     \* values of pointCost and cancellationNoticeMinutes
    InitialPoints,      \* points every user holds at first
    MaxGrants,          \* bound of the points granted later to one user
    Leavers,            \* bound: the users whose memberships may be removed
    UpdateStatuses,     \* bound: the statuses an update may give a resource
    MaxTriggers,        \* bound of the reevaluation calls under way at once
    Unreliable          \* may calls be lost and requests die half-way?

ASSUME ConstantsAssumption ==
    /\ Owner \in [Resources -> Orgs]
    /\ Ancestors \in [Orgs -> SUBSET Orgs]
    /\ \A o \in Orgs : o \in Ancestors[o]
    /\ Admins \in [Orgs -> SUBSET Users]
    /\ SlotResource \in [Slots -> Resources]
    /\ StartsAt \in [Slots -> Nat]
    /\ EndsAt \in [Slots -> Nat]
    /\ MAX_SERIALIZATION_ATTEMPTS \in Nat \ {0}
    /\ MaxTime \in Nat
    /\ Leavers \subseteq Users
    /\ UpdateStatuses \subseteq {"ACTIVE", "INACTIVE"}
    /\ Costs \subseteq Nat /\ Costs # {}
    /\ Notices \subseteq Nat /\ Notices # {}
    /\ InitialPoints \in Nat
    /\ MaxGrants \in Nat
    /\ MaxTriggers \in Nat
    /\ Unreliable \in BOOLEAN
    /\ None \notin Users /\ None \notin Slots

VARIABLES
    now,        \* the clock, in the unit of StartsAt
    resource,   \* table resources, with its allowed organizations
    approved,   \* APPROVED memberships: the organizations of each user
    slot,       \* status of each row of resource_slots
    booking,    \* table bookings
    deduction,  \* BOOKING entry of the ledger for each booking, 0: none
    refund,     \* BOOKING_REFUND entry of the ledger for each booking, 0: none
    granted,    \* JOIN_BONUS and SEMESTER_ALLOCATION entries of each user
    balance,    \* projection user_point_balances, kept by a trigger
    triggers,   \* calls of /bookings/internal/reevaluate under way
    req         \* what each request has read and not yet written

ledger == <<deduction, refund, granted, balance>>
tables == <<now, resource, approved, slot, booking, ledger, triggers>>
vars == <<now, resource, approved, slot, booking, deduction, refund, granted,
          balance, triggers, req>>

-----------------------------------------------------------------------------
(* Rows and requests *)

BookingStatus == {"CONFIRMED", "CANCELLED", "COMPLETED"}
SlotStatus == {"PUBLISHED", "WITHDRAWN"}

Row == [status : BookingStatus \cup {"NONE"}, user : Users \cup {None},
        slot : Slots \cup {None}, notice : Nat, cancelledBy : Users \cup {None}]
NoRow == [status |-> "NONE", user |-> None, slot |-> None, notice |-> 0,
          cancelledBy |-> None]

ResourceRow == [status : {"ACTIVE", "INACTIVE"}, pointCost : Nat,
                notice : Nat, allowed : SUBSET Orgs]

Attempt == 1..MAX_SERIALIZATION_ATTEMPTS

Idle == [op |-> "idle"]
CreateBegun == [op : {"begun"}, user : Users, slot : Slots, attempt : Attempt]
CreateReady == [op : {"ready"}, user : Users, slot : Slots, attempt : Attempt,
                cost : Nat, notice : Nat,
                ssi : BOOLEAN,      \* a conflicting SERIALIZABLE commit since
                touched : BOOLEAN]  \* the user's balance row changed since
CancelRead == [op : {"cancel"}, booking : BookingIds, actor : Users,
               byUser : BOOLEAN, slotStatus : SlotStatus]
CompleteRead == [op : {"complete"}, booking : BookingIds]
ReevaluateRead == [op : {"reevaluate"}, resource : Resources,
                   todo : SUBSET BookingIds]
SlotRead == [op : {"slot"}, slot : Slots]

Request == {Idle} \cup CreateBegun \cup CreateReady \cup CancelRead
             \cup CompleteRead \cup ReevaluateRead \cup SlotRead

-----------------------------------------------------------------------------
(* What the code asks of the tables *)

\* Statuses under the partial unique index, those findById counts as taken.
ActiveStatusConfirmedOnly == {"CONFIRMED"}
ActiveStatus == {"CONFIRMED", "COMPLETED"}

Active(b) == booking[b].status \in ActiveStatus

Taken(s) == \E b \in BookingIds : Active(b) /\ booking[b].slot = s

CanAccess(u, r) ==
    /\ resource[r].status = "ACTIVE"
    /\ approved[u] \cap ({Owner[r]} \cup resource[r].allowed) # {}

IsAdministrator(u, o) == u \in Admins[o] /\ o \in approved[u]

CanManage(u, r) ==
    /\ resource[r].status = "ACTIVE"
    /\ \E o \in Ancestors[Owner[r]] : IsAdministrator(u, o)

\* SUM(amount) over the ledger entries of a user.
LedgerSum(u) ==
    LET mine == {b \in BookingIds : booking[b].user = u}
    IN  granted[u] + MapThenSumSet(LAMBDA b : refund[b] - deduction[b], mine)

\* Every check of validateBooking, in one snapshot.
Bookable(u, s) ==
    LET r == SlotResource[s]
    IN  /\ slot[s] = "PUBLISHED"
        /\ CanAccess(u, r)
        /\ StartsAt[s] > now
        /\ ~Taken(s)
        /\ LedgerSum(u) >= resource[r].pointCost

\* A user gets half of the deduction back, rounded up; anyone else all of it.
FloorRefund(b, byUser) ==
    IF byUser THEN deduction[b] \div 2 ELSE deduction[b]
RefundPoints(b, byUser) ==
    IF byUser THEN (deduction[b] + 1) \div 2 ELSE deduction[b]

\* A statement elsewhere that PostgreSQL reports to in-flight SERIALIZABLE
\* transactions: any ledger entry of u changes u's balance row.
TouchBalance(q, u) ==
    IF q.op = "ready" /\ q.user = u THEN [q EXCEPT !.touched = TRUE] ELSE q

-----------------------------------------------------------------------------
(* Effects shared by the transactions *)

Become(p, q) == req' = [req EXCEPT ![p] = q]
End(p) == Become(p, Idle)

\* One BOOKING_REFUND entry, and the trigger's INSERT ... ON CONFLICT DO UPDATE.
\* No entry is written for an amount of 0.
RefundWithoutBalance(b, amount) ==
    /\ refund' = [refund EXCEPT ![b] = amount]
    /\ UNCHANGED balance
AppendBookingRefund(b, amount) ==
    /\ refund' = [refund EXCEPT ![b] = amount]
    /\ balance' = [balance EXCEPT ![booking[b].user] = @ + amount]

\* Requests after p ends with a ledger entry of u (if amount > 0).
EndTouching(p, u, amount, next) ==
    req' = [q \in Requests |->
              IF q = p THEN next
              ELSE IF amount > 0 THEN TouchBalance(req[q], u) ELSE req[q]]

\* After the SERIALIZABLE transaction t (a CreateReady record) commits, another
\* in-flight one has a read-write conflict with it in both directions if both
\* book the same slot, or both read and append to the ledger of one user.
NoConflicts(q, t) == FALSE
Conflicts(q, t) ==
    /\ q.op = "ready"
    /\ \/ q.slot = t.slot
       \/ q.user = t.user /\ q.cost > 0 /\ t.cost > 0

NotifyCommit(q, t) ==
    LET q1 == IF t.cost > 0 THEN TouchBalance(q, t.user) ELSE q
    IN  IF Conflicts(q, t) THEN [q1 EXCEPT !.ssi = TRUE] ELSE q1

-----------------------------------------------------------------------------
(* createBooking *)

RequestBooking(p, u, s) ==
    /\ req[p] = Idle
    /\ slot[s] # "NONE"
    /\ Become(p, [op |-> "begun", user |-> u, slot |-> s, attempt |-> 1])
    /\ UNCHANGED tables

\* An attempt takes its snapshot and validates; a failed check ends the request.
ValidateBooking(p) ==
    /\ req[p].op = "begun"
    /\ LET q == req[p]
           r == resource[SlotResource[q.slot]]
       IN  Become(p, IF Bookable(q.user, q.slot)
                     THEN [op |-> "ready", user |-> q.user, slot |-> q.slot,
                           attempt |-> q.attempt, cost |-> r.pointCost,
                           notice |-> r.notice, ssi |-> FALSE, touched |-> FALSE]
                     ELSE Idle)
    /\ UNCHANGED tables

\* INSERT the booking and its deduction, COMMIT.
CommitCreate(p) ==
    /\ req[p].op = "ready"
    /\ LET q == req[p]
       IN  /\ ~q.ssi
           /\ ~Taken(q.slot)
           /\ q.cost > 0 => ~q.touched /\ balance[q.user] >= q.cost
           /\ \E b \in BookingIds :
                /\ booking[b].status = "NONE"
                /\ booking' = [booking EXCEPT ![b] =
                     [status |-> "CONFIRMED", user |-> q.user, slot |-> q.slot,
                      notice |-> q.notice, cancelledBy |-> None]]
                /\ deduction' = [deduction EXCEPT ![b] = q.cost]
           /\ balance' = [balance EXCEPT ![q.user] = @ - q.cost]
           /\ req' = [o \in Requests |->
                        IF o = p THEN Idle ELSE NotifyCommit(req[o], q)]
    /\ UNCHANGED <<now, resource, approved, slot, refund, granted, triggers>>

\* P2002 from the unique index on active bookings: no retry.
UniqueConflict(p) ==
    /\ req[p].op = "ready"
    /\ Taken(req[p].slot)
    /\ End(p)
    /\ UNCHANGED tables

\* The ledger append fails: the balance row changed since the snapshot or is
\* too low.  PointLedgerService wraps the error, so createBooking gives up.
LedgerConflict(p) ==
    /\ req[p].op = "ready"
    /\ req[p].cost > 0
    /\ req[p].touched \/ balance[req[p].user] < req[p].cost
    /\ End(p)
    /\ UNCHANGED tables

\* The loop of createBooking after P2034.
SameAttempt(q) ==
    [op |-> "begun", user |-> q.user, slot |-> q.slot, attempt |-> q.attempt]
NextAttempt(q) ==
    IF q.attempt = MAX_SERIALIZATION_ATTEMPTS THEN Idle
    ELSE [op |-> "begun", user |-> q.user, slot |-> q.slot,
          attempt |-> q.attempt + 1]

\* P2034 from the INSERT of the booking or from COMMIT.  PostgreSQL may also
\* report a conflict that is not one, so it needs no cause here.
SerializationConflict(p) ==
    /\ req[p].op = "ready"
    /\ Become(p, NextAttempt(req[p]))
    /\ UNCHANGED tables

-----------------------------------------------------------------------------
(* cancelBooking.  m is makeSlotAvailable: undefined, true or false. *)

\* The notice period the booking was made under.
NoticePeriod(b) == booking[b].notice

BeginCancel(p, a, b, m) ==
    /\ req[p] = Idle
    /\ booking[b].status = "CONFIRMED"
    /\ LET byUser == booking[b].user = a /\ m = "undefined"
           s == booking[b].slot
       IN  /\ IF byUser
              THEN now < StartsAt[s] - NoticePeriod(b)
              ELSE /\ IsAdministrator(a, Owner[SlotResource[s]])
                   /\ m # "undefined"
           /\ Become(p, [op |-> "cancel", booking |-> b, actor |-> a,
                         byUser |-> byUser,
                         slotStatus |-> IF byUser \/ m = "true"
                                        THEN "PUBLISHED" ELSE "WITHDRAWN"])
    /\ UNCHANGED tables

\* UPDATE ... WHERE status = 'CONFIRMED'; no row means a conflict.
CommitCancel(p) ==
    /\ req[p].op = "cancel"
    /\ LET q == req[p]
           b == q.booking
           amount == RefundPoints(b, q.byUser)
       IN  /\ booking[b].status = "CONFIRMED"
           /\ booking' = [booking EXCEPT ![b].status = "CANCELLED",
                                         ![b].cancelledBy = q.actor]
           /\ slot' = [slot EXCEPT ![booking[b].slot] = q.slotStatus]
           /\ AppendBookingRefund(b, amount)
           /\ EndTouching(p, booking[b].user, amount, Idle)
    /\ UNCHANGED <<now, resource, approved, deduction, granted, triggers>>

CancelConflict(p) ==
    /\ req[p].op = "cancel"
    /\ booking[req[p].booking].status # "CONFIRMED"
    /\ End(p)
    /\ UNCHANGED tables

-----------------------------------------------------------------------------
(* completeBooking *)

BeginComplete(p, a, b) ==
    /\ req[p] = Idle
    /\ booking[b].status = "CONFIRMED"
    /\ IsAdministrator(a, Owner[SlotResource[booking[b].slot]])
    /\ Become(p, [op |-> "complete", booking |-> b])
    /\ UNCHANGED tables

\* The UPDATE names only the id; bookings_cancellation_check is what refuses a
\* row cancelled meanwhile (its cancelled_at is set).
CompletableAlways(b) == TRUE
Completable(b) == booking[b].status # "CANCELLED"

CommitComplete(p) ==
    /\ req[p].op = "complete"
    /\ LET b == req[p].booking
       IN  booking' = IF Completable(b)
                      THEN [booking EXCEPT ![b].status = "COMPLETED"]
                      ELSE booking
    /\ End(p)
    /\ UNCHANGED <<now, resource, approved, slot, ledger, triggers>>

-----------------------------------------------------------------------------
(* reevaluateBookings, the internal endpoint of the resource service *)

BeginReevaluate(p, r) ==
    /\ req[p] = Idle
    /\ triggers[r] > 0
    /\ triggers' = [triggers EXCEPT ![r] = @ - 1]
    /\ LET lost == {b \in BookingIds :
                      /\ booking[b].status = "CONFIRMED"
                      /\ SlotResource[booking[b].slot] = r
                      /\ StartsAt[booking[b].slot] > now
                      /\ ~CanAccess(booking[b].user, r)}
       IN  Become(p, [op |-> "reevaluate", resource |-> r, todo |-> lost])
    /\ UNCHANGED <<now, resource, approved, slot, booking, ledger>>

\* Whether the transaction for booking b commits: bookings_completion_check
\* refuses a completed row, and the unique index on refunds a second refund.
ReevaluableAlways(b) == TRUE
Reevaluable(b) ==
    /\ booking[b].status # "COMPLETED"
    /\ deduction[b] > 0 => refund[b] = 0

\* One booking of the batch, in no order the code fixes.  The UPDATE does not
\* look at the status read in the transaction.
ReevaluateOne(p, b) ==
    /\ req[p].op = "reevaluate"
    /\ b \in req[p].todo
    /\ Reevaluable(b)
    /\ booking' = [booking EXCEPT ![b].status = "CANCELLED"]
    /\ slot' = [slot EXCEPT ![booking[b].slot] = "WITHDRAWN"]
    /\ AppendBookingRefund(b, RefundPoints(b, FALSE))
    /\ EndTouching(p, booking[b].user, RefundPoints(b, FALSE),
                   [req[p] EXCEPT !.todo = @ \ {b}])
    /\ UNCHANGED <<now, resource, approved, deduction, granted, triggers>>

\* A failing transaction leaves the loop: the rest of the batch is not done.
ReevaluateAborts(p, b) ==
    /\ req[p].op = "reevaluate"
    /\ b \in req[p].todo
    /\ ~Reevaluable(b)
    /\ End(p)
    /\ UNCHANGED tables

ReevaluateEnds(p) ==
    /\ req[p].op = "reevaluate"
    /\ req[p].todo = {}
    /\ End(p)
    /\ UNCHANGED tables

-----------------------------------------------------------------------------
(* SlotsService.create *)

BeginCreateSlot(p, a, s) ==
    /\ req[p] = Idle
    /\ slot[s] = "NONE"
    /\ EndsAt[s] > StartsAt[s]
    /\ CanManage(a, SlotResource[s])
    /\ Become(p, [op |-> "slot", slot |-> s])
    /\ UNCHANGED tables

\* resource_slots_no_overlap has no status: withdrawn slots keep their time.
Overlaps(s, t) ==
    /\ SlotResource[s] = SlotResource[t]
    /\ StartsAt[s] < EndsAt[t]
    /\ StartsAt[t] < EndsAt[s]

\* The transaction looks again for an ACTIVE resource (404 without one); the
\* exclusion constraint refuses an overlap (409).
CommitCreateSlot(p) ==
    /\ req[p].op = "slot"
    /\ LET s == req[p].slot
       IN  slot' = IF /\ resource[SlotResource[s]].status = "ACTIVE"
                      /\ ~\E t \in Slots : slot[t] # "NONE" /\ Overlaps(s, t)
                   THEN [slot EXCEPT ![s] = "PUBLISHED"]
                   ELSE slot
    /\ End(p)
    /\ UNCHANGED <<now, resource, approved, booking, ledger, triggers>>

-----------------------------------------------------------------------------
(* ResourcesService: only an update of the allowed organizations, and the  *)
(* removal, call /bookings/internal/reevaluate, and do not wait for it.    *)

UpdateResource(r, cost, notice, status) ==
    /\ resource' = [resource EXCEPT ![r].pointCost = cost, ![r].notice = notice,
                                    ![r].status = status]
    /\ UNCHANGED <<now, approved, slot, booking, ledger, triggers, req>>

UpdateAllowedOrganizations(r, allowed) ==
    /\ triggers[r] < MaxTriggers
    /\ resource' = [resource EXCEPT ![r].allowed = {Owner[r]} \cup allowed]
    /\ triggers' = [triggers EXCEPT ![r] = @ + 1]
    /\ UNCHANGED <<now, approved, slot, booking, ledger, req>>

RemoveResource(r) ==
    /\ triggers[r] < MaxTriggers
    /\ resource' = [resource EXCEPT ![r].status = "INACTIVE"]
    /\ triggers' = [triggers EXCEPT ![r] = @ + 1]
    /\ UNCHANGED <<now, approved, slot, booking, ledger, req>>

-----------------------------------------------------------------------------
(* The rest of the system, as the booking service sees it *)

\* MembershipsService.removeMembership: bookings are not re-evaluated.
RemoveMembership(u, o) ==
    /\ o \in approved[u]
    /\ approved' = [approved EXCEPT ![u] = @ \ {o}]
    /\ UNCHANGED <<now, resource, slot, booking, ledger, triggers, req>>

\* A JOIN_BONUS or SEMESTER_ALLOCATION entry of one point.
GrantPoints(u) ==
    /\ granted[u] < InitialPoints + MaxGrants
    /\ granted' = [granted EXCEPT ![u] = @ + 1]
    /\ balance' = [balance EXCEPT ![u] = @ + 1]
    /\ req' = [q \in Requests |-> TouchBalance(req[q], u)]
    /\ UNCHANGED <<now, resource, approved, slot, booking, deduction, refund,
                   triggers>>

Tick ==
    /\ now < MaxTime
    /\ now' = now + 1
    /\ UNCHANGED <<resource, approved, slot, booking, ledger, triggers, req>>

\* fetch fails, or the booking service is down: the error is only logged.
LoseTrigger(r) ==
    /\ Unreliable
    /\ triggers[r] > 0
    /\ triggers' = [triggers EXCEPT ![r] = @ - 1]
    /\ UNCHANGED <<now, resource, approved, slot, booking, ledger, req>>

\* A request dies before it commits: crash, timeout of the transaction, or a
\* statement error that a handler turns into a failure of the request.
Interrupt(p) ==
    /\ Unreliable
    /\ req[p] # Idle
    /\ End(p)
    /\ UNCHANGED tables

-----------------------------------------------------------------------------
Init ==
    /\ now = 0
    /\ resource \in [Resources -> {[status |-> "ACTIVE", pointCost |-> c,
                                    notice |-> n, allowed |-> Orgs] :
                                      c \in Costs, n \in Notices}]
    /\ approved = [u \in Users |-> Orgs]
    /\ slot = [s \in Slots |-> "NONE"]
    /\ booking = [b \in BookingIds |-> NoRow]
    /\ deduction = [b \in BookingIds |-> 0]
    /\ refund = [b \in BookingIds |-> 0]
    /\ granted = [u \in Users |-> InitialPoints]
    /\ balance = [u \in Users |-> InitialPoints]
    /\ triggers = [r \in Resources |-> 0]
    /\ req = [p \in Requests |-> Idle]

\* A new request from a user, an administrator or the resource service.
Arrive(p) ==
    \/ \E u \in Users, s \in Slots : RequestBooking(p, u, s)
    \/ \E a \in Users, b \in BookingIds, m \in {"undefined", "true", "false"} :
          BeginCancel(p, a, b, m)
    \/ \E a \in Users, b \in BookingIds : BeginComplete(p, a, b)
    \/ \E r \in Resources : BeginReevaluate(p, r)
    \/ \E a \in Users, s \in Slots : BeginCreateSlot(p, a, s)

\* A step of a request that has arrived.
Step(p) ==
    \/ ValidateBooking(p)
    \/ CommitCreate(p)
    \/ UniqueConflict(p)
    \/ LedgerConflict(p)
    \/ SerializationConflict(p)
    \/ CommitCancel(p)
    \/ CancelConflict(p)
    \/ CommitComplete(p)
    \/ \E b \in BookingIds : ReevaluateOne(p, b) \/ ReevaluateAborts(p, b)
    \/ ReevaluateEnds(p)
    \/ CommitCreateSlot(p)

\* What happens around the requests.
Environment ==
    \/ \E r \in Resources, c \in Costs, n \in Notices,
          st \in UpdateStatuses : UpdateResource(r, c, n, st)
    \/ \E r \in Resources, allowed \in SUBSET Orgs :
          UpdateAllowedOrganizations(r, allowed)
    \/ \E r \in Resources : RemoveResource(r) \/ LoseTrigger(r)
    \/ \E u \in Leavers, o \in Orgs : RemoveMembership(u, o)
    \/ \E u \in Users : GrantPoints(u)
    \/ Tick
    \/ \E p \in Requests : Interrupt(p)

Next == (\E p \in Requests : Arrive(p) \/ Step(p)) \/ Environment

Spec == Init /\ [][Next]_vars

\* Node's event loop and the database keep serving a request that has arrived:
\* every request takes its next step eventually.
FairSpec == Spec /\ \A p \in Requests : WF_vars(Step(p))

-----------------------------------------------------------------------------
(* Properties *)

\* Tables and requests keep their types: in particular no projected balance goes
\* below zero, and no booking is tried more often than createBooking allows.
TypeOK ==
    /\ now \in Nat
    /\ resource \in [Resources -> ResourceRow]
    /\ approved \in [Users -> SUBSET Orgs]
    /\ slot \in [Slots -> SlotStatus \cup {"NONE"}]
    /\ booking \in [BookingIds -> Row]
    /\ deduction \in [BookingIds -> Nat]
    /\ refund \in [BookingIds -> Nat]
    /\ granted \in [Users -> Nat]
    /\ balance \in [Users -> Nat]
    /\ triggers \in [Resources -> Nat]
    /\ req \in [Requests -> Request]

\* A booking that was made and not cancelled holds its slot.
Holds(b) == booking[b].status \in {"CONFIRMED", "COMPLETED"}

\* No slot is ever held by two bookings, whatever requests race: a completed
\* booking keeps its slot (createBooking, completeBooking, the unique index).
OneActiveBookingPerSlot ==
    \A b, c \in BookingIds :
        Holds(b) /\ Holds(c) /\ booking[b].slot = booking[c].slot => b = c

\* The projection user_point_balances, which the trigger maintains row by row,
\* is the sum of the ledger, which createBooking trusts; it never goes negative.
BalanceIsLedgerSum ==
    \A u \in Users : balance[u] = LedgerSum(u) /\ balance[u] >= 0

\* Points come back exactly when a booking is cancelled, once: all of them, or
\* at least half if the owner cancelled.  No race of cancelBooking,
\* completeBooking and reevaluateBookings pays twice or pays a completed one.
RefundsAreDue ==
    \A b \in BookingIds :
        /\ booking[b].status # "CANCELLED" => refund[b] = 0
        /\ booking[b].status = "CANCELLED" =>
              /\ refund[b] <= deduction[b]
              /\ 2 * refund[b] >= deduction[b]
              /\ booking[b].cancelledBy # booking[b].user
                    => refund[b] = deduction[b]

\* The types, which bound the attempts and keep balances from going below zero,
\* and refunds, which no race pays twice (createBooking, cancelBooking).
BookingsAreSound == TypeOK /\ RefundsAreDue

\* A booking is on a slot that is still offered.  Holds as long as nothing
\* triggers reevaluateBookings (MaxTriggers = 0).
ActiveSlotIsPublished ==
    \A b \in BookingIds : Holds(b) => slot[booking[b].slot] = "PUBLISHED"

\* A cancelled or completed booking stays so: completeBooking and
\* reevaluateBookings, which UPDATE by id only, never revive or overturn it.
TerminalStatusIsFinal ==
    [][\A b \in BookingIds :
         booking[b].status \in {"CANCELLED", "COMPLETED"} =>
            booking'[b].status = booking[b].status]_vars

\* A slot is withdrawn only together with the booking that holds it: a batch of
\* reevaluateBookings that read a booking before its owner cancelled it does not
\* withdraw the slot again under whoever booked it since.  The exception is a
\* booking that cost nothing, which no refund row protects.
SlotsGoWithTheirBooking ==
    [][\A s \in Slots :
         slot[s] = "PUBLISHED" /\ slot'[s] = "WITHDRAWN" =>
            \E b \in BookingIds :
               /\ booking[b].slot = s /\ booking'[b].status = "CANCELLED"
               /\ booking[b].status = "CONFIRMED" \/ deduction[b] = 0]_vars

\* The detailed service implements Reservation: slots are reserved, released
\* and used up one booking at a time, whatever the requests do in between.
R == INSTANCE Reservation WITH
        holders <- [s \in Slots |-> {b \in BookingIds :
                                       Holds(b) /\ booking[b].slot = s}],
        used <- {b \in BookingIds : booking[b].status # "NONE"},
        finished <- {b \in BookingIds : booking[b].status = "COMPLETED"}

ImplementsReservation == R!Spec

\* createBooking retries a bounded number of times and every other request
\* ends too, whatever the other requests do.
RequestsEnd == \A p \in Requests : (req[p] # Idle) ~> (req[p] = Idle)

=============================================================================
