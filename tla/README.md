# A TLA+ verification of ResourceHive

ResourceHive lets the members of a university and its sub-organizations book
shared resources with points. This directory holds TLA+ models of the parts of
it that decide something, TLC configurations that check them on small instances
and TLAPS proofs of what matters most for instances of any size.
`PROJECT.json` maps every definition to the lines it models and lists runs,
mutants, hazards and theorems.

Contents: 1 the system; 2 modules and code; 3 runs; 4 bounds; 5 fairness;
6 proofs; 7 disagreements found; 8 not modelled; 9 plan.

## 1. The system

NestJS services share one PostgreSQL database (through Prisma, with row-level
security per university) and talk through HTTP and Kafka. A Caddy gateway and a
Next.js application stand in front of them.

| Component | State | Operations | What makes it correct |
|---|---|---|---|
| Bookings (`booking-service/src/bookings`) | `bookings` | create, cancel, complete, reevaluate | one booking per slot; terminal statuses final; refunds due |
| Slots (`booking-service/src/slots`) | `resource_slots` | create; withdrawn by cancellation and reevaluation | no overlap; no booking on a withdrawn slot; a slot is withdrawn only with its booking |
| Point ledger (`booking-service/src/points`, SQL triggers) | `point_ledger`, `user_point_balances` | deduct, refund, join bonus, semester allocation | projection equals ledger; never negative; each bonus once |
| Resources (`resource-service/src/resources`) | `resources`, allowed organizations | create, update, remove | bookings lose access when the resource does |
| Memberships, organizations (`resource-service`) | memberships, organizations, allowlist, domains | join, review, role, appoint, revoke, remove; create and update organizations, allocate points | an administrator remains; administrators are approved; decisions stand |
| Notification commands (`notification-service/src/events`) | `processed_events`, `notifications`, `notification_deliveries` | consume, deduplicate, reject, commit | rows exactly once; no record lost; no record blocks |
| Deliveries (`notification-service/src/delivery`) | `notification_deliveries` | poll, claim, send, retry, requeue | one sender per row; bounded attempts; every row settles |
| Disputes (`booking-service/src/disputes`, two pages) | `disputes`, their events, the status of a resource | open, transition, act on the resource | history is a path of the transitions; a closed dispute stays closed; marks are kept |
| Sessions (`identity-service/src/auth`, `session-api.ts`) | refresh tokens, reset links, cookies, tabs | login, refresh, switch, logout, reset | one live token per family; ended sessions stay ended; nobody is signed out without cause |
| Accounts, Google sign-in (`identity-service/src/auth`, `auth-api.ts`, `auth-storage.ts`) | users, verification tokens, Google subjects, localStorage | register, verify, resend, auto-join, connect, disconnect | only proven addresses; one verification; every account reachable |
| HTTP cache (`user-cache.interceptor.ts`, resource details) | cached answers | look up, store, evict, expire | an answer is old only for a known reason |
| Realtime gateway, booking events | rooms, sockets | publish, join, receive | pages that missed an event are the only ones that stay old |
| Web application (`apps/web`) | component state, requests under way | load, abort, submit, retry, react to events | a page shows what was answered last; every skeleton ends; a form does what it shows |
| Authorization, tenant context (`packages`) | none | verify tokens, set the tenant | reads only the request's tenant |
| Analytics, image store, gateway | none that decides | | |

Interactions. The resource service calls the booking service's
`/bookings/internal/reevaluate` and does not wait; booking and identity services
publish events to Kafka after their commit; the notification service consumes
them and writes delivery rows, which its own poller sends through Resend or
FCM, and passes booking events on to the sockets of open pages, which then ask
again. All services read memberships from the shared database. Booking lists and
resource details are cached; a change evicts after its commit. The browser keeps
the session in cookies that its tabs share, and the state of a sign-up in
localStorage.

What is hard here: requests that read, check and write later at different
isolation levels, so that another transaction commits in between; UPDATEs by id
whose safety rests on a CHECK or a unique index elsewhere; calls that are lost or
arrive before the transaction they should undo; Kafka redelivery and rebalances;
pollers that die with a row in their hands; a provider that took the message
whose success could not be written down; tabs that present one refresh token at
the same time; answers that come after the page has asked something else;
evictions that come before an old answer is stored; a request that is sent
again because its answer was lost. `PROJECT.json` lists these hazards at
their lines.

## 2. Modules and code

Each HTTP request, consumer or poller is a process. Its handler is cut into
steps exactly where another transaction can commit: a read whose result is used
later is one action, the statement or commit that uses it the next. Everything a
transaction writes is one action. Bounds are constants and guards.

**Bookings** (`booking.service.ts`, `booking.repository.ts`, `slots.service.ts`,
`point-ledger.*`, the update and removal of `resources.service.ts`, and the
migrations with their constraints and the balance trigger).

- `createBooking`: `RequestBooking`, then `ValidateBooking` (all reads, in one
  SERIALIZABLE snapshot), then `CommitCreate`, or one of its failures:
  `UniqueConflict` (P2002), `LedgerConflict` (wrapped by `PointLedgerService`,
  so not retried), `SerializationConflict` (P2034, retried at most
  `MAX_SERIALIZATION_ATTEMPTS` times). PostgreSQL's serialization check is the
  flag `ssi`, raised by a commit with a read-write conflict in both directions;
  `touched` says that the balance row changed since the snapshot. All other
  transactions are READ COMMITTED and take no part in that check.
- `cancelBooking`, `completeBooking`: a Begin action (the reads and checks) and
  a Commit action (the UPDATE as the code writes it; `Completable` is the CHECK
  constraint that refuses a cancelled row).
- `SlotsService.create`: `BeginCreateSlot` reads the resource and the rights,
  `CommitCreateSlot` looks at the resource again and inserts, or ends in a 404 or 409.
- `reevaluateBookings`: `BeginReevaluate` reads the batch, `ReevaluateOne` is one
  transaction of the loop, `ReevaluateAborts` the one that throws and ends it.
- `triggers` counts calls of the endpoint under way; `LoseTrigger` and
  `Interrupt` are lost calls and dying requests (`Unreliable`).
- Abstractions: one university; the token's own organization check is part of
  `CanAccess`; `findMany` of the reevaluation with its access checks is one
  snapshot; timestamps are kept only where a CHECK needs them; one clock;
  points are granted one at a time.

**Reservation** is the abstract specification of Bookings: a slot is reserved,
released and finished, one booking at a time. `ImplementsReservation` maps the
booking table to it.

**Deliveries** (`delivery-dispatcher`, `delivery-worker`, `delivery.repository`,
`retry-policy`, the providers). `dispatchDue` is `RequeueStale`, `FindDue` and
then, for each row, `Claim` or `SkipRow`, the provider's answer, `Complete` or
`Fail`. `CompleteThrows` is an error of `complete` inside the `try`; `Abandon` is
a crash or an error outside it. Time is a flag per row: has the moment it waits
for passed? The UPDATE and the read of `claim` are one step. Resend's idempotency
key makes it take an email once. The status QUARANTINED exists only in a migration
and is never set by the service.

**CommandConsumer** (`notification-event.controller`, `booking-event.service`,
`notification-command.service`, `notification-client`, `web-push`). One partition
of Kafka is the sequence `log` with a committed offset; an old owner may still be
busy after `Rebalance`, and its commit is refused. The transaction of
`NotificationCommandService` is one step, since its `INSERT ... ON CONFLICT`
waits for a concurrent one with the same id. An error that is no rejection is
rethrown, so kafkajs delivers from the committed offset again (`Redeliver`).

**Memberships** (`memberships.service.ts`, `organizations.service.ts` and the
join-bonus trigger). Each method that checks rights or counts administrators
outside its transaction is a Begin and a Commit action; several reads of one Begin
are one step. `requestMembership` and `createChildOrganization` are one
transaction, one action. `gen` numbers the rows one user has had, because audit
events refer to a row by its id. The guard and the write of `UpdateOrganization`
and of the join rules are one step; what that leaves out is an update that was
admitted just before the organization was suspended. Users are active and verified;
the membership status SUSPENDED is never written by the code. `overlapped` is history:
the organizations from which two requests under way would take an administrator each.

**SemesterAllocation** (`allocateSemesterPoints`). `ReadMembers` happens before
the transaction, `CheckExisting` fixes its snapshot, `CommitAllocation` or
`AbortAllocation` ends it. The organization an entry is credited to is any of the
user's memberships below the targets: `findMany` has no order. The targets of an
allocation are history, not stored by the code. Requests come from the root.

**Sessions** (`auth.service.ts`: login, `refreshSession`, `switchActiveUniversity`,
`revokeSession`, `requestPasswordReset`, `resetPassword`; the cookies of
`auth.controller.ts`; `session-api.ts` and `api-client.ts` in each tab). Every
handler reads before it writes. An UPDATE ... WHERE over several rows is a
snapshot step and an apply step, because rows inserted in between are not
updated. A tab makes one refresh at a time for all calls that got a 401; two
tabs know nothing of each other. `ended`, `chosen` and `causes` are history.

**Accounts** (registration, `verifyEmail` with its auto-join, `resendVerification`,
login, the Google callback and its connect and disconnect, the pages and
`auth-storage.ts`). A request reads and later writes; the claim of a token and the
unique indexes are what makes a transaction one step. Google's exchange of the
code is an answer from outside: a subject with a verified address.

**Disputes** (`dispute.service.ts`, `dispute.repository.ts`, `my-disputes.tsx`,
`organization-disputes.tsx`). A transition reads and checks, and then begins with
its conditional UPDATE, which holds the row until the commit; the events and the
resource's status are written in the same step. Pages keep the list they were
given and send what their form says.

**BookingPages** (the user's bookings, the upcoming ones, the organization's, the
history of a resource, the balance, the booking dialog; `UserCacheInterceptor`;
`publishLifecycleEvent`; the realtime gateway). The dialog asks for the first hundred
slots from now on; `FirstSlots` says which bookings' slots are among them. A change
commits, publishes its
event and evicts the lists of the user who made it, in this order, and can die in
between. A question is aborted when its page asks again, though the service
still works on it. Each booking is booked once; lists hold its status.

**Catalogue** (`resource-catalogue.tsx` and the list endpoint): one effect asks
again whenever organization, search, tab or page changes; all organizations
together are read one by one and put together in the browser. Whether the select
and the tabs report the value they have already is left open; `repeated` remembers
that they did.

**ResourceForms** (the edit and creation forms, reviews, the slot dialog, the cache
of details in `resources.controller.ts`). The edit form sends back every field it
loaded, with the notice split into weeks, days, hours and minutes. The creation
form creates the resource and uploads its image with two requests, each behind the
guards of its route: rights may be withdrawn between the two. Fields can be changed
while a form is being saved; what was submitted is a copy. A slot is permitted and
then inserted, in two steps. A request whose answer is lost has ended at the service
by the time the form is offered again.

**OrganizationPages** (`organization-member-list.tsx`, the administration panel of
`organization-details-view.tsx`, `membership-request-card.tsx`, the user's own
memberships, `allocate-points-dialog.tsx`). A list is the value of one of its rows:
this is enough to tell an old list from a new one. What the service accepts is
the table `Ops`.

**NotificationPages** (`notifications/page.tsx`, `notifications-stat-card.tsx`,
`web-push.ts`, `web-push-listener.tsx`, `notification-read.service.ts`). Loads are
neither aborted nor ordered. A mark finds the row and then updates it by id; its
answer is merged into the list that is shown by then. An answer holds the newest
`NOTIFICATION_TAKE` rows (50 in the code), and no page asks for more. A request that
the client gave up on may still run at the service, at any later time or never: a
mark nobody hears (`heard`), or one of the `strays` of the buttons. The listener
starts when the browser has the permission, or when it is registered. The wording is
left out.

**Dashboard** composes these five. The sections keep their state in their own
components and share none, so a behaviour visits one section, and the others rest
in one initial state.

`MC*` modules give the constants of these modules values for TLC; Deliveries is
checked as it is. `BookingsProofs`, `DeliveriesProofs`, `CommandConsumerProofs`,
`MembershipsProofs`, `DisputesProofs`, `SessionsProofs` and `AccountsProofs` hold the
proofs about the module they are named for; `DashboardProofs` those about the five
sections of the dashboard and, at its end, SemesterAllocation (section 6).

Definitions next to the one they resemble that no action uses
(`FloorRefund`, `NoConflicts`, `ReevaluableAlways`, ...) are plausible mistakes: put
in place of the real one, each makes a property fail (`mutants` in
`PROJECT.json`). This shows that the property depends on that line of code.

## 3. Runs

A property is named with its parts in brackets where it joins several definitions
of its module; the comments there state each of them.

| Run | Checks | Shows |
|---|---|---|
| `booking_races` | `OneActiveBookingPerSlot`, `BookingsAreSound` (`TypeOK`, `RefundsAreDue`), `TerminalStatusIsFinal`, `SlotsGoWithTheirBooking`, `ImplementsReservation` | two requests of any kind over one slot and three bookings, free or paid, with lost calls and dying requests; a reevaluation with an old list withdraws a slot only with the booking that holds it (or one that was free) |
| `booking_terms` | `RequestsEnd` | terms, status, allowed organizations and memberships change under a request that may fail to serialize every time; three attempts bound the retries |
| `booking_points` | `BalanceIsLedgerSum` `ActiveSlotIsPublished` | three requests of a user with points for one booking, refunds, a grant; without reevaluation, SERIALIZABLE keeps a booking off a slot that is withdrawn under it (the mutant without conflict detection breaks this though the unique index is there) |
| `delivery_races` | `WorkersHoldTheirRows` (`TypeOK`, `OneSenderPerDelivery`), `SendsAreBounded` (`AttemptsAreBounded`, `DuplicatesNeedFaults`, FAILED after an acceptance needs a fault), `ContentUntilAccepted`, `OutcomeIsFinal`, `DeliveriesSettle` | two pollers, an email and a push, crashes, failing statements and lost answers |
| `consumer_faults` | `ConsumedExactlyOnce` (`TypeOK`, `RowsExactlyOnce`), `NothingIsLost` (`CommittedIsSettled`, `StoredEventsWereEmitted`), `RecordsAreConsumed` | two members, every kind of record, one published twice, three faults; no record blocks the partition |
| `membership_races` | `MembershipsAreSound` (`TypeOK`, `AdminsAreApproved`, `JoinBonusOnce`), `OrganizationsKeepAdministrators`, `DecisionsStand` | two requests over rows that are removed and made again; the last administrator goes only where two requests overlap that each take a different one |
| `membership_hierarchy` | `DecisionsStand` | the same of organizations that are created and suspended, and of rules by which users join |
| `semester_races` | `AllocationsAreSound` (`AllocationTypeOK`, `AllocationsAreSerial`) | two allocations over a university and its department |
| `session_races` | `TokensFollowTheSession` (`TypeOK`, `OneLiveTokenPerFamily`, `SwitchSticks`), `EndedSessionsStayEnded`, `ResetLinksAreSingle` (`LinkOpensOnce`, `OneLiveLink`), `SignedOutForCause` | two tabs call, refresh, switch, log in and out and reset the password; a browser is signed out for a reason only, and replaying a token ends its family |
| `account_races` | `AccountsAreSound` (`TypeOK`, `AccountsStayReachable`), `AddressesAreProven` (`SessionsAreVerified`, `RememberedIsVerified`), `VerificationJoinsOnce` (`VerifiedOnce`, `MembersOfTheWholePath`), `GoogleFlowsAreApart` (`OneGoogleAccountEach`, `FlowsAreNotMixed`) | two pages run every flow of signing up and in at once |
| `dispute_races` | `HistoryIsComplete` (`TypeOK`, `EventsTellTheStory`), `ClosedDisputesStayClosed` (`ClosedWithNotes`, `ShownClosedIsClosed`), `MarksAreKept` | reviewers act on two disputes over one resource, which is also removed |
| `pages` | `BookingListsAreTruthful` (`BookingTypeOK`, `ShownFinalIsFinal`, `EvictionCoversOwnChanges`, `StalenessHasACause`), `BookingPagesSettle` (`NobodyWaitsInVain`, `BalanceFollowsCancellations`, `DialogIsTruthful`), `CatalogueIsSound` (`AnswersTheLastQuestion`, `SkeletonsEnd`, `EachResourceOnce`), `FormsAreTruthful` (`OneResourcePerForm`, `OfferedOwnersAreAccepted`, `DetailsHaveACause`, `OwnReviewIsShown`, `SlotDialogIsTruthful`), `MembershipPagesAreTruthful` (`OwnDecisionsAreShown`, `OneRowPerApplicant`), `TicksAreAllocated`, `NotificationsAreTruthful` (`NoticesHaveACause`, `NoticesAppear`, `OneListener`), `UntouchedSaveChangesNothing` | every section of the dashboard, with aborted, late, failed and lost answers and with others who change the same rows |

Several of these properties name exceptions ("unless ..."). Each exception is a
behaviour that the code has and that TLC showed; the property says that there is
no other. Section 7 lists the ones a reader of the code may not expect.

Deadlock is checked in the booking, delivery and semester runs. In the others the
system may come to rest: publishing is bounded in `consumer_faults`, a suspended
organization can be changed by nobody in the membership runs, and what users do
is bounded in the session, account, dispute and page runs.

## 4. Bounds

- Bookings: two requests are enough for every pair of handlers to interleave, and
  each property speaks of at most two of them; `booking_points` has three because
  a balance is shared by more. Three bookings allow a slot to be booked, released
  and booked again while an old request still holds the first id. Price 3 is odd,
  so rounding shows; 0 skips the ledger. The clock passes the slot's start.
  `MAX_SERIALIZATION_ATTEMPTS` is 3, as in the code, in `booking_terms` and 2
  elsewhere. `booking_terms` has one request: serialization failures need no
  second one, since PostgreSQL may report them without cause, and what a request
  reads changes under it by the environment's steps. `MaxTriggers`, `MaxGrants`, `Leavers` and `UpdateStatuses` bound
  what the environment does.
- Deliveries: `Retries` is 2 instead of 5: first, middle and last attempt exist.
  `MaxFaults` 2 allows a fault while an earlier one is being recovered from.
  `SlowSends` is off: see section 8.
- CommandConsumer: `Records` fixes what is published, with one record of each
  kind and a booking event twice; the order matters little, as each property is
  about one record or offset. Two members give an old owner; three faults allow
  the partition to move away and back and a crash in between.
- Memberships: `MaxGen` 2 allows a row to be removed and made again once, the
  ABA case; a university and one department give a parent and a child. Two runs
  split the state space: races without join rules, where administrators must
  remain, and all operations beside one request at a time, where an automatic join
  meets rows that exist.
- SemesterAllocation: `MaxAllocations` 2: the property is about pairs.
- Sessions: two tabs, three calls and four tokens: a login, a rotation by each tab
  and one more behind a revocation. Two links race over the cooldown; one lost
  answer and one change of memberships or expiry suffice for each exception.
- Accounts: two addresses, two Google accounts, two pages, three verification
  tokens, four requests and one change by an administrator; a university with one
  department is a path of two organizations to be joined.
- Disputes: two bookings of one resource and two requests under way, three in
  all: two that race, or one dispute that marks, another that takes over and
  the first one that restores. `MCReviews` is what reviewers may ask for.
- BookingPages: one booking, whose slot is among the first hundred (the theorems cover
  others), two questions and two changes under way; the pages
  that are open together are listed in `MCPageSets`. Two changes are made beside the
  booking dialog, where one of the user can meet one of the administrator, and one
  on each other page: with two there the run no longer ends in minutes, and the
  theorems of section 6 hold for any number. One fault.
- Catalogue: two organizations, three items, pages of one, three choices by the
  user and two changes elsewhere: enough for a page to vanish under its reader.
- ResourceForms: a chain of three organizations; notices 0 and 11595 minutes
  (one week, one day, one hour, 15 minutes: every unit counts); four steps of the user
  and of others, five in the creation form, where a right is withdrawn before the image
  and given back before the form is sent again. One fault.
- OrganizationPages: four organizations below one another and one beside them; a
  change takes several requests, so the steps are bounded for each page.
- NotificationPages: two notifications, one of them still to come, answers of one
  row (`NOTIFICATION_TAKE` is 1, so the older one is past the limit), two loads and two
  marks under way, three steps, one fault.

Symmetry is used only in runs without liveness, over sets whose elements nothing
tells apart (requests, booking ids; users in SemesterAllocation). The dashboard runs without it:
only one of its sections has such sets, and every state of the others would pay.

## 5. Fairness

- Bookings: weak fairness of `Step(p)` for every request. A request that arrived
  runs in Node's event loop against the database until it ends; nothing forces
  new requests, grants or the clock.
- Deliveries: weak fairness of each worker's `Step`, because `setInterval` polls for
  ever and provider calls end, and of `Elapse`, because time passes. Faults are
  bounded and never fair.
- CommandConsumer: weak fairness of each member's `Step`: Kafka keeps delivering to
  the owner of the partition and handlers end.
- The other modules state no fairness. That a skeleton ends is the invariant that
  some request which will end it is under way.

## 6. Proofs

Each proof module extends the module it is about and proves its theorems for every
value of the constants that the module's own `ASSUME` admits: any sets of users,
requests, tabs, rows or records, any bounds. A theorem that needs more says so in
its hypothesis. The theorems state every invariant and every safety action property
of the runs.

| Module | Theorem | Statement |
|---|---|---|
| `BookingsProofs` | `TypeCorrect` | `Spec => []TypeOK`; balances are never negative |
| | `NoDoubleBooking` | `Spec => []OneActiveBookingPerSlot` |
| | `RefundsCorrect` | `Spec => []BookingsAreSound` |
| | `TerminalStatusCorrect` | `Spec => TerminalStatusIsFinal` |
| | `SlotsWithdrawnCorrectly` | `Spec => SlotsGoWithTheirBooking` |
| | `ReservationImplemented` | `Spec => ImplementsReservation` |
| | `BalancesAreLedgerSums` | `Spec => []BalanceIsLedgerSum` |
| | `BookedSlotsAreOffered` | `Spec => []ActiveSlotIsPublished`, if `MaxTriggers = 0` |
| `DeliveriesProofs` | `SendersAreAlone` | `Spec => []WorkersHoldTheirRows`, if `~SlowSends` |
| | `FaultsPayForRepeats` | `Spec => []SendsAreBounded`, if `~SlowSends` |
| | `ContentIsKept` | `Spec => []ContentUntilAccepted`, if `~SlowSends` |
| | `FinishedRowsStay` | `Spec => OutcomeIsFinal`, if `~SlowSends` |
| `CommandConsumerProofs` | `RowsOnce` | `Spec => []ConsumedExactlyOnce` |
| | `NoRecordIsLost` | `Spec => []NothingIsLost` |
| `MembershipsProofs` | `MembershipsStaySound` | `Spec => []MembershipsAreSound` |
| | `DecisionsAreKept` | `Spec => DecisionsStand` |
| | `AdministratorsRemain` | `Spec => []OrganizationsKeepAdministrators` |
| `DisputesProofs` | `HistoriesArePaths` | `Spec => []HistoryIsComplete` |
| | `ClosedForGood` | `Spec => []ClosedDisputesStayClosed` |
| | `MarksHold` | `Spec => []MarksAreKept` |
| `SessionsProofs` | `SessionsAreFollowed` | `Spec => []TokensFollowTheSession` |
| | `EndedForGood` | `Spec => []EndedSessionsStayEnded` |
| | `LinksAreSingle` | `Spec => []ResetLinksAreSingle` |
| | `SignedOutOnlyForCause` | `Spec => []SignedOutForCause` |
| `AccountsProofs` | `AccountsRemainReachable` | `Spec => []AccountsAreSound` |
| | `OnlyProvenAddresses` | `Spec => []AddressesAreProven` |
| | `VerificationsJoinOnce` | `Spec => []VerificationJoinsOnce` |
| | `GoogleFlowsStayApart` | `Spec => []GoogleFlowsAreApart` |
| `DashboardProofs` | `CatalogueStaysSound` | `DashboardSpec => []CatalogueIsSound` |
| | `NotificationsStayTruthful` | `DashboardSpec => []NotificationsAreTruthful` |
| | `TicksAreHonoured` | `DashboardSpec => []TicksAreAllocated` |
| | `MembershipPagesStayTruthful` | `DashboardSpec => []MembershipPagesAreTruthful` |
| | `BookingListsStayTruthful` | `DashboardSpec => []BookingListsAreTruthful` |
| | `BookingPagesStaySettled` | `DashboardSpec => []BookingPagesSettle` |
| | `FormsStayTruthful` | `DashboardSpec => []FormsAreTruthful` |
| | `UntouchedSavesKeep` | `DashboardSpec => UntouchedSaveChangesNothing` |
| | `AllocationsStaySound` | `AllocationSpec => []AllocationsAreSound` |

The two hypotheses (`MaxTriggers = 0` and `~SlowSends`) are those of the runs. What
the modules assume of their constants is in the `ASSUME`s: types, that a value for
"none" is no row, and, in Accounts,
`HierarchyAssumption`: the tree of organizations has no cycle, which the trigger
`reject_organization_hierarchy_cycle` of the database ensures
(`20260724000000_initial/migration.sql:71`). ResourceForms and OrganizationPages
number the organizations so that a parent has the smaller number, which any tree
without a cycle allows. Without `~SlowSends` the properties are false (section 8);
with reevaluations a booking may commit behind the batch and lose its slot.

None of the properties is inductive. What is added in each module is, nearly always,
what a process that has read and not yet written may still count on:

- **Bookings.** `IInv == TypeOK /\ RowsOK /\ RequestsOK /\ OneActiveBookingPerSlot /\
  RefundsAreDue`. `RefundsAreDue` needs `RowsOK` (a booking id
  that is not used has no ledger entries, so a new booking starts without a refund)
  and `RequestsOK` (a request only holds bookings that exist, and a cancellation at
  half price is the owner's own: otherwise `CommitCancel` could pay half to somebody
  whose booking another cancelled). `OneActiveBookingPerSlot` is kept by
  `CommitCreate` because of the unique index, and by `CommitComplete` and
  `ReevaluateOne`, which update by id, because of the CHECK constraints. A
  slot goes with its booking because the UPDATE of the slot is behind the refund row:
  whoever cancelled the booking before has inserted it, unless the booking was free.
  `BookingChanges` sums up what a step does to the table: one booking is made on a
  free slot, one that is confirmed or already cancelled becomes cancelled (a free
  booking may be cancelled again by an old batch), one that is confirmed or completed
  becomes completed, or nothing changes. Final statuses and the refinement follow
  from it: these cases are `Reserve`, `Release`, `Finish` or stutters.
  `ActiveSlotIsPublished` needs `OfferedInv`: a create without a conflict since its
  snapshot has a slot that is published and free. A slot is withdrawn only under a
  booking, and whoever made that booking has given the create a conflict.
  `BalanceIsLedgerSum` compares two tables, one of them summed up by a fold that picks
  the entries in an order of its own. That the fold is a sum (adding an entry adds its
  amount) is proved with a least counterexample; that every handler then writes the
  balance and the entry together is the invariant `LedgersOK`.
- **Deliveries.** `HolderOK`: the row a worker holds is PROCESSING, not stale, and
  counts the worker's attempt; only the worker whose UPDATE to SENT seemed to fail
  holds a row that is SENT. `Budget`: a row that may be claimed again has an attempt
  left for each fault, and a message that is neither SENT nor about to be was taken
  in vain at most once for each fault. `SendsAreBounded` is what remains of it.
- **CommandConsumer.** `MemberOK`: a member that is done with a record has settled it,
  and the owner of the partition works at the committed offset. This is why its
  commit skips nothing, although an old owner may still be busy.
- **Memberships.** `RoleOK`: the row that a change of role read was approved and stays
  so until it is removed, and a row made after that has another generation. An
  organization that was not created has no rows. `KeepInv` adds that a request which
  takes an administrator away has counted another one, who is still there unless a
  request that takes a different user overlapped with it (`Spare`).
- **SemesterAllocation.** (at the end of `DashboardProofs`) `RequestOK`: a request that passed its check has seen a
  prefix of the allocations, in which none credited its own organizations.
- **Disputes.** `CallOK`: what a checked transition may still count on when it writes,
  as the UPDATE is conditioned on the status but not on the notes. `PagesArePast`: a
  list that a page keeps was true once, so what it shows as closed is closed.
- **Sessions.** `FamiliesOK`: a family is named by its first token, so a sign-in starts
  one that nothing has ended or chosen. `KnowsFamily`: an UPDATE under way has in its
  snapshot every row, up to the length the table had, that is still not revoked; what
  it misses is therefore younger, and is marked. `TabOK` and `CallOK`: a refresh carries the
  university of the token it read, unless it knows of a switch since; a sign-in
  carries the password it was checked against, unless it knows of a reset since; the
  link of a reset is unopened, and one reset is under way. The successor of a token is
  sound because the token it replaces was the family's only usable one.
  `SignedOutForCause` needs `PeaceInv`, which follows the cookie through every answer
  that is on its way while nothing has ended the session: the cookie's token is usable
  or the tab that presented it will bring its successor (`CookiePeace`, `TabPeace`); no
  two answers bring the same token (`AnswersApart`), so one cannot undo another; and no
  page logs out, because no request finds its account gone (`CallPeace`).
- **Accounts.** Rows and links only grow, so that what a request has read of them
  (`ReadOK`) stays true whatever others do: a link that a verification holds was
  live, and unless a link was overlooked the only one of its account (`OneLiveToken`); a
  mail under way knows the links that it will replace; the state that a tab drew is in
  the cookie with what that tab asked for. `MembersOfTheWholePath` is kept because the
  recursive path of an organization contains, with each organization, its parent:
  a set of organizations where this failed would have one whose parent is outside,
  by `HierarchyAssumption`.
- **Catalogue.** `AskingOK`: the request under way asks what the controls say at this
  moment, since every handler that changes one of them asks again; a choice that
  changes nothing is the one that leaves a skeleton, and is remembered. `AnswerOK`: a
  page
  that has another after it was not clamped, so a button that asks for the next page
  changes the state. Each resource once: the combined list is cut by ranks, which are
  a bijection however the organizations were read.
- **NotificationPages.** `FetchOK`, `MarkOK`: an answer differs from the table only in
  what changed after it was read, and is marked so. `PageOK`: where the list differs
  from the table, a load, a mark or a task under way accounts for it, or it is excused,
  or it lies past the first page, which only grows older (`Newest`).
  `EarOK` says who will start the listener while there is none.
- **OrganizationPages.** The dialog's recursive `Above` is shown to equal an explicit
  closure; the lists it keeps are parent-closed parts of a tree that only grows
  (`Listed`), and what it sent is what it showed (`SentOf`). On the other pages a load
  differs from a row only if others changed it behind the load or the page is about to
  throw the load away (`LoadOK`), and the answer to a request knows its row (`AskedOK`).
- **BookingPages.** `Lags`: what is over in any rows that were read once is over in the
  database, for every answer, page and entry of the cache. `GetOK`, `Settled`: answers
  and pages are up to date, or `Excused` by a change that they will be told of, an event
  they missed, or an entry of the cache. `OneAsk`: a page has one question, because
  asking again aborts the one before. `CallFits`: a committed change is in the database.
- **ResourceForms.** `FormInv` has a part for each screen. `EditOK`: the notice of the
  form is that of the details it came from, and so are the other fields until they are
  touched; `NoticeAddsUp` then gives `UntouchedSavesKeep`. `CreateOK` counts the
  resources of a form: one, or one more once the request under way has committed, for
  each failure and each image that was refused. `GuardsAgree` shows that the recursive
  guard of the service and the
  search for a path in the page accept the same organizations: the guard's equation is
  satisfied by the page's answer, and a least organization where a solution differed
  would have a parent where it differs too. `JobsFit` says which request belongs to which
  form, so that only a form that waits has a committed change (`CommittedFormsWait`).

A behaviour of `Dashboard` is, seen from one section, a behaviour of that section's own
specification (`BookingsRun`, `FormsRun` and their like), as a step of another section
leaves its variables alone. What is proved of a section so holds of the dashboard.

A proof has a lemma for each action that writes, under it one step for each part of
the invariant that the action can disturb, and one lemma for all steps that write no
table. Temporal reasoning is only the last step of each theorem.

Only model-checked: liveness (`RequestsEnd`, `DeliveriesSettle`, `RecordsAreConsumed`),
as fairness and ENABLED are out of the prover's reach. Each of the theorems above is also
a property of a run, which shows it on a small instance together with a mutant that
breaks it. Recursive definitions in these modules are recursive functions; where a
proof needs what such a function computes for every argument, it gives the solution of
the function's equation and excludes a least argument at which they differ.

## 7. Disagreements found

Behaviours of the models that contradict what the repository says. Each was found
as a counterexample to that statement; the properties of the runs are what holds
beside them.

1. The deletion dialog promises that all future bookings of the resource are
   cancelled (`resource-edit-form.tsx:234`). A booking whose snapshot still saw the
   resource ACTIVE can commit after the reevaluation has read its batch, and stays
   confirmed. No call is lost in the counterexample.
2. `delivery-semantics.md:6` says that a message becomes SENT after its provider
   accepts it. If the UPDATE to SENT throws (`delivery-worker.service.ts:30`), the
   `catch` schedules a retry, and the row can end FAILED.
3. Two administrators who demote or remove each other at once both pass
   `assertNotLastAdministrator` (`memberships.service.ts:576`), and none is left,
   which the members page rules out (`organization-member-list.tsx:553`).
   `OrganizationsKeepAdministrators` excepts such pairs, and nothing else.
4. The check for an earlier allocation of a semester
   (`organizations.service.ts:323`) looks for the selected organizations among the
   source organizations of the entries, which may name a department instead: the
   same allocation passes twice.
5. "This action cannot be undone" (`resource-edit-form.tsx:234`): `remove` leaves
   the mark of a dispute (`resources.service.ts:200`), so a RESTORE of that dispute
   makes the removed resource ACTIVE again (`dispute.repository.ts:167`).
6. "Resolution notes are required to resolve or reject a dispute"
   (`dispute.errors.ts:65`): a transition that relies on the notes of the row it read
   (`dispute.service.ts:172`) writes with a condition on the status only
   (`dispute.repository.ts:132`), so a dispute whose notes another request blanks in
   between is closed without any.

Weaknesses that the properties name as exceptions, or leave room for:

- Two tabs that refresh at the same moment present one token; the second one
  counts as a replay and ends the session of both.
- A rotation or sign-in that commits behind a revocation survives it; two reset
  requests can both pass the cooldown and leave two links.
- An account whose verification mail fails to be sent exists, and can only be
  verified after another request for a link.
- Two Google flows in two tabs share one state cookie; the older one fails.
- Approving a row that is shown PENDING overrides another administrator's
  rejection without a word. The first load of the rules can overwrite the reload
  after a change; a reload that fails shows an error though the change is stored.
- A list that was read before a commit may be cached after the eviction, for ten
  minutes; changes by others never evict a user's lists.
- The creation form cannot tell that only the image failed or was refused with a 403
  (`resources.controller.ts:158`), so trying again makes a second
  resource; a child organization whose answer was lost is made twice.
- An old answer about descendants can leave a hidden target in the allocation dialog.
- Choosing again, on the first page, the organization or the tab that is chosen
  already shows the skeleton without a request that would end it
  (`resource-catalogue.tsx:193`, `:259`), if the select or the tabs report such a choice.
- What is typed in the edit form while it is being saved is not saved, and disappears
  behind "Resource updated".
- Past fifty notifications (`notification.repository.ts:49`) the page does not show the
  older ones, the card does not count them, and "Mark all as read" marks them.
- An older load of the notifications can replace a newer list or a mark; "Mark all
  as read" also marks notifications that are not on the screen; a test push that
  another browser receives lets the page say that this one is registered. A mark, a test or a registration that the client gave up on may
  still be carried out, after the list was loaded again.

## 8. Not modelled

- Sends of more than five minutes: such a row is requeued while its worker runs, so two
  workers can send it and overwrite each other's outcome. The code presumes the worker
  interrupted and enforces nothing; the constant `SlowSends` describes it, and the runs
  switch it off, so `WorkersHoldTheirRows` and `OutcomeIsFinal` rest on that.
- What a reevaluation with an old list, or one that is lost, leaves behind: the code
  guarantees nothing that a property could state (`booking.service.ts:472`, `:542`).
- Token verification, tenant context: pure functions of a request; the rights they
  give are guards of the actions, and every module describes one university.
- Requests of the forms (`ResourceForms`) that run on at the service after the client
  gave up: there such a request has ended, either way, by the time the user can try
  again. The other pages have them.
- The notice period at a cancellation: `BeginCancel` compares with the period of the
  booking row, which nothing changes; a property would repeat that guard.
- Analytics and the pages that only present one answer (profile, overview, layout):
  they read, and decide nothing.
- Templates, wording, validation of single fields, recipients of events, avatars and
  the image store, Google's exchange of codes, gateway, deployment, seed scripts, the
  library of UI components: data, presentation or external services.

## 9. Plan

Done: all modules of section 2, their runs, and theorems for every invariant and every
safety action property that the runs check.

What a next step would be:

1. An abstract specification of a session (one token at a time, ended for good) that
   Sessions refines, as Reservation is one of Bookings; the invariants of
   `SessionsProofs` hold what its step simulation needs.
2. Sends that outlast the sweep (`SlowSends`), once the code says what a worker that was
   presumed interrupted may still write.
3. The liveness properties, by hand or with a prover that knows ENABLED.
