-------------------------- MODULE CommandConsumer ---------------------------
(***************************************************************************)
(* The consuming half of services/notification-service: booking events and *)
(* notification commands arrive through one Kafka partition, at least      *)
(* once, and become rows of notifications and notification_deliveries.     *)
(*                                                                         *)
(* Each instance of the service is a member of the consumer group.  The    *)
(* partition belongs to one member; after a rebalance the old one may      *)
(* still be busy with its record, and Kafka refuses its commit.            *)
(*                                                                         *)
(* The transaction of NotificationCommandService is one step: its INSERT   *)
(* INTO processed_events waits for a concurrent one of the same command.   *)
(***************************************************************************)
EXTENDS Integers, Sequences

CONSTANTS
    Commands,       \* event and command ids
    Kind,           \* [Commands -> Kinds]
    Recipient,      \* [Commands -> Users]
    Users,
    Tokens,         \* push tokens of the browsers
    Members,        \* instances of the service in the consumer group
    Records,        \* bound: the ids the producers publish, in this order
    MaxFaults,      \* bound of crashes, errors and rebalances
    MaxChanges      \* bound of changes of users and subscriptions

\* invalid: the contract check fails.  identity: an EMAIL command.  message and
\* booking: IN_APP and PUSH.  slot: a slot.created event, realtime only.
Kinds == {"invalid", "identity", "message", "booking", "slot"}

ASSUME ConsumerAssumption ==
    /\ Kind \in [Commands -> Kinds]
    /\ Recipient \in [Commands -> Users]
    /\ Records \in Seq(Commands)
    /\ MaxFaults \in Nat /\ MaxChanges \in Nat

VARIABLES
    log,            \* the partition
    committed,      \* offset committed for the consumer group
    owner,          \* the member the partition is assigned to
    member,         \* what each member is doing, and with which record
    processed,      \* table processed_events
    notifications,  \* rows of notifications made by each command
    emails,         \* EMAIL deliveries made by each command
    pushes,         \* PUSH deliveries made by each command, by token
    deadLetters,    \* offsets of the records in the dead-letter topic
    emitted,        \* offsets of the events sent to the websocket rooms
    active,         \* users with status ACTIVE
    approved,       \* users with an APPROVED membership of the university
    subscriptions,  \* [Users -> SUBSET Tokens]: active web push subscriptions
    faults, changes

kafka == <<log, committed, owner>>
effects == <<processed, notifications, emails, pushes, deadLetters, emitted>>
accounts == <<active, approved, subscriptions, changes>>
vars == <<kafka, member, effects, accounts, faults>>

\* handled: the handler returned, or the rejection is published.
Member == [phase : {"idle", "fetched", "emitted", "handled"}, at : Nat]

Record(m) == log[member[m].at]

Goto(m, phase) == member' = [member EXCEPT ![m].phase = phase]

Fault == faults < MaxFaults /\ faults' = faults + 1

-----------------------------------------------------------------------------
(* Producers and Kafka *)

\* A producer that retries uses the same id again.
Publish ==
    /\ Len(log) < Len(Records)
    /\ log' = Append(log, Records[Len(log) + 1])
    /\ UNCHANGED <<committed, owner, member, effects, accounts, faults>>

\* The owner gets the next record after the last one it has done with.
Fetch(m) ==
    /\ m = owner
    /\ member[m].phase = "idle"
    /\ member[m].at < Len(log)
    /\ member' = [member EXCEPT ![m] = [phase |-> "fetched", at |-> @.at + 1]]
    /\ UNCHANGED <<kafka, effects, accounts, faults>>

\* The partition moves to another member, which starts at the committed offset.
Rebalance(m) ==
    /\ m # owner
    /\ member[m].phase = "idle"
    /\ Fault
    /\ owner' = m
    /\ member' = [member EXCEPT ![m].at = committed]
    /\ UNCHANGED <<log, committed, effects, accounts>>

-----------------------------------------------------------------------------
(* BookingEventService.handle, NotificationCommandService.process *)

IsEvent(c) == Kind[c] \in {"booking", "slot"}

\* The event goes to the websocket rooms before anything is checked for
\* duplicates; a slot.created event goes nowhere else.
EmitBookingEvent(m) ==
    /\ member[m].phase = "fetched"
    /\ IsEvent(Record(m))
    /\ emitted' = emitted \cup {member[m].at}
    /\ Goto(m, IF Kind[Record(m)] = "slot" THEN "handled" ELSE "emitted")
    /\ UNCHANGED <<kafka, processed, notifications, emails, pushes, deadLetters,
                   accounts, faults>>

AtCommandBeforeEmit(m) == member[m].phase \in {"fetched", "emitted"}
AtCommand(m) ==
    \/ member[m].phase = "emitted"
    \/ member[m].phase = "fetched" /\ ~IsEvent(Record(m))

\* The recipient is ACTIVE and, for anything but email, belongs to the
\* university of the command.
Eligible(c) ==
    /\ Recipient[c] \in active
    /\ Kind[c] # "identity" => Recipient[c] \in approved

\* INSERT INTO processed_events ... ON CONFLICT DO NOTHING.
NotClaimed(c) == FALSE
Claimed(c) == c \in processed

\* The rows of one command: a notification unless it is an email; a delivery
\* for each active subscription.
ProcessCommand(m) ==
    /\ AtCommand(m)
    /\ LET c == Record(m)
           u == Recipient[c]
       IN  /\ Kind[c] # "invalid"
           /\ ~Claimed(c)
           /\ Eligible(c)
           /\ processed' = processed \cup {c}
           /\ IF Kind[c] = "identity"
              THEN /\ emails' = [emails EXCEPT ![c] = @ + 1]
                   /\ UNCHANGED <<notifications, pushes>>
              ELSE /\ notifications' = [notifications EXCEPT ![c] = @ + 1]
                   /\ pushes' = [pushes EXCEPT ![c] = [t \in Tokens |->
                        @[t] + (IF t \in subscriptions[u] THEN 1 ELSE 0)]]
                   /\ UNCHANGED emails
    /\ Goto(m, "handled")
    /\ UNCHANGED <<kafka, deadLetters, emitted, accounts, faults>>

Duplicate(m) ==
    /\ AtCommand(m)
    /\ Kind[Record(m)] # "invalid"
    /\ Claimed(Record(m))
    /\ Goto(m, "handled")
    /\ UNCHANGED <<kafka, effects, accounts, faults>>

\* A contract error, or a recipient the transaction refuses (its claim is
\* rolled back): the dead-letter topic gets the record's coordinates.
Reject(m) ==
    /\ AtCommand(m)
    /\ LET c == Record(m)
       IN  Kind[c] = "invalid" \/ (~Claimed(c) /\ ~Eligible(c))
    /\ deadLetters' = deadLetters \cup {member[m].at}
    /\ Goto(m, "handled")
    /\ UNCHANGED <<kafka, processed, notifications, emails, pushes, emitted,
                   accounts, faults>>

\* Commit the offset after the record, if the partition is still ours.
CommittedOffsetOfRecord(at) == at - 1
CommittedOffsetAfterNext(at) == at + 1
CommittedOffset(at) == at

Commit(m) ==
    /\ member[m].phase = "handled"
    /\ committed' = IF m = owner THEN CommittedOffset(member[m].at)
                                 ELSE committed
    /\ member' = [member EXCEPT ![m] = [phase |-> "idle",
                                        at |-> IF m = owner THEN @.at ELSE 0]]
    /\ UNCHANGED <<log, owner, effects, accounts, faults>>

\* An error that is no rejection is thrown on, and a process that dies starts
\* again: in both cases Kafka delivers from the committed offset.
FailureSkipsRecord(m) == member[m].at
ResumeAt(m) == committed

Redeliver(m) ==
    /\ member[m].phase # "idle"
    /\ Fault
    /\ member' = [member EXCEPT ![m] = [phase |-> "idle", at |-> ResumeAt(m)]]
    /\ UNCHANGED <<kafka, effects, accounts>>

-----------------------------------------------------------------------------
(* Other services change accounts, memberships and subscriptions. *)

Change == changes < MaxChanges /\ changes' = changes + 1

ToggleActive(u) ==
    /\ Change
    /\ active' = IF u \in active THEN active \ {u} ELSE active \cup {u}
    /\ UNCHANGED <<kafka, member, effects, approved, subscriptions, faults>>

ToggleMembership(u) ==
    /\ Change
    /\ approved' = IF u \in approved THEN approved \ {u} ELSE approved \cup {u}
    /\ UNCHANGED <<kafka, member, effects, active, subscriptions, faults>>

\* The token of a browser goes to the user who registers it last.
RegisterWebPush(u, t) ==
    /\ Change
    /\ u \in active
    /\ subscriptions' = [v \in Users |-> IF v = u THEN subscriptions[v] \cup {t}
                                         ELSE subscriptions[v] \ {t}]
    /\ UNCHANGED <<kafka, member, effects, active, approved, faults>>

RemoveWebPush(u, t) ==
    /\ Change
    /\ u \in active
    /\ t \in subscriptions[u]
    /\ subscriptions' = [subscriptions EXCEPT ![u] = @ \ {t}]
    /\ UNCHANGED <<kafka, member, effects, active, approved, faults>>

-----------------------------------------------------------------------------
Init ==
    /\ log = <<>>
    /\ committed = 0
    /\ owner \in Members
    /\ member = [m \in Members |-> [phase |-> "idle", at |-> 0]]
    /\ processed = {}
    /\ notifications = [c \in Commands |-> 0]
    /\ emails = [c \in Commands |-> 0]
    /\ pushes = [c \in Commands |-> [t \in Tokens |-> 0]]
    /\ deadLetters = {}
    /\ emitted = {}
    /\ active = Users
    /\ approved = Users
    /\ subscriptions = [u \in Users |-> {}]
    /\ faults = 0
    /\ changes = 0

Step(m) ==
    \/ Fetch(m) \/ EmitBookingEvent(m) \/ ProcessCommand(m) \/ Duplicate(m)
    \/ Reject(m) \/ Commit(m)

Next ==
    \/ Publish
    \/ \E m \in Members : Step(m) \/ Rebalance(m) \/ Redeliver(m)
    \/ \E u \in Users : ToggleActive(u) \/ ToggleMembership(u)
    \/ \E u \in Users, t \in Tokens : RegisterWebPush(u, t) \/ RemoveWebPush(u, t)

Spec == Init /\ [][Next]_vars

\* Kafka keeps delivering to the owner, and a handler that runs ends.
FairSpec == Spec /\ \A m \in Members : WF_vars(Step(m))

-----------------------------------------------------------------------------
(* Properties *)

\* Tables and members keep their types: no offset that is committed, fetched or
\* noted anywhere lies beyond the end of the partition.
TypeOK ==
    /\ log \in Seq(Commands)
    /\ committed \in 0..Len(log)
    /\ owner \in Members
    /\ member \in [Members -> Member]
    /\ \A m \in Members : member[m].at <= Len(log)
    /\ processed \subseteq Commands
    /\ notifications \in [Commands -> Nat]
    /\ emails \in [Commands -> Nat]
    /\ pushes \in [Commands -> [Tokens -> Nat]]
    /\ deadLetters \subseteq 1..Len(log)
    /\ emitted \subseteq 1..Len(log)
    /\ active \subseteq Users /\ approved \subseteq Users
    /\ subscriptions \in [Users -> SUBSET Tokens]
    /\ faults \in 0..MaxFaults /\ changes \in 0..MaxChanges

\* "Kafka redelivery cannot create duplicate notifications or deliveries": a
\* command makes its rows exactly once, together with its entry in
\* processed_events, however often it is published, redelivered or handled by
\* two members at the same time.
RowsExactlyOnce ==
    \A c \in Commands :
        /\ notifications[c] + emails[c] = IF c \in processed THEN 1 ELSE 0
        /\ \A t \in Tokens : pushes[c][t] <= notifications[c]

\* Every record below the committed offset has been dealt with: its command is
\* processed, its coordinates are in the dead-letter topic, or it is a
\* slot.created event that was emitted.  No fault loses a record.
CommittedIsSettled ==
    \A i \in 1..committed :
        \/ log[i] \in processed
        \/ i \in deadLetters
        \/ Kind[log[i]] = "slot" /\ i \in emitted

\* A booking notification is never stored for an event no websocket room saw.
StoredEventsWereEmitted ==
    \A c \in processed :
        IsEvent(c) => \E i \in emitted : log[i] = c

\* Every published record is settled and committed in the end.
RecordsAreConsumed ==
    \A i \in 1..Len(Records) :
        (Len(log) >= i) ~> (committed >= i)

\* A command is consumed once, and no offset runs ahead of the partition.
ConsumedExactlyOnce == TypeOK /\ RowsExactlyOnce

\* A committed offset loses no record, and no notification goes without its
\* event.
NothingIsLost == CommittedIsSettled /\ StoredEventsWereEmitted

=============================================================================
