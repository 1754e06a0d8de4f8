----------------------- MODULE CommandConsumerProofs ------------------------
(***************************************************************************)
(* Proofs about CommandConsumer for any records, members and faults.       *)
(***************************************************************************)
EXTENDS CommandConsumer, TLAPS

USE ConsumerAssumption

Settled(i) ==
    \/ log[i] \in processed
    \/ i \in deadLetters
    \/ Kind[log[i]] = "slot" /\ i \in emitted

\* A busy member has a record of the partition, and one that is done with it
\* has settled it.  The owner works at the committed offset: its record is the
\* first that is not committed, although a busy member may have lost the
\* partition to another one in between.
MemberOK(m) ==
    /\ member[m].phase # "idle" => member[m].at \in 1..Len(log)
    /\ member[m].phase = "emitted" => member[m].at \in emitted
    /\ member[m].phase = "handled" => Settled(member[m].at)
    /\ m = owner => member[m].at = IF member[m].phase = "idle" THEN committed
                                   ELSE committed + 1

IInv ==
    /\ TypeOK
    /\ RowsExactlyOnce
    /\ CommittedIsSettled
    /\ StoredEventsWereEmitted
    /\ \A m \in Members : MemberOK(m)

-----------------------------------------------------------------------------
(* Steps that keep the partition and its offset *)

\* Nothing that was settled is taken back.
LEMMA SettledStays ==
    ASSUME log' = log, processed \subseteq processed',
           deadLetters \subseteq deadLetters', emitted \subseteq emitted',
           NEW i, Settled(i)
    PROVE  Settled(i)'
  BY DEF Settled

\* A step of one member, which may add to the effects but not take any back.
LEMMA MemberStep ==
    ASSUME IInv, TypeOK', RowsExactlyOnce', NEW m \in Members,
           UNCHANGED kafka, processed \subseteq processed',
           deadLetters \subseteq deadLetters', emitted \subseteq emitted',
           \A v \in Members \ {m} : member'[v] = member[v],
           \A c \in processed' \ processed :
              IsEvent(c) => \E i \in emitted : log[i] = c,
           MemberOK(m)'
    PROVE  IInv'
<1>1. log' = log /\ committed' = committed /\ owner' = owner
  BY DEF kafka
<1>2. CommittedIsSettled'
  <2>1. \A i \in 1..committed : Settled(i)
    BY DEF IInv, CommittedIsSettled, Settled
  <2>2. \A i \in 1..committed : Settled(i)'
    BY <1>1, <2>1, SettledStays
  <2> QED
    BY <1>1, <2>2 DEF CommittedIsSettled, Settled
<1>3. StoredEventsWereEmitted'
  BY <1>1 DEF IInv, StoredEventsWereEmitted
<1>4. ASSUME NEW v \in Members \ {m} PROVE MemberOK(v)'
  <2>1. MemberOK(v) /\ member'[v] = member[v]
    BY DEF IInv
  <2>2. Settled(member[v].at) => Settled(member[v].at)'
    BY <1>1 DEF Settled
  <2> QED
    BY <1>1, <2>1, <2>2 DEF MemberOK, Settled
<1> QED
  BY <1>2, <1>3, <1>4 DEF IInv

\* Where a member has come to: its phase and its record.
LEMMA GotoMember ==
    ASSUME member \in [Members -> Member], NEW m \in Members,
           NEW p \in {"idle", "fetched", "emitted", "handled"}, Goto(m, p)
    PROVE  /\ member' \in [Members -> Member]
           /\ \A v \in Members \ {m} : member'[v] = member[v]
           /\ member'[m].phase = p /\ member'[m].at = member[m].at
  BY DEF Goto, Member

LEMMA SetMember ==
    ASSUME member \in [Members -> Member], NEW m \in Members, NEW n \in Nat,
           NEW p \in {"idle", "fetched", "emitted", "handled"},
           member' = [member EXCEPT ![m] = [phase |-> p, at |-> n]]
    PROVE  /\ member' \in [Members -> Member]
           /\ \A v \in Members \ {m} : member'[v] = member[v]
           /\ member'[m].phase = p /\ member'[m].at = n
  BY DEF Member

\* The tables' types do not depend on the members.
LEMMA EffectsUnchanged ==
    ASSUME IInv, UNCHANGED <<log, effects, accounts>>, owner' \in Members,
           committed' \in 0..Len(log), faults' \in 0..MaxFaults,
           member' \in [Members -> Member],
           \A m \in Members : member'[m].at <= Len(log)
    PROVE  TypeOK' /\ RowsExactlyOnce'
  BY DEF IInv, TypeOK, RowsExactlyOnce, effects, accounts

LEMMA FetchIInv ==
    ASSUME IInv, NEW m \in Members, Fetch(m)
    PROVE  IInv'
<1> DEFINE n == member[m].at + 1
<1>1. /\ member \in [Members -> Member] /\ log \in Seq(Commands)
      /\ committed \in 0..Len(log) /\ faults \in 0..MaxFaults
      /\ \A v \in Members : member[v].at <= Len(log)
      /\ member[m].at \in Nat /\ Len(log) \in Nat /\ owner \in Members
  BY DEF IInv, TypeOK, Member
<1>2. n \in Nat /\ n <= Len(log) /\ n \in 1..Len(log)
  BY <1>1 DEF Fetch
<1>3. member' = [member EXCEPT ![m] = [phase |-> "fetched", at |-> n]]
  BY DEF Fetch
<1>4. n = committed + 1 /\ m = owner
  BY <1>1 DEF IInv, MemberOK, Fetch
<1> HIDE DEF n
<1>5. /\ member' \in [Members -> Member]
      /\ \A v \in Members \ {m} : member'[v] = member[v]
      /\ member'[m].phase = "fetched" /\ member'[m].at = n
  BY <1>1, <1>2, <1>3, SetMember
<1>6. UNCHANGED <<log, committed, owner, effects, accounts, faults>>
  BY DEF Fetch, kafka
<1>7. TypeOK' /\ RowsExactlyOnce'
  <2>1. \A v \in Members : member'[v].at <= Len(log)
    BY <1>1, <1>2, <1>5
  <2> QED
    BY <1>1, <1>5, <1>6, <2>1, EffectsUnchanged
<1>8. MemberOK(m)'
  BY <1>2, <1>4, <1>5, <1>6 DEF MemberOK
<1> QED
  BY <1>5, <1>6, <1>7, <1>8, MemberStep DEF effects, kafka

\* What a member knows of the record it works on.
LEMMA BusyMember ==
    ASSUME IInv, NEW m \in Members, member[m].phase # "idle"
    PROVE  /\ member \in [Members -> Member]
           /\ member[m].at \in 1..Len(log)
           /\ Record(m) = log[member[m].at]
           /\ Record(m) \in Commands
           /\ MemberOK(m)
           /\ m = owner => member[m].at = committed + 1
<1>1. MemberOK(m) /\ log \in Seq(Commands) /\ member \in [Members -> Member]
  BY DEF IInv, TypeOK
<1>2. member[m].at \in 1..Len(log)
  BY <1>1 DEF MemberOK
<1> QED
  BY <1>1, <1>2 DEF Record, MemberOK

LEMMA EmitIInv ==
    ASSUME IInv, NEW m \in Members, EmitBookingEvent(m)
    PROVE  IInv'
<1> DEFINE p == IF Kind[Record(m)] = "slot" THEN "handled" ELSE "emitted"
<1>1. member[m].phase = "fetched"
  BY DEF EmitBookingEvent
<1>2. /\ member \in [Members -> Member] /\ member[m].at \in 1..Len(log)
      /\ Record(m) = log[member[m].at] /\ MemberOK(m)
      /\ m = owner => member[m].at = committed + 1
  BY <1>1, BusyMember
<1>3. /\ Goto(m, p) /\ emitted' = emitted \cup {member[m].at}
      /\ UNCHANGED <<log, committed, owner, processed, notifications, emails, pushes,
                     deadLetters, active, approved, subscriptions, changes, faults>>
  BY DEF EmitBookingEvent, kafka, accounts
<1>4. p \in {"emitted", "handled"} /\ (p = "handled" => Kind[Record(m)] = "slot")
  OBVIOUS
<1> HIDE DEF p
<1>5. /\ member' \in [Members -> Member]
      /\ \A v \in Members \ {m} : member'[v] = member[v]
      /\ member'[m].phase = p /\ member'[m].at = member[m].at
  BY <1>2, <1>3, <1>4, GotoMember
<1>6. TypeOK'
  BY <1>2, <1>3, <1>5 DEF IInv, TypeOK
<1>7. RowsExactlyOnce'
  BY <1>3 DEF IInv, RowsExactlyOnce
<1>8. MemberOK(m)'
  BY <1>1, <1>2, <1>3, <1>4, <1>5 DEF MemberOK, Settled
<1> QED
  BY <1>3, <1>5, <1>6, <1>7, <1>8, MemberStep DEF kafka

\* A duplicate and a rejected record leave the tables alone.
LEMMA NoRowsIInv ==
    ASSUME IInv, NEW m \in Members, Duplicate(m) \/ Reject(m)
    PROVE  IInv'
<1>1. member[m].phase \in {"fetched", "emitted"}
  BY DEF Duplicate, Reject, AtCommand
<1>2. /\ member \in [Members -> Member] /\ member[m].at \in 1..Len(log)
      /\ Record(m) = log[member[m].at] /\ MemberOK(m)
      /\ m = owner => member[m].at = committed + 1
  BY <1>1, BusyMember
<1>3. /\ Goto(m, "handled")
      /\ UNCHANGED <<log, committed, owner, processed, notifications, emails, pushes,
                     emitted, active, approved, subscriptions, changes, faults>>
      /\ \/ deadLetters' = deadLetters /\ Record(m) \in processed
         \/ deadLetters' = deadLetters \cup {member[m].at}
  BY DEF Duplicate, Reject, kafka, accounts, effects, Claimed
<1>4. /\ member' \in [Members -> Member]
      /\ \A v \in Members \ {m} : member'[v] = member[v]
      /\ member'[m].phase = "handled" /\ member'[m].at = member[m].at
  BY <1>2, <1>3, GotoMember
<1>5. TypeOK'
  BY <1>2, <1>3, <1>4 DEF IInv, TypeOK
<1>6. RowsExactlyOnce'
  BY <1>3 DEF IInv, RowsExactlyOnce
<1>7. MemberOK(m)'
  BY <1>1, <1>2, <1>3, <1>4 DEF MemberOK, Settled
<1> QED
  BY <1>3, <1>4, <1>5, <1>6, <1>7, MemberStep DEF kafka

\* The transaction: the entry in processed_events and the rows come together.
LEMMA ProcessIInv ==
    ASSUME IInv, NEW m \in Members, ProcessCommand(m)
    PROVE  IInv'
<1>1. member[m].phase \in {"fetched", "emitted"}
  BY DEF ProcessCommand, AtCommand
<1>2. /\ member \in [Members -> Member] /\ member[m].at \in 1..Len(log)
      /\ Record(m) \in Commands /\ MemberOK(m)
      /\ m = owner => member[m].at = committed + 1
  BY <1>1, BusyMember
<1>3. PICK c \in Commands : c = Record(m) /\ c = log[member[m].at]
  BY <1>2 DEF Record
<1>4. /\ Goto(m, "handled") /\ processed' = processed \cup {c} /\ c \notin processed
      /\ UNCHANGED <<log, committed, owner, deadLetters, emitted, active, approved,
                     subscriptions, changes, faults>>
      /\ \/ /\ emails' = [emails EXCEPT ![c] = @ + 1]
            /\ UNCHANGED <<notifications, pushes>>
         \/ /\ notifications' = [notifications EXCEPT ![c] = @ + 1]
            /\ pushes' = [pushes EXCEPT ![c] = [t \in Tokens |->
                  @[t] + (IF t \in subscriptions[Recipient[c]] THEN 1 ELSE 0)]]
            /\ UNCHANGED emails
  BY <1>3 DEF ProcessCommand, kafka, accounts, Claimed
<1>5. /\ member' \in [Members -> Member]
      /\ \A v \in Members \ {m} : member'[v] = member[v]
      /\ member'[m].phase = "handled" /\ member'[m].at = member[m].at
  BY <1>2, <1>4, GotoMember
<1>6. /\ notifications \in [Commands -> Nat] /\ emails \in [Commands -> Nat]
      /\ pushes \in [Commands -> [Tokens -> Nat]]
  BY DEF IInv, TypeOK
<1>7. /\ notifications[c] = 0 /\ emails[c] = 0
      /\ \A t \in Tokens : pushes[c][t] = 0
  BY <1>4, <1>6 DEF IInv, RowsExactlyOnce
<1>8. /\ notifications' \in [Commands -> Nat] /\ emails' \in [Commands -> Nat]
      /\ notifications'[c] + emails'[c] = 1
      /\ \A b \in Commands \ {c} : notifications'[b] = notifications[b]
                                     /\ emails'[b] = emails[b]
  <2>1. CASE /\ emails' = [emails EXCEPT ![c] = @ + 1]
             /\ UNCHANGED <<notifications, pushes>>
    BY <1>6, <1>7, <2>1
  <2>2. CASE /\ notifications' = [notifications EXCEPT ![c] = @ + 1]
             /\ UNCHANGED emails
    BY <1>6, <1>7, <2>2
  <2> QED
    BY <1>4, <2>1, <2>2
<1>9. /\ pushes' \in [Commands -> [Tokens -> Nat]]
      /\ \A t \in Tokens : pushes'[c][t] <= notifications'[c]
      /\ \A b \in Commands \ {c} : pushes'[b] = pushes[b]
  <2>1. CASE UNCHANGED <<notifications, pushes>>
    BY <1>6, <1>7, <2>1
  <2>2. CASE /\ notifications' = [notifications EXCEPT ![c] = @ + 1]
             /\ pushes' = [pushes EXCEPT ![c] = [t \in Tokens |->
                  @[t] + (IF t \in subscriptions[Recipient[c]] THEN 1 ELSE 0)]]
    <3> DEFINE f == [t \in Tokens |-> pushes[c][t]
                        + (IF t \in subscriptions[Recipient[c]] THEN 1 ELSE 0)]
    <3>1. f \in [Tokens -> Nat] /\ \A t \in Tokens : f[t] <= 1
      BY <1>6, <1>7
    <3>2. pushes' = [pushes EXCEPT ![c] = f]
      BY <2>2
    <3> HIDE DEF f
    <3>3. notifications'[c] = 1
      BY <1>6, <1>7, <2>2
    <3> QED
      BY <1>6, <3>1, <3>2, <3>3
  <2> QED
    BY <1>4, <2>1, <2>2
<1>10. TypeOK'
  BY <1>2, <1>4, <1>5, <1>8, <1>9 DEF IInv, TypeOK
<1>11. RowsExactlyOnce'
  <2> SUFFICES ASSUME NEW b \in Commands
               PROVE  /\ notifications'[b] + emails'[b] = IF b \in processed' THEN 1 ELSE 0
                      /\ \A t \in Tokens : pushes'[b][t] <= notifications'[b]
    BY DEF RowsExactlyOnce
  <2> QED
    BY <1>4, <1>8, <1>9 DEF IInv, RowsExactlyOnce
<1>12. IsEvent(c) => member[m].at \in emitted
  BY <1>2, <1>3 DEF ProcessCommand, AtCommand, MemberOK
<1>13. MemberOK(m)'
  BY <1>1, <1>2, <1>3, <1>4, <1>5 DEF MemberOK, Settled
<1> QED
  BY <1>3, <1>4, <1>5, <1>10, <1>11, <1>12, <1>13, MemberStep DEF kafka

-----------------------------------------------------------------------------
(* Steps that move the offset, the partition or a member's position *)

\* Only the owner moves the committed offset, by one and over a settled record.
LEMMA CommitIInv ==
    ASSUME IInv, NEW m \in Members, Commit(m)
    PROVE  IInv'
<1> DEFINE n == IF m = owner THEN member[m].at ELSE 0
<1>1. member[m].phase = "handled"
  BY DEF Commit
<1>2. /\ member \in [Members -> Member] /\ member[m].at \in 1..Len(log)
      /\ MemberOK(m)
      /\ m = owner => member[m].at = committed + 1
  BY <1>1, BusyMember
<1>3. /\ log \in Seq(Commands) /\ committed \in 0..Len(log) /\ faults \in 0..MaxFaults
      /\ \A v \in Members : member[v].at <= Len(log)
      /\ Len(log) \in Nat /\ owner \in Members
  BY DEF IInv, TypeOK
<1>4. member' = [member EXCEPT ![m] = [phase |-> "idle", at |-> n]]
  BY DEF Commit
<1>5. n \in Nat /\ n <= Len(log)
  BY <1>2, <1>3
<1>6. /\ member' \in [Members -> Member]
      /\ \A v \in Members \ {m} : member'[v] = member[v]
      /\ member'[m].phase = "idle" /\ member'[m].at = n
  <2> HIDE DEF n
  <2> QED
    BY <1>2, <1>4, <1>5, SetMember
<1>7. UNCHANGED <<log, owner, effects, accounts, faults>>
  BY DEF Commit
<1>8. committed' = IF m = owner THEN committed + 1 ELSE committed
  BY <1>2 DEF Commit, CommittedOffset
<1>9. committed' \in 0..Len(log)
  BY <1>2, <1>3, <1>8
<1>10. TypeOK' /\ RowsExactlyOnce'
  <2>1. \A v \in Members : member'[v].at <= Len(log)
    BY <1>3, <1>5, <1>6
  <2> QED
    BY <1>3, <1>6, <1>7, <1>9, <2>1, EffectsUnchanged
<1>11. CommittedIsSettled'
  <2>1. \A i \in 1..committed : Settled(i)
    BY DEF IInv, CommittedIsSettled, Settled
  <2>2. m = owner => Settled(committed + 1)
    BY <1>1, <1>2 DEF MemberOK
  <2>3. \A i \in 1..committed' : Settled(i)
    BY <1>3, <1>8, <2>1, <2>2
  <2> QED
    BY <1>7, <2>3 DEF CommittedIsSettled, Settled, effects
<1>12. StoredEventsWereEmitted'
  BY <1>7 DEF IInv, StoredEventsWereEmitted, effects
<1>13. ASSUME NEW v \in Members PROVE MemberOK(v)'
  <2>1. CASE v = m
    BY <1>2, <1>6, <1>7, <1>8, <2>1 DEF MemberOK
  <2>2. CASE v # m
    <3>1. MemberOK(v) /\ member'[v] = member[v]
      BY <1>6, <2>2 DEF IInv
    <3>2. Settled(member[v].at) => Settled(member[v].at)'
      BY <1>7, <3>1 DEF Settled, effects
    <3>3. v = owner => committed' = committed
      BY <1>8, <2>2
    <3> QED
      BY <1>7, <3>1, <3>2, <3>3 DEF MemberOK, effects
  <2> QED
    BY <2>1, <2>2
<1> QED
  BY <1>10, <1>11, <1>12, <1>13 DEF IInv

\* A member is sent back to the committed offset, with the partition or not.
LEMMA PositionStep ==
    ASSUME IInv, NEW m \in Members, UNCHANGED <<log, committed, effects, accounts>>,
           faults' \in 0..MaxFaults, owner' \in {owner, m},
           member' \in [Members -> Member],
           \A v \in Members \ {m} : member'[v] = member[v],
           member'[m].phase = "idle", member'[m].at = committed
    PROVE  IInv'
<1>1. /\ log \in Seq(Commands) /\ committed \in 0..Len(log) /\ owner \in Members
      /\ \A v \in Members : member[v].at <= Len(log)
      /\ Len(log) \in Nat
  BY DEF IInv, TypeOK
<1>2. TypeOK' /\ RowsExactlyOnce'
  <2>1. \A v \in Members : member'[v].at <= Len(log)
    BY <1>1
  <2> QED
    BY <1>1, <2>1, EffectsUnchanged
<1>3. CommittedIsSettled' /\ StoredEventsWereEmitted'
  BY DEF IInv, CommittedIsSettled, StoredEventsWereEmitted, effects
<1>4. MemberOK(m)'
  BY DEF MemberOK
<1>5. ASSUME NEW v \in Members \ {m} PROVE MemberOK(v)'
  <2>1. MemberOK(v) /\ member'[v] = member[v] /\ (v = owner' => v = owner)
    BY DEF IInv
  <2>2. Settled(member[v].at) => Settled(member[v].at)'
    BY <2>1 DEF Settled, effects
  <2> QED
    BY <2>1, <2>2 DEF MemberOK, effects
<1> QED
  BY <1>2, <1>3, <1>4, <1>5 DEF IInv

LEMMA BackIInv ==
    ASSUME IInv, NEW m \in Members, Rebalance(m) \/ Redeliver(m)
    PROVE  IInv'
<1>1. /\ member \in [Members -> Member] /\ faults \in 0..MaxFaults
      /\ committed \in Nat /\ log \in Seq(Commands)
  BY DEF IInv, TypeOK
<1>2. /\ UNCHANGED <<log, committed, effects, accounts>>
      /\ faults' \in 0..MaxFaults
  BY <1>1 DEF Rebalance, Redeliver, Fault, kafka
<1>3. /\ member' \in [Members -> Member]
      /\ \A v \in Members \ {m} : member'[v] = member[v]
      /\ member'[m].phase = "idle" /\ member'[m].at = committed
      /\ owner' \in {owner, m}
  <2>1. CASE Rebalance(m)
    BY <1>1, <2>1 DEF Rebalance, Member
  <2>2. CASE Redeliver(m)
    BY <1>1, <2>2, SetMember DEF Redeliver, ResumeAt, kafka
  <2> QED
    BY <2>1, <2>2
<1> QED
  BY <1>2, <1>3, PositionStep

\* A new record comes last: nothing that refers to the others changes.
LEMMA PublishIInv ==
    ASSUME IInv, Publish
    PROVE  IInv'
<1> DEFINE r == Records[Len(log) + 1]
<1>1. /\ log \in Seq(Commands) /\ Len(log) \in Nat /\ committed \in 0..Len(log)
      /\ deadLetters \subseteq 1..Len(log) /\ emitted \subseteq 1..Len(log)
      /\ member \in [Members -> Member]
      /\ \A m \in Members : member[m].at <= Len(log) /\ member[m].at \in Nat
  BY DEF IInv, TypeOK, Member
<1>2. r \in Commands
  BY <1>1 DEF Publish
<1>3. log' = Append(log, r)
  BY DEF Publish
<1> HIDE DEF r
<1>4. /\ log' \in Seq(Commands) /\ Len(log') = Len(log) + 1
      /\ \A i \in 1..Len(log) : log'[i] = log[i]
  BY <1>1, <1>2, <1>3
<1>5. UNCHANGED <<committed, owner, member, processed, notifications, emails, pushes,
                  deadLetters, emitted, active, approved, subscriptions, changes, faults>>
  BY DEF Publish, effects, accounts
<1>6. TypeOK'
  <2>1. /\ committed' \in 0..Len(log') /\ deadLetters' \subseteq 1..Len(log')
        /\ emitted' \subseteq 1..Len(log')
        /\ \A m \in Members : member'[m].at <= Len(log')
    BY <1>1, <1>4, <1>5
  <2> QED
    BY <1>4, <1>5, <2>1 DEF IInv, TypeOK
<1>7. RowsExactlyOnce'
  BY <1>5 DEF IInv, RowsExactlyOnce
<1>8. \A i \in 1..Len(log) : Settled(i) => Settled(i)'
  BY <1>4, <1>5 DEF Settled
<1>9. CommittedIsSettled'
  <2>1. \A i \in 1..committed : Settled(i)
    BY DEF IInv, CommittedIsSettled, Settled
  <2>2. \A i \in 1..committed : i \in 1..Len(log)
    BY <1>1
  <2>3. \A i \in 1..committed : Settled(i)'
    BY <1>8, <2>1, <2>2
  <2> QED
    BY <1>5, <2>3 DEF CommittedIsSettled, Settled
<1>10. StoredEventsWereEmitted'
  BY <1>1, <1>4, <1>5 DEF IInv, StoredEventsWereEmitted
<1>11. ASSUME NEW m \in Members PROVE MemberOK(m)'
  <2>1. MemberOK(m)
    BY DEF IInv
  <2>2. member[m].phase # "idle" => member[m].at \in 1..Len(log')
    BY <1>1, <1>4, <2>1 DEF MemberOK
  <2>3. member[m].phase = "handled" => Settled(member[m].at)'
    <3> SUFFICES ASSUME member[m].phase = "handled" PROVE Settled(member[m].at)'
      OBVIOUS
    <3>1. PICK i \in 1..Len(log) : i = member[m].at /\ Settled(i)
      BY <2>1 DEF MemberOK
    <3>2. Settled(i)'
      BY <1>8, <3>1
    <3> QED
      BY <1>5, <3>1, <3>2 DEF Settled
  <2> QED
    BY <1>5, <2>1, <2>2, <2>3 DEF MemberOK
<1> QED
  BY <1>6, <1>7, <1>9, <1>10, <1>11 DEF IInv

\* Accounts, memberships and subscriptions decide what a command makes, not
\* whether it is consumed.
LEMMA AccountsIInv ==
    ASSUME IInv, TypeOK', UNCHANGED <<kafka, member, effects>>
    PROVE  IInv'
<1>1. UNCHANGED <<log, committed, owner, member, processed, notifications, emails,
                  pushes, deadLetters, emitted>>
  BY DEF kafka, effects
<1>2. RowsExactlyOnce' /\ CommittedIsSettled' /\ StoredEventsWereEmitted'
  BY <1>1 DEF IInv, RowsExactlyOnce, CommittedIsSettled, StoredEventsWereEmitted
<1>3. \A m \in Members : MemberOK(m)'
  BY <1>1 DEF IInv, MemberOK, Settled
<1> QED
  BY <1>2, <1>3 DEF IInv

LEMMA ToggleIInv ==
    ASSUME IInv, NEW u \in Users, ToggleActive(u) \/ ToggleMembership(u)
    PROVE  IInv'
<1>1. UNCHANGED <<kafka, member, effects, subscriptions, faults>>
  BY DEF ToggleActive, ToggleMembership
<1>2. changes' \in 0..MaxChanges
  BY DEF ToggleActive, ToggleMembership, Change, IInv, TypeOK
<1>3. active' \subseteq Users /\ approved' \subseteq Users
  BY DEF ToggleActive, ToggleMembership, IInv, TypeOK
<1>4. TypeOK'
  BY <1>1, <1>2, <1>3 DEF IInv, TypeOK, kafka, effects
<1> QED
  BY <1>1, <1>4, AccountsIInv

LEMMA WebPushIInv ==
    ASSUME IInv, NEW u \in Users, NEW t \in Tokens,
           RegisterWebPush(u, t) \/ RemoveWebPush(u, t)
    PROVE  IInv'
<1>1. UNCHANGED <<kafka, member, effects, active, approved, faults>>
  BY DEF RegisterWebPush, RemoveWebPush
<1>2. changes' \in 0..MaxChanges
  BY DEF RegisterWebPush, RemoveWebPush, Change, IInv, TypeOK
<1>3. subscriptions' \in [Users -> SUBSET Tokens]
  <2>1. subscriptions \in [Users -> SUBSET Tokens]
    BY DEF IInv, TypeOK
  <2>2. CASE RegisterWebPush(u, t)
    BY <2>1, <2>2 DEF RegisterWebPush
  <2>3. CASE RemoveWebPush(u, t)
    BY <2>1, <2>3 DEF RemoveWebPush
  <2> QED
    BY <2>2, <2>3
<1>4. TypeOK'
  BY <1>1, <1>2, <1>3 DEF IInv, TypeOK, kafka, effects
<1> QED
  BY <1>1, <1>4, AccountsIInv

-----------------------------------------------------------------------------
(* The theorems *)

LEMMA InitIInv == Init => IInv
<1> SUFFICES ASSUME Init PROVE IInv
  OBVIOUS
<1>1. TypeOK
  BY DEF Init, TypeOK, Member
<1>2. RowsExactlyOnce /\ CommittedIsSettled /\ StoredEventsWereEmitted
  BY DEF Init, RowsExactlyOnce, CommittedIsSettled, StoredEventsWereEmitted
<1>3. \A m \in Members : MemberOK(m)
  BY DEF Init, MemberOK
<1> QED
  BY <1>1, <1>2, <1>3 DEF IInv

LEMMA NextIInv ==
    ASSUME IInv, [Next]_vars
    PROVE  IInv'
<1>1. CASE UNCHANGED vars
  <2>1. UNCHANGED <<kafka, member, effects, accounts, faults>>
    BY <1>1 DEF vars
  <2>2. TypeOK'
    BY <2>1 DEF IInv, TypeOK, kafka, effects, accounts
  <2> QED
    BY <2>1, <2>2, AccountsIInv
<1>2. ASSUME NEW m \in Members, Step(m) PROVE IInv'
  BY <1>2, FetchIInv, EmitIInv, ProcessIInv, NoRowsIInv, CommitIInv DEF Step
<1> QED
  BY <1>1, <1>2, PublishIInv, BackIInv, ToggleIInv, WebPushIInv DEF Next

\* The inductive invariant of the consumer group holds in every execution: what a
\* member has under way is a record of the partition, and the owner's is the
\* first one that is not committed.
THEOREM Invariance == Spec => []IInv
<1>1. IInv /\ [Next]_vars => IInv'
  BY NextIInv
<1> QED
  BY <1>1, InitIInv, PTL DEF Spec

\* INSERT INTO processed_events makes the effects exactly-once over Kafka's
\* at-least-once delivery: however often a command is published, redelivered or
\* handled by two members at a time, it makes its rows once.
THEOREM RowsOnce == Spec => []ConsumedExactlyOnce
<1>1. IInv => ConsumedExactlyOnce
  BY DEF IInv, ConsumedExactlyOnce
<1> QED
  BY <1>1, Invariance, PTL

\* The offset is committed after the record is dealt with and only by the owner,
\* so that no crash, error or rebalance leaves a record behind, and a stored
\* booking notification was emitted to the websocket rooms before.
THEOREM NoRecordIsLost == Spec => []NothingIsLost
<1>1. IInv => NothingIsLost
  BY DEF IInv, NothingIsLost
<1> QED
  BY <1>1, Invariance, PTL
=============================================================================
