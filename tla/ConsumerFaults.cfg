\* Every kind of record; one event is published twice. Two members, crashes,
\* errors and rebalances, accounts and subscriptions that change.
SPECIFICATION FairSpec
CONSTANTS
    c1 = c1  c2 = c2  c3 = c3  c4 = c4  u1 = u1
    Commands = {c1, c2, c3, c4}
    Kind <- MCKind
    Recipient <- MCRecipient
    Users = {u1}
    Tokens = {t1}
    Members = {m1, m2}
    Records <- MCRecords
    MaxFaults = 3
    MaxChanges = 2
INVARIANTS ConsumedExactlyOnce NothingIsLost
PROPERTIES RecordsAreConsumed
\* Bounded publishing: once every record is consumed nothing is left to do.
CHECK_DEADLOCK FALSE
