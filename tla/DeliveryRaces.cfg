\* Two instances poll an email and a push delivery; workers die, updates fail and
\* answers get lost.
SPECIFICATION FairSpec
CONSTANTS
    N = 2
    Emails = {1}
    Workers = {w1, w2}
    Retries = 2
    Limit = 2
    MaxFaults = 2
    LoseAnswers = TRUE
    SlowSends = FALSE
INVARIANTS WorkersHoldTheirRows SendsAreBounded ContentUntilAccepted
PROPERTIES OutcomeIsFinal DeliveriesSettle
