SPECIFICATION Spec
CONSTANTS
    t1 = t1
    t2 = t2
    c1 = c1
    c2 = c2
    c3 = c3
    Tabs = {t1, t2}
    Calls = {c1, c2, c3}
    TabOf <- MCTabOf
    Roots = {r1, r2}
    None = None
    NoContext = NoContext
    MaxCalls = 3
    MaxTokens = 4
    MaxLinks = 2
    MaxLost = 1
    MaxChanges = 1
INVARIANTS TokensFollowTheSession EndedSessionsStayEnded ResetLinksAreSingle SignedOutForCause
CHECK_DEADLOCK FALSE
SYMMETRY Symmetry
