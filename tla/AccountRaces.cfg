SPECIFICATION Spec
CONSTANTS
    e1 = e1
    e2 = e2
    s1 = s1
    s2 = s2
    top = top
    dept = dept
    Emails = {e1, e2}
    Subjects = {s1, s2}
    EmailOf <- MCEmailOf
    Orgs = {top, dept}
    Root = top
    Parent <- MCParent
    DomainOrg = dept
    Requests = {p1, p2}
    None = None
    MaxTokens = 3
    MaxRequests = 4
    MaxChanges = 1
SYMMETRY Symmetry
INVARIANTS AccountsAreSound AddressesAreProven VerificationJoinsOnce GoogleFlowsAreApart
CHECK_DEADLOCK FALSE
