\* The university and a department that is created, suspended and joined by the
\* rules of its administrators, who work one at a time.
SPECIFICATION Spec
CONSTANTS
    o1 = o1  o2 = o2  u1 = u1  u2 = u2
    None = None
    Users = {u1, u2}
    Orgs = {o1, o2}
    Requests = {p1}
    Parent <- MCParent
    Ancestors <- MCAncestors
    Founders <- MCFounders
    Bonuses = {1}
    OrgStatuses = {"ACTIVE", "SUSPENDED"}
    Invited = {u2}
    MaxGen = 1
PROPERTIES DecisionsStand
\* An organization that is suspended or has lost its administrators stays so:
\* the service lets nobody change it.
CHECK_DEADLOCK FALSE
