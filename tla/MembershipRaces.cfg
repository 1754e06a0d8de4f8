\* Two requests of administrators race over the members of a university and its
\* department, whose rows are removed and made again.
SPECIFICATION Spec
CONSTANTS
    o1 = o1  o2 = o2  u1 = u1  u2 = u2
    None = None
    Users = {u1, u2}
    Orgs = {o1, o2}
    Requests = {p1, p2}
    Parent <- MCParent
    Ancestors <- MCAncestors
    Founders <- MCFounders
    Bonuses = {1}
    OrgStatuses = {}
    Invited = {}
    MaxGen = 2
SYMMETRY MCSymmetry
INVARIANTS MembershipsAreSound OrganizationsKeepAdministrators
PROPERTIES DecisionsStand
\* An organization that is suspended or has lost its administrators stays so:
\* the service lets nobody change it.
CHECK_DEADLOCK FALSE
