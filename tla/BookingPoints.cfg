\* One user with points for one booking books two slots at once, and withdraws
\* slots as their administrator.  Nothing triggers the reevaluation.
SPECIFICATION Spec
CONSTANTS
    o1 = o1  o2 = o2  u1 = u1  r1 = r1  s1 = s1
    None = None
    Users = {u1}
    Orgs = {o2}
    Resources = {r1}
    Slots = {s1, s2}
    BookingIds = {b1, b2}
    Requests = {p1, p2, p3}
    StartsAt <- MCStartsAt
    EndsAt <- MCEndsAt
    MaxTime = 1
    Costs = {0, 3}
    Notices = {0}
    InitialPoints = 3
    MaxGrants = 1
    MaxTriggers = 0
    Leavers = {}
    UpdateStatuses = {}
    MAX_SERIALIZATION_ATTEMPTS = 2
    Unreliable = TRUE
    Owner <- MCOwner
    Ancestors <- MCAncestors
    Admins <- MCAdmins
    SlotResource <- MCSlotResource
SYMMETRY Symmetry
INVARIANTS BalanceIsLedgerSum ActiveSlotIsPublished
