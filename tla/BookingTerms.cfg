\* Resources and memberships change under a fair request.
SPECIFICATION FairSpec
CONSTANTS
    o1 = o1  o2 = o2  u1 = u1  r1 = r1  s1 = s1
    None = None
    Users = {u1, u2}
    Orgs = {o1, o2}
    Resources = {r1}
    Slots = {s1}
    BookingIds = {b1, b2}
    Requests = {p1}
    StartsAt <- MCStartsAtTwo
    EndsAt <- MCEndsAtThree
    MaxTime = 2
    Costs = {3}
    Notices = {0, 1}
    InitialPoints = 3
    MaxGrants = 0
    MaxTriggers = 1
    Leavers = {u2}
    UpdateStatuses = {"ACTIVE", "INACTIVE"}
    MAX_SERIALIZATION_ATTEMPTS = 3
    Unreliable = TRUE
    Owner <- MCOwner
    Ancestors <- MCAncestors
    Admins <- MCAdmins
    SlotResource <- MCSlotResource
PROPERTIES RequestsEnd
