\* Every kind of request races for one slot, free or paid.
SPECIFICATION Spec
CONSTANTS
    o1 = o1  o2 = o2  u1 = u1  r1 = r1  s1 = s1
    None = None
    Users = {u1, u2}
    Orgs = {o2}
    Resources = {r1}
    Slots = {s1}
    BookingIds = {b1, b2, b3}
    Requests = {p1, p2}
    StartsAt <- MCStartsAtTwo
    EndsAt <- MCEndsAtThree
    MaxTime = 2
    Costs = {0, 3}
    Notices = {0}
    InitialPoints = 3
    MaxGrants = 0
    MaxTriggers = 1
    Leavers = {}
    UpdateStatuses = {}
    MAX_SERIALIZATION_ATTEMPTS = 2
    Unreliable = TRUE
    Owner <- MCOwner
    Ancestors <- MCAncestors
    Admins <- MCAdmins
    SlotResource <- MCSlotResource
SYMMETRY Symmetry
INVARIANTS OneActiveBookingPerSlot BookingsAreSound
PROPERTIES TerminalStatusIsFinal SlotsGoWithTheirBooking
ImplementsReservation
