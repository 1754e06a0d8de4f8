SPECIFICATION Spec
CONSTANTS
    x1 = x1
    Bookings = {b1, b2}
    Resources = {x1}
    ResourceOf <- MCResourceOf
    Admins = {a1}
    Calls = {c1, c2}
    Reviews <- MCReviews
    User = User
    None = None
    MaxCalls = 3
    MaxChanges = 1
SYMMETRY Symmetry
INVARIANTS HistoryIsComplete ClosedDisputesStayClosed MarksAreKept
CHECK_DEADLOCK FALSE
