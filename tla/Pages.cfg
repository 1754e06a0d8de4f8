SPECIFICATION DashboardSpec
CONSTANTS
    Bookings = {b1}
    FirstSlots = {b1}
    Owner = owner
    Admin = admin
    Gets = {g1, g2}
    Calls = {c1, c2}
    MaxCalls <- MCMaxCalls
    None = None
    MaxFaults = 1
    CatalogueOrgs = {1, 2}
    Items = {1, 2, 3}
    Matching = {1, 2}
    RESOURCE_PAGE_SIZE = 1
    MaxMoves = 3
    MaxShifts = 2
    FormOrgs = {1, 2, 3}
    ParentOf <- MCParentOf
    FormNotices = {0, 11595}
    HourLength = 2
    MaxClock = 3
    MaxFormSteps <- MCMaxFormSteps
    MaxFormFaults = 1
    TreeOrgs = {1, 2, 3, 4, 5}
    TreeParent <- MCTreeParent
    Desk = {1, 2}
    MaxOrgSteps <- MCMaxOrgSteps
    MaxOrgFaults = 1
    Notices = {1, 2}
    NOTIFICATION_TAKE = 1
    Fetches = {1, 2}
    Marks = {1, 2}
    MaxNoticeSteps = 3
    MaxNoticeFaults = 1
INVARIANTS BookingListsAreTruthful BookingPagesSettle CatalogueIsSound FormsAreTruthful MembershipPagesAreTruthful TicksAreAllocated NotificationsAreTruthful
PROPERTIES
    UntouchedSaveChangesNothing
CHECK_DEADLOCK FALSE
