SPECIFICATION FairSpec
CONSTANTS
    Ids = {b1}
    Stations = {s1}
    Requests = {r1, r2}
    Horizon = 4
    OpenHours = {0, 1, 3}
    MinHours = 1
    MaxHours = 1
    MaxExtend = 2
    MaxTotal = 3
    Rates = {1, 2}
    Unversioned = FALSE
    MaxVersion = 2
CHECK_DEADLOCK FALSE
INVARIANTS
    NothingLost
    SessionWithinLimit
PROPERTIES
    ExtendOnlyOpen
    PendingResolved
