SPECIFICATION Spec
CONSTANTS
    Ids = {b1}
    Stations = {s1}
    Requests = {r1, r2}
    Horizon = 3
    OpenHours = {0, 1}
    MinHours = 1
    MaxHours = 1
    MaxExtend = 1
    MaxTotal = 2
    Rates = {1}
    Unversioned = TRUE
    MaxVersion = 0
CHECK_DEADLOCK FALSE
PROPERTIES
    CancelledIsFinal
