SPECIFICATION Spec
CONSTANTS
    Bookings = {b1}
    Members = {b1}
    Orders = {o1, o2}
    NoBooking = NoBooking
    Requests = {r1}
    Qtys = {1}
    Price = 1
    InitialStock = 1
    FirstPlay = 1
    MaxPlay = 2
    MaxPaid = 3
    LimitPercent = 50
    b1 = b1
    o1 = o1
    o2 = o2
    r1 = r1
CHECK_DEADLOCK FALSE
INVARIANTS
    ClosedBillComplete
