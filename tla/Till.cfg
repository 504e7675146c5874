SPECIFICATION TillSpec
CONSTANTS
    Keys = {k1}
    AnswersEarly = TRUE
    Bodies = {b1, b2}
    Results = {v1, v2}
    Calls = {r1, r2}
    Bookings = {session}
    Members = {session}
    NoBooking = NoBooking
    Orders = {o1, o2}
    Qtys = {1, 2}
    Price = 1
    InitialStock = 1
    FirstPlay = 1
    MaxPlay = 2
    MaxPaid = 3
    LimitPercent = 50
    DeskRequest = solo
    RaceOrders = {o1}
    RaceQtys = {1}
    RacePaid = 2
    Staff = {ann}
    ShiftIds = {s1, s2}
    Expenses = {e1}
    Amounts = {1}
    Nobody = Nobody
    CashBound = 1
    MinuteTicks = 2
    HourMinutes = 2
    DayMinutes = 6
    WeekDays = 2
    MaxCloses = 7
    PastGrace = 1
    TariffIds = {1, 2}
    Forms <- TariffForms
    Settings <- ClubForms
    Kinds = {"vip", "std"}
    Consoles = {"ps5"}
    AnyOne = AnyOne
    Rate = 5
    Now = 1
    Ids = {1, 2}
    DayHours = 2
    Zone = 1
    LastHour = 4
    k1 = k1
    b1 = b1
    b2 = b2
    v1 = v1
    v2 = v2
    o1 = o1
    o2 = o2
    r1 = r1
    r2 = r2
    s1 = s1
    s2 = s2
SYMMETRY TillSymmetry
CHECK_DEADLOCK FALSE
INVARIANTS
    TypesOK
    NeverInProgress
    BillsAddUp
    PricedByTheMinute
    OpenThroughout
    FiguresAddUp
PROPERTIES
    ImplementsOnce
    SumsExact
    QuietForEver
