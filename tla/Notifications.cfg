SPECIFICATION NoticesSpec
CONSTANTS
    Bookings = {b1}
    Workers = {w1, w2}
    Loops = {l1, l2}
    MAX_SEND_ATTEMPTS = 2
    SEND_BATCH = 1
    b1 = b1
    w1 = w1
    w2 = w2
    l1 = l1
    l2 = l2
    Clubs = {"c1", "c2"}
    ActiveClubs = {"c1"}
    People = {"s", "g"}
    Nobody = "nobody"
    NoClub = "noclub"
    Posts <- OnePost
    Grades = {"ADMIN", "STAFF"}
    AppConns = {k1, k2}
    PlatformConns = {p1}
    NoConn = NoConn
    Tasks = {t1, t2}
    k1 = k1
    k2 = k2
    p1 = p1
    t1 = t1
    t2 = t2
INVARIANTS
    TypesOK
    NotesSound
PROPERTIES
    SentForEver
    PendingResolved
    RequestsFinish
