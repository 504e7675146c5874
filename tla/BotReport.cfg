SPECIFICATION Spec
CONSTANTS
    Clubs = {"c1", "c2"}
    ActiveClubs = {"c1"}
    People = {"s", "g"}
    Nobody = "nobody"
    NoClub = "noclub"
    Posts <- OneAdmin
    Grades = {"ADMIN", "STAFF"}
    AppConns = {k1, k2}
    PlatformConns = {p1}
    NoConn = NoConn
    Tasks = {t1}
    k1 = k1
    k2 = k2
    p1 = p1
    t1 = t1
INVARIANTS
    BotSeesReport
