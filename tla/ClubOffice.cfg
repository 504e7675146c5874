SPECIFICATION OfficeSpec
CONSTANTS
    RoomIds = {r1, r2, r3}
    StationIds = {s1}
    Names = {n1, n2}
    r1 = r1
    r2 = r2
    r3 = r3
    s1 = s1
    n1 = n1
    n2 = n2
    Clubs = {"c1", "c2"}
    ActiveClubs = {"c1"}
    People = {"s", "g"}
    Nobody = "nobody"
    NoClub = "noclub"
    Posts <- MemberPosts
    Grades = {"ADMIN", "STAFF"}
    AppConns = {k1, k2}
    PlatformConns = {p1}
    NoConn = NoConn
    Tasks = {t1, t2}
    k1 = k1
    k2 = k2
    p1 = p1
    t1 = t1
    t2 = t2
    Users = {boss, ann, bob}
    Founders = {boss}
    boss = boss
    ann = ann
    bob = bob
SYMMETRY OfficeSymmetry
CHECK_DEADLOCK FALSE
INVARIANTS
    TypesOK
    InsideOwnClub
    NoBlindSpot
    DoneMeansCommitted
    RosterSound
PROPERTIES
    KindFollowsRoom
    CeilingHolds
