SPECIFICATION PeopleSpec
CONSTANTS
    Users = {ann, bob}
    Tokens = {t1, t2, t3}
    Requests = {r1, r2}
    ann = ann
    bob = bob
    t1 = t1
    t2 = t2
    t3 = t3
    r1 = r1
    r2 = r2
    LoginNonces = {n1}
    LinkNonces = {n2, n3}
    People = {ph1, ph2}
    Nobody = Nobody
    Guests = {guest}
    MaxAttempts = 3
    MaxAsked = 3
    n1 = n1
    n2 = n2
    n3 = n3
    ph1 = ph1
    ph2 = ph2
    guest = guest
SYMMETRY SessionSymmetry
CHECK_DEADLOCK FALSE
INVARIANTS
    TypesOK
    OneLivePerChain
    NoncesSound
    RegisteredOnce
PROPERTIES
    ImplementsChains
    LockedOutForEver
