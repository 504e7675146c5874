SPECIFICATION Spec
CONSTANTS
    Logins = {}
    Links = {n1}
    Staff = {ann}
    People = {ph1}
    Hooks = {h1}
    Polls = {p1}
    Nobody = Nobody
    n1 = n1
    ann = ann
    ph1 = ph1
    h1 = h1
    p1 = p1
CHECK_DEADLOCK FALSE
INVARIANTS
    ReadyMeansStored
