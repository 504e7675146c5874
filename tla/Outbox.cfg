SPECIFICATION FairSpec
CONSTANTS
    Commands = {1}
    Bills = {1}
    Tabs = {w1, w2}
    Calls = {t1}
    Bodies = {b}
    Results = {done}
    AnswersEarly = TRUE
    Clubs = {here, there}
    ClubOf <- FirstClub
    w1 = w1
    w2 = w2
    t1 = t1
    b = b
    done = done
    here = here
    there = there
INVARIANTS
    TypeOK
    SyncedIsApplied
PROPERTIES
    SettledForEver
    QueueDrains
