SPECIFICATION Spec
CONSTANTS
    Commands = {1}
    Bills = {1}
    Tabs = {w1}
    Calls = {t1}
    Bodies = {b}
    Results = {done}
    AnswersEarly = TRUE
    Clubs = {here}
    ClubOf <- FirstClub
    w1 = w1
    t1 = t1
    b = b
    done = done
    here = here
PROPERTIES
    RetriesReplay
