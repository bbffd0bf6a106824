SPECIFICATION FairSpec
CONSTANTS
    j1 = j1
    j2 = j2
    k1 = k1
    k2 = k2
    c1 = c1
    Jobs = {j1}
    Keys = {k1}
    Callers = {c1}
    Priorities = {0}
    Budgets = {2}
    None = None
    MaxClock = 0
    MaxRelaunch = 1
CHECK_DEADLOCK FALSE
PROPERTY FailedIsTriedAgain
