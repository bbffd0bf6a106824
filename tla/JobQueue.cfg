SPECIFICATION FairSpec
CONSTANTS
    j1 = j1
    j2 = j2
    k1 = k1
    k2 = k2
    c1 = c1
    Jobs = {j1, j2}
    Keys = {k1, k2}
    Callers = {c1}
    Priorities <- MCPriorities
    Budgets = {2}
    None = None
    MaxClock = 1
    MaxRelaunch = 1
CHECK_DEADLOCK FALSE
INVARIANTS
    InProgressIsHeld
    OneFreshPendingPerKey
    VerdictMatchesAttempts
PROPERTIES
    PendingIsServed
    KeepsLedger
