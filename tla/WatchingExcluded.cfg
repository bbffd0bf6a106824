SPECIFICATION WatchSpec
CONSTANTS
    Roots = {"r1", "r2"}
    Order <- MCOrder
    Root <- MCRoot
    Admitted = {"git", "plain"}
    Excluded = {"git"}
    Readable = {"git", "plain"}
    MaxScan = 2
    MaxOps = 0
CHECK_DEADLOCK FALSE
INVARIANT ExcludedStayOut
