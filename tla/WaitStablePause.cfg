SPECIFICATION WaitSpec
CONSTANTS
    Checks = 3
    MaxSize = 4
INVARIANT StableAcrossPause
CHECK_DEADLOCK FALSE
