SPECIFICATION ChatSpec
CONSTANTS
    d1 = d1
    d2 = d2
    MaxHistory = 4
    Readings <- OneReading
    MaxAsks = 3
    MaxChats = 1
CHECK_DEADLOCK FALSE
INVARIANT SameContext
