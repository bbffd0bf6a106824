SPECIFICATION MCSpec
CONSTANTS
    t1 = t1
    t2 = t2
    t3 = t3
    p1 = p1
    p2 = p2
    Paths = {p1, p2}
    Nil = Nil
    Timers = {t1, t2, t3}
    Checks = 3
    MaxSize = 4
    Roots = {"r1", "r2"}
    Order <- MCOrder
    Root <- MCRoot
    Admitted = {"git", "xml", "plain"}
    Excluded = {"git"}
    Readable = {"git", "plain"}
    MaxScan = 2
    MaxOps = 2
    d1 = d1
    d2 = d2
    MaxHistory = 4
    Readings <- MCReadings
    MaxAsks = 3
    MaxChats = 2
CHECK_DEADLOCK FALSE
INVARIANTS
    SlotHoldsLatest
    QuietIsStable
    OneQuestionAtATime
    ContextIsWhatPrecedes
    AnswersAreInPlace
PROPERTIES
    LatestIsSubmitted
    Terminates
    IndexFollowsShares
    ScansSettle
    QuestionsAreSettled
