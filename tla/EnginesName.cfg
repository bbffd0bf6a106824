CONSTANTS
    MaxName = 3
    Docs <- MCDocs
    PartCount <- MCPartCount
    OneToken <- MCOneToken
    ResultWindow = 1
    MaxBackups = 2
    Scenarios <- DigitScenarios
    NoJob = NoJob
    NoCall = NoCall
    Bm25TopK = 2
    DenseTopK = 3
    Bm25Weight = 45
    DenseWeight = 55
    RrfK = 60
    SearchTopK = 3
    FusionTopK = 3
    RerankTopN = 2
    Ceiling = 1
    Secondary <- MCSecondary
    IsToc <- MCIsToc
SPECIFICATION Spec
INVARIANT
    InstanceIsItsIndex
CHECK_DEADLOCK FALSE
