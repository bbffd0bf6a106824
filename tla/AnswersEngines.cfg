SPECIFICATION MCSpec
CONSTANTS
    r1 = r1
    r2 = r2
    Requests = {r1, r2}
    Threads = 1
    Texts <- MCTexts
    Kinds <- MCKinds
    Questions <- MCQuestions
    MaxReloads = 1
    MaxName = 3
    Docs <- MCDocs
    PartCount <- MCPartCount
    OneToken <- MCOneToken
    ResultWindow = 1
    MaxBackups = 2
    Scenarios <- MCScenarios
    NoJob = NoJob
    NoCall = NoCall
    Bm25TopK = 2
    DenseTopK = 3
    Bm25Weight = 45
    DenseWeight = 55
    RrfK = 60
    SearchTopK = 3
    FusionTopK = 3
    RerankTopN = 2
    Ceiling = 1
    Secondary <- MCSecondary
    IsToc <- MCIsToc
CHECK_DEADLOCK FALSE
INVARIANTS
    SufficientIsClean
    NothingHidden
    OverrideIsScoped
    IndexedIsFound
    ErasedIsGone
    RetrievalIsFair
PROPERTIES
    RequestsEnd
