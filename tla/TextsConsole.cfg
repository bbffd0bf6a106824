SPECIFICATION MCSpec
CONSTANTS
    Batch = 1
    MinRef = 3
    Ratio = 2
    MinChars = 2
    MaxDrawings = 1
    MaxWords = 3
    ShortDoc = 2
    ShortPpt = 3
    MaxRows = 2
    Files <- MCFiles
    Window = 6
    WidePages = 20
    MinDigits = 2
    RetentionMin = 60
    MaxLines = 1
    MaxQuestions = 3
    ItemsMax = 2
    Generic <- MCGeneric
    Table <- MCTable
    Templates <- MCTemplates
    Answers <- MCAnswers
    Summaries <- MCSummaries
    Analyses <- MCAnalyses
    NoText = NoText
    MaxEdits = 2
    MaxTime = 4
    Broken = Broken
    Invalid = Invalid
    None = None
    Questions = {"q", "r"}
    Dataset <- MCDataset
    Outcomes <- MCOutcomes
    Configs <- MCConfigs
    MaxAsks = 2
    MaxCalls = 2
    MaxEvals = 1
    Nil = Nil
    NoQuestion = NoQuestion
    T = T
    U = U
CHECK_DEADLOCK FALSE
INVARIANTS
    FragmentsHoldTheText
    PositionsAreTrue
    HeadersAreShown
    PagesAreTrue
    DocumentsAreRead
    FlagsAreRight
    AnnexedIsComplete
    MotivesAreAsked
    ReloadedIsInForce
    EditsAreKept
    RereadIsCurrent
    PageIsTrue
    ReportsAreSound
