SPECIFICATION DocumentsSpec
CONSTANTS
    Batch = 1
    MinRef = 3
    Ratio = 2
    MinChars = 2
    MaxDrawings = 1
    MaxWords = 1
    ShortDoc = 2
    ShortPpt = 3
    MaxRows = 2
    Files <- OtherFiles
    Window = 6
    WidePages = 20
    MinDigits = 2
    RetentionMin = 60
    MaxLines = 1
    MaxQuestions = 3
    ItemsMax = 2
    Generic <- MCGeneric
    Table <- MCTable
    Templates <- MCTemplates
    Answers <- MCAnswers
    Summaries <- MCSummaries
    Analyses <- MCAnalyses
    NoText = NoText
CHECK_DEADLOCK FALSE
INVARIANT
    FragmentsKeepToTheSize
