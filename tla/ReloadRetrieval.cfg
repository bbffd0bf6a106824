SPECIFICATION PagesSpec
CONSTANTS
    MaxEdits = 2
    MaxTime = 4
    Broken = Broken
    Invalid = Invalid
    None = None
    Questions = {"q", "r"}
    Dataset <- MCDataset
    Outcomes <- MCOutcomes
    Configs <- MCConfigs
    MaxAsks = 2
    MaxCalls = 2
    MaxEvals = 1
    Nil = Nil
    NoQuestion = NoQuestion
    T = T
    U = U
CHECK_DEADLOCK FALSE
INVARIANT
    RetrievalIsInForce
