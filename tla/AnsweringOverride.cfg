SPECIFICATION AnswerSpec
CONSTANTS
    r1 = r1
    r2 = r2
    Requests = {r1, r2}
    Threads = 2
    Texts <- CutTexts
    Kinds <- MCKinds
    Questions <- MCQuestions
    MaxReloads = 1
CHECK_DEADLOCK FALSE
INVARIANT OverrideIsTemporary
