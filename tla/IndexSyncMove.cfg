SPECIFICATION Spec
CONSTANTS
    p1 = p1
    p2 = p2
    n1 = n1
    x1 = x1
    A = A
    B = B
    C = C
    None = None
    Names = {n1}
    Indexes = {x1}
    Index <- OneIndex
    Chunks <- Sizes
    Name <- SameName
    Content <- NewContents
    Paths = {p1, p2}
    MaxDocs = 3
    MaxAsks = 1
    Scenarios <- MovingOnly
CHECK_DEADLOCK FALSE
INVARIANT ReconciledIsComplete
