CONSTANTS
    N = 1
    Chars <- OnlyTokens
    Rejected = {}
    Separators <- TokenEnd
    PipeSize = 2
    BufSize = 1
    MaxOutput = 1
    MaxInput = 3
    Closable = {"in", "out"}
SPECIFICATION FairSpec
INVARIANTS
    InputInOrder
    WaitIsArmed
PROPERTIES
    EndIsAnswered
    GoneReaderIsHarmless
