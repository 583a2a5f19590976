CONSTANTS
    N = 2
    Chars <- OnlyTokens
    Rejected = {}
    Separators <- TokenEnd
    PipeSize = 1
    BufSize = 1
    MaxOutput = 1
    MaxInput = 0
    Closable = {}
SPECIFICATION Spec
INVARIANT OnlyCurrentRuns
