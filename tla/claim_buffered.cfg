CONSTANTS
    N = 1
    Chars <- OnlyTokens
    Rejected = {}
    Separators <- TokenEnd
    PipeSize = 2
    BufSize = 2
    MaxOutput = 2
    MaxInput = 0
    Closable = {}
SPECIFICATION Spec
PROPERTY BufferedTokenIsDelivered
