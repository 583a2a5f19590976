CONSTANTS
    N = 1
    Chars <- AnyChar
    Rejected <- Unacceptable
    Separators <- TokenEnd
    PipeSize = 2
    BufSize = 2
    MaxOutput = 3
    MaxInput = 1
    Closable = {}
SPECIFICATION Spec
INVARIANTS
    TypeOK
    OutputInOrder
PROPERTIES
    KilledLeavesItsPipeOnly
    ImplementsContract
