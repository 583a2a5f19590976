CONSTANTS
    Chars <- WithNul
    NUL = "0"
    Arguments <- ShortArguments
    MaxChunk = 3
    MaxData = 6
SPECIFICATION Spec
INVARIANTS
    TypeOK
    TokenEndsWithSeparator
    FirstSeparatorEndsToken
    AbortsOnlyWithoutSeparator
