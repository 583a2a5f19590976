SPECIFICATION Spec
CONSTANTS
    Word <- TwoLetters
    Data <- ShortFields
    Messages = 2
    Foreign = 6
INVARIANTS TypeOK RoundTrip Canonical CutCommandIsSpecial CutResultKeepsStatus AbortsOnlyBehindBackslash
