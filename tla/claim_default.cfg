SPECIFICATION Spec
CONSTANTS
    Player <- TwoPlayers
    Id <- OwnName
    Settings <- SomeSettings
    NoArgument = ""
    MaxThrows = 2
INVARIANT DefaultArgumentArrives
