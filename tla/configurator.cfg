SPECIFICATION Spec
CONSTANTS
    Player <- TwoPlayers
    Id <- OwnName
    Settings <- SomeSettings
    NoArgument = ""
    MaxThrows = 2
INVARIANTS TypeOK Wired ExclusiveEnds SameGame
