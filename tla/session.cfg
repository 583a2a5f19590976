SPECIFICATION FairSpec
CONSTANTS
    CommandPipe = 2
    ResultPipe = 2
    Ahead = 2
    MaxCommands = 6
INVARIANTS TypeOK AnswerMatchesEnd NeverBothBlocked ExitZeroIsComplete
PROPERTIES ImplementsSession EndReturns
