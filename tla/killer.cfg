CONSTANTS
    Ids <- Processes
    Groups <- AllGroups
    Cgroup <- GroupOf
    Unprotected <- Listed
    Own = "id_killer"
SPECIFICATION FairSpec
INVARIANTS
    TypeOK
    StatusMatchesCommand
PROPERTIES
    ImplementsKiller
    NobodyIsLeftWaiting
