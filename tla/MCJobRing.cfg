CONSTANTS
    j1 = j1
    j2 = j2
    j3 = j3
    j4 = j4
    Job <- Slots
    NULL = NULL
SPECIFICATION FairSpec
INVARIANTS SingleRing HaltsOnlyWhen
PROPERTIES ImplementsRoundRobin TerminatedIsDeleted RunningGetsTurn
