CONSTANTS
    NULL = NULL
    MAX_INTS = 96
    OtherId = 78
    MaxRequests = 3
SPECIFICATION FairSpec
INVARIANTS OnlyOwnInterrupts OnlyEarlyTickUnhandled UserEntryReady
PROPERTY BootEnds
