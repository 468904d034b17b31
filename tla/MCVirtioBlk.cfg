CONSTANTS
    s1 = s1
    s2 = s2
    b1 = b1
    b2 = b2
    d1 = d1
    d2 = d2
    NULL = NULL
    QUEUE_SIZE = 2
    UINT16_RANGE = 4
    Sector <- TwoSectors
    Buffer <- TwoBuffers
    Data <- TwoContents
SPECIFICATION FairDiskSpec
INVARIANTS ReturnsWithDataMoved InterruptFindsSync
PROPERTY RequestReturns
