CONSTANTS
    blocks = 5
    HEAP_BLOCK_SIZE_BYTES = 2
    heap_start_address = 4
    MaxSize = 11
    power_on <- ZeroedRam
SPECIFICATION FairSearchSpec
INVARIANTS TableMatchesRegions FreeBlocksExact SearchIsFirstFit ReadsStayInTable
PROPERTIES ImplementsRegionAllocator SearchStops
