CONSTANTS
    m1 = m1
    m2 = m2
    large = large
    small = small
    stripped = stripped
    object = object
    text = text
    File <- Files
    header <- Headers
    Entries = 3
    Manager <- TwoManagers
    Table <- TwelveTables
    PA <- Pages
    MapVA <- AllVA
    Access <- UserWrites
    NULL = NULL
    blocksize = 2
    Sizes <- SomeSizes
    JOB_BASE_USER = 18
    UserPage <- SevenPages
SPECIFICATION LoadSpec
INVARIANTS UserPagesPrivate ProgramAndStackMapped KernelInEveryJob ProgramIsLoaded LoadsCompleteFiles
