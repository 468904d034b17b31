CONSTANTS
    m1 = m1
    m2 = m2
    Entries = 3
    Manager <- TwoManagers
    Table <- FiveTables
    PA <- TwoPages
    MapVA <- SomePages
    Access <- UserWrites
    NULL = NULL
SPECIFICATION Spec
INVARIANT TablesFormTrees
PROPERTY ImplementsAddressSpace
