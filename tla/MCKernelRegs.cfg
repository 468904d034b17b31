CONSTANTS
    j1 = j1
    j2 = j2
    Job <- TwoSlots
    NULL = NULL
    Ages <- TwoAges
SPECIFICATION Spec
INVARIANT AllRegistersIntact
