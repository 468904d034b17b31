CONSTANTS
    TEXT = 7
    LINE = 11
    PREFIX = 6
    MEMORY = 24
    MHZ = 4
    Frequency <- Frequencies
    Counter <- Counts
    Stack <- Stacks
    Call <- Calls
SPECIFICATION Spec
INVARIANTS LineIsExact WritesStayInside
