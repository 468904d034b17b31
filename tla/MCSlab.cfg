CONSTANTS
    object_size = 3
    max_store = 9
    starting_address = 5
    UINT32_RANGE = 64
SPECIFICATION Spec
INVARIANTS HeaderMatchesHeld ObjectsDisjoint
PROPERTY ImplementsObjectPool
