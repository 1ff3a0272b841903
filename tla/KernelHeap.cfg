SPECIFICATION Spec
CONSTANTS
    NPages = 3
    None = None
    UNIT = 2
    PAGE = 8
    BIGBLOCK = 3
    Sizes = {2, 3, 8, 16}
    UserBlocks = {1}
    MaxHeld = 4
INVARIANTS
    HeapTiled
    BlocksLargeEnough
PROPERTIES
    ImplementsPages
    GrowSuffices
CHECK_DEADLOCK FALSE
