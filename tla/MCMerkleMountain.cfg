SPECIFICATION Spec
CONSTANTS
    a = a
    Leaf <- MCLeaf
    ZERO_VALUE = zero
    MERKLE_DEPTH = 2
    Hash <- HashPair
    Depths = {0, 1, 2}
    MaxInsertions = 7
INVARIANT NeverOverfull
PROPERTY ImplementsLogs
CHECK_DEADLOCK FALSE
