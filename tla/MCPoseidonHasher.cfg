SPECIFICATION Spec
CONSTANTS
    PRIME = 7
    WORD = 1024
    R_F = 4
    R_P = 3
    FULL_ROUND_CONSTANTS <- FullConstants
    PARTIAL_ROUND_CONSTANTS <- PartialConstants
    Elements = {0, 1, 6, 12}
    Indices = {0, 1, 2, 3}
    MaxSisters = 2
    MaxInputs = 5
INVARIANT ReturnsReference
PROPERTY StateIsOnTop
CHECK_DEADLOCK FALSE
