SPECIFICATION Spec
CONSTANTS
    Radix = 1024
    WordBytes = 3
    AddressBytes = 2
    ScalarModulus = 1073741789
    NumWires = 2
    Leaf = {1, 2, 3, 4, 5, 6, 7, 8, 9, 10, 11, 12}
    ZERO_VALUE = 0
    MERKLE_DEPTH = 3
    Hash <- HashNumber
    DARKPOOL = 9000
    PERMIT2 = 8000
    QUOTE_TOKEN = 300
    BASE_TOKEN = 5000
    TESTER = 7000
    Window = 4
    Amount = 10
    MatchSides = {"Buy", "Sell"}
    AtomicSides = {"Buy", "Sell"}
    MaxOther = 2
INVARIANTS
    PathIsOfNextLeaf
    OpeningsAuthenticate
    FailuresExplained
    PassedMeansApplied
PROPERTIES
    ImplementsLog
    TestsEnd
CHECK_DEADLOCK FALSE
