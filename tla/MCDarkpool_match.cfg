SPECIFICATION Spec
CONSTANTS
    k1 = k1
    Nil = Nil
    NATIVE = native
    WETH = weth
    Tokens = {weth, usdc, fot}
    SkimTokens = {fot}
    Keys = {k1}
    Blinders = {1, 2, 3, 4, 5, 6}
    NoteIds = {1}
    FeeKeys = {f1, f2}
    FeeRates = {1}
    RelayerRates = {1}
    Prices = {4}
    Precision = 4
    Amounts = {4}
    EthValues = {0, 4}
    Donations = {4}
    Forged <- MCForged
    TreeCapacity = 7
    Overridable = {}
    MaxCustody = 4
    MaxEth = 4
INVARIANTS TypeOK Solvent BlinderIdentifiesWallet SpentWasCommitted
PROPERTIES ImplementsLedger 
CHECK_DEADLOCK FALSE
