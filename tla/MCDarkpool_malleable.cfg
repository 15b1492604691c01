SPECIFICATION Spec
CONSTANTS
    k1 = k1
    Nil = Nil
    NATIVE = native
    WETH = weth
    Tokens = {weth, usdc}
    SkimTokens = {}
    Keys = {k1}
    Blinders = {1, 2, 3, 4}
    NoteIds = {}
    FeeKeys = {f1}
    FeeRates = {1, 2}
    RelayerRates = {0}
    Prices = {1, 3}
    Precision = 2
    Amounts = {1, 2}
    EthValues = {0, 2}
    Donations = {}
    Forged = {}
    TreeCapacity = 7
    Overridable = {native}
    MaxCustody = 2
    MaxEth = 0
INVARIANT NoWalletOverdrawn
PROPERTY FeesAtRateInForce
CHECK_DEADLOCK FALSE
