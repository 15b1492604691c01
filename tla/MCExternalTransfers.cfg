SPECIFICATION Spec
CONSTANTS
    NATIVE = native
    WETH = weth
    Tokens = {weth, hook, skim}
    SkimTokens = {skim}
    HookTokens = {hook}
    Amounts = {2}
    Fees = {0, 1}
    MaxDepth = 2
    MaxOwed = 4
INVARIANTS ExactAtRest CoveredInCallbacks
