SPECIFICATION Spec
CONSTANTS
    alice = alice
    bob = bob
    relayer = relayer
    usdc = usdc
    weth = weth
    fot = fot
    otk = otk
    Precision = 2
    Tokens = {usdc, weth}
    SkimTokens = {}
    Permits = {}
    PrivateIntents <- PrivateSale
    Balances <- StateBalances
    Signatures <- StateSignatures
    Obligations <- StateObligations
    Offered = {"NATIVELY_SETTLED_PRIVATE_INTENT", "RENEGADE_SETTLED_INTENT",
               "RENEGADE_SETTLED_PRIVATE_FILL"}
    Named <- StateNamed
    Verdicts = {TRUE, FALSE}
    Amounts = {1}
    EmptyProofVerifies = TRUE
    AllowanceSize = 4
    MaxCustody = 1
INVARIANT TreeImpliesSignature
CHECK_DEADLOCK FALSE
