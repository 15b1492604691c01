SPECIFICATION Spec
CONSTANTS
    alice = alice
    bob = bob
    relayer = relayer
    usdc = usdc
    weth = weth
    fot = fot
    otk = otk
    Precision = 2
    Tokens = {usdc, weth, fot}
    SkimTokens = {fot}
    Permits <- MCPermits
    PrivateIntents <- PrivateSale
    Balances <- SettleBalances
    Signatures <- SettleSignatures
    Obligations <- SettleObligations
    Offered = {"NATIVELY_SETTLED_PUBLIC_INTENT",
               "NATIVELY_SETTLED_PRIVATE_INTENT", "RENEGADE_SETTLED_INTENT"}
    Named <- SettleNamed
    Verdicts = {TRUE}
    Amounts = {1}
    EmptyProofVerifies = TRUE
    AllowanceSize = 4
    MaxCustody = 1
INVARIANTS TypeOK FilledWithinAuthorizations ExecutorsSignedEveryFill
    PaidAtPriceUpToRounding DepositsFundWithdrawals
PROPERTY SettlementMovesCustody
CHECK_DEADLOCK FALSE
