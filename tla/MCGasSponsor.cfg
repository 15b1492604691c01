SPECIFICATION Spec
CONSTANTS
    alice = alice
    usdc = usdc
    weth = weth
    k1 = k1
    k2 = k2
    Accounts = {alice, bob}
    Nobody = nobody
    Tokens = {usdc, weth}
    NATIVE = native
    AuthKeys = {k1, k2}
    Nonces = {1, 2}
    Grants <- MCGrants
    Matches <- MCMatches
    MaxDepth = 2
    MaxFunds = 2
INVARIANT ReportsAmountReceived
