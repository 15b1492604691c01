SPECIFICATION ConnectorSpec
CONSTANTS
    alice = alice
    usdc = usdc
    weth = weth
    k1 = k1
    k2 = k2
    Accounts = {alice, bob}
    Nobody = nobody
    Tokens = {usdc, weth}
    NATIVE = native
    AuthKeys = {k1, k2}
    Nonces = {1, 2}
    Grants <- MCGrants
    Matches <- MCDirect
    MaxDepth = 2
    MaxFunds = 2
    Precision = 2
    Connector = connector
    Offers <- MCOffers
    Inputs = {1, 2, 3}
INVARIANTS TypeOK NoAllowanceLeft ConnectorKeepsNothing InputsInRangeAreAdmitted
PROPERTY CostsSignedRefunds
