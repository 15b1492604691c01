---------------------- MODULE MCMalleableMatchConnector ----------------------
(* A small instance of MalleableMatchConnector in front of MCGasSponsor.    *)
EXTENDS MCGasSponsor, MalleableMatchConnector

\* Of the matches sponsored directly, the one that no offer is like.
MCDirect == {[sell |-> LegOf(weth, 1), buy |-> LegOf(usdc, 2)]}

\* At prices above and below one: native sold, native bought, and neither.
MCOffers ==
    {[quoteMint |-> usdc, baseMint |-> NATIVE, price |-> 1, direction |-> "InternalPartyBuy",
      minBaseAmount |-> 1, maxBaseAmount |-> 2],
     [quoteMint |-> usdc, baseMint |-> NATIVE, price |-> 3, direction |-> "InternalPartySell",
      minBaseAmount |-> 1, maxBaseAmount |-> 2],
     [quoteMint |-> usdc, baseMint |-> weth, price |-> 3, direction |-> "InternalPartyBuy",
      minBaseAmount |-> 2, maxBaseAmount |-> 2]}
=============================================================================
