---------------------------- MODULE MCGasSponsor ----------------------------
(* A small instance of GasSponsor.                                          *)
EXTENDS GasSponsor

CONSTANTS alice, usdc, weth, k1, k2

LegOf(mint, amount) == [mint |-> mint, amount |-> amount]

\* A match of each kind: native bought, native sold, neither.
MCMatches ==
    {[sell |-> LegOf(usdc, 1), buy |-> LegOf(NATIVE, 2)],
     [sell |-> LegOf(NATIVE, 1), buy |-> LegOf(usdc, 2)],
     [sell |-> LegOf(weth, 1), buy |-> LegOf(usdc, 2)]}

\* Two grants share a nonce; one is of nothing; one is by another key.
MCGrants ==
    {[key |-> k1, nonce |-> 1, refundAddress |-> Nobody, refundAmount |-> 1],
     [key |-> k1, nonce |-> 1, refundAddress |-> alice, refundAmount |-> 2],
     [key |-> k1, nonce |-> 2, refundAddress |-> alice, refundAmount |-> 1],
     [key |-> k2, nonce |-> 2, refundAddress |-> Nobody, refundAmount |-> 0]}
=============================================================================
