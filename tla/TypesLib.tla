------------------------------ MODULE TypesLib ------------------------------
(***************************************************************************)
(* The arithmetic of v1 matches: their legs as the external party sees      *)
(* them, the range that a malleable match leaves open, and fees.            *)
(***************************************************************************)
EXTENDS FixedPoint

Direction == {"InternalPartyBuy", "InternalPartySell"}

(* The legs of an external match, as the external party sees them.          *)
externalPartySell(m) ==
    IF m.direction = "InternalPartyBuy"
    THEN [mint |-> m.baseMint, amount |-> m.baseAmount]
    ELSE [mint |-> m.quoteMint, amount |-> m.quoteAmount]

externalPartyBuy(m) ==
    IF m.direction = "InternalPartyBuy"
    THEN [mint |-> m.quoteMint, amount |-> m.quoteAmount]
    ELSE [mint |-> m.baseMint, amount |-> m.baseAmount]

\* A slip: only the lower bound is checked.
validateBaseAmountUncapped(bounds, baseAmount) == bounds.minBaseAmount <= baseAmount

(* validateBaseAmount and validateQuoteAmount, against a proved range.      *)
validateBaseAmount(bounds, baseAmount) ==
    bounds.minBaseAmount <= baseAmount /\ baseAmount <= bounds.maxBaseAmount

validateQuoteAmount(bounds, quoteAmount, baseAmount) ==
    LET Quote(base) == unsafeFixedPointMul(bounds.price, base)
        isSell == bounds.direction = "InternalPartyBuy"
        rangeMin == IF isSell THEN Quote(bounds.minBaseAmount) ELSE Quote(baseAmount)
        rangeMax == IF isSell THEN Quote(baseAmount) ELSE Quote(bounds.maxBaseAmount)
    IN  rangeMin <= quoteAmount /\ quoteAmount <= rangeMax

validateAmounts(bounds, quoteAmount, baseAmount) ==
    /\ quoteAmount # 0 /\ baseAmount # 0
    /\ validateBaseAmount(bounds, baseAmount)
    /\ validateQuoteAmount(bounds, quoteAmount, baseAmount)

buildExternalMatchResult(quoteAmount, baseAmount, bounds) ==
    [baseMint |-> bounds.baseMint, quoteMint |-> bounds.quoteMint,
     baseAmount |-> baseAmount, quoteAmount |-> quoteAmount,
     direction |-> bounds.direction]

computeFeeTake(relayerRate, protocolRate, x) ==
    [relayer  |-> unsafeFixedPointMul(relayerRate, x),
     protocol |-> unsafeFixedPointMul(protocolRate, x)]

total(feeTake) == feeTake.relayer + feeTake.protocol
=============================================================================
