----------------------- MODULE MalleableMatchConnector -----------------------
(***************************************************************************)
(* A front for the gas sponsor: its caller names one amount, what it puts   *)
(* in, and the connector works out both amounts of a malleable match.  The  *)
(* caller's tokens go through the connector to the sponsor, and from there  *)
(* to the darkpool.  The fees of the external party are left out here.      *)
(***************************************************************************)
EXTENDS GasSponsor, TypesLib

CONSTANTS
    Connector,      \* the connector's address
    Offers,         \* what malleable matches leave open, as proved
    Inputs          \* amounts put in

ASSUME ConnectorAssumption ==
    /\ Connector \notin Accounts \cup {Nobody}
    /\ Inputs \subseteq Nat
    /\ Offers \subseteq [quoteMint : Tokens, baseMint : Mints, price : Nat \ {0},
                         minBaseAmount : Nat, maxBaseAmount : Nat, direction : Direction]

VARIABLES
    holdings,       \* [funds, allowance] of the connector, per mint; the
                    \* allowance is the sponsor's
    committedHoldings   \* holdings before the current transaction
connectorVars == <<vars, holdings, committedHoldings>>

NoHoldings == [funds |-> [t \in Tokens |-> 0], allowance |-> [t \in Tokens |-> 0]]

ConnectorInit == Init /\ holdings = NoHoldings /\ committedHoldings = NoHoldings

-----------------------------------------------------------------------------
(* Both amounts from the one put in, which is of the mint that is sold.     *)
ResolvedAmounts(bounds, inputAmount) ==
    IF bounds.direction = "InternalPartyBuy"
    THEN [base |-> inputAmount, quote |-> unsafeFixedPointMul(bounds.price, inputAmount)]
    ELSE [base |-> divIntegerByFixedPoint(inputAmount, bounds.price), quote |-> inputAmount]

SellLeg(amounts, bounds) ==
    IF bounds.direction = "InternalPartyBuy"
    THEN [mint |-> bounds.baseMint, amount |-> amounts.base]
    ELSE [mint |-> bounds.quoteMint, amount |-> amounts.quote]

(* h after the caller has paid a leg in and the sponsor may take it.        *)
Credited(h, leg) ==
    IF leg.mint = NATIVE THEN h
    ELSE [h EXCEPT !.funds[leg.mint] = @ + leg.amount, !.allowance[leg.mint] = @ + leg.amount]

\* A slip: the amount is that of the quote in both directions.
CustodyTokensQuote(h, amounts, bounds) ==
    Credited(h, [SellLeg(amounts, bounds) EXCEPT !.amount = amounts.quote])

(* _custodyTokens: nothing for native currency, which comes as value.       *)
CustodyTokens(h, amounts, bounds) == Credited(h, SellLeg(amounts, bounds))

(* The sponsor's _custodySendTokens, seen from the connector, its caller.   *)
SponsorAccepts(h, leg) ==
    leg.mint # NATIVE => leg.amount <= h.funds[leg.mint] /\ leg.amount <= h.allowance[leg.mint]

SponsorTakes(h, leg) ==
    IF leg.mint = NATIVE THEN h
    ELSE [h EXCEPT !.funds[leg.mint] = @ - leg.amount, !.allowance[leg.mint] = @ - leg.amount]

(* Who is paid when the receiver is address(0).                             *)
ResolvedReceiver(receiver, sender) == IF receiver = Nobody THEN sender ELSE receiver

(* The match that the sponsor makes of the amounts.                         *)
MatchOf(amounts, bounds) ==
    LET result == buildExternalMatchResult(amounts.quote, amounts.base, bounds)
    IN  [sell |-> externalPartySell(result), buy |-> externalPartyBuy(result)]

(* No check fails, of the connector, the sponsor or the darkpool.           *)
CanExecute(input, bounds, grant, value) ==
    LET amounts == ResolvedAmounts(bounds, input)
        match   == MatchOf(amounts, bounds)
    IN  /\ validateAmounts(bounds, amounts.quote, amounts.base)
        /\ SponsorAccepts(CustodyTokens(holdings, amounts, bounds), match.sell)
        /\ CanSponsorMatch(match, grant, value)

(* The sponsor resolves the receiver once more, its caller being the        *)
(* connector.                                                               *)
executeMalleableAtomicMatchWithInput(origin, caller, input, receiver, bounds, grant, inEth, value) ==
    LET amounts == ResolvedAmounts(bounds, input)
        match   == MatchOf(amounts, bounds)
        payee   == ResolvedReceiver(ResolvedReceiver(receiver, caller), Connector)
    IN  /\ CanExecute(input, bounds, grant, value)
        /\ holdings' = SponsorTakes(CustodyTokens(holdings, amounts, bounds), match.sell)
        /\ SponsorMatch(origin, payee, match, grant, inEth, value)
        /\ UNCHANGED committedHoldings

WithInput ==
    /\ MayCall
    /\ \E origin \in Origins, caller \in Accounts, receiver \in Accounts \cup {Nobody} :
       \E inputAmount \in Inputs, bounds \in Offers, grant \in Grants :
       \E refundNativeEth \in BOOLEAN, value \in {0, inputAmount} :
           executeMalleableAtomicMatchWithInput(origin, caller, inputAmount, receiver,
                                                bounds, grant, refundNativeEth, value)

(* The rest of the system: a match sponsored directly, the end of a call or *)
(* of its transaction, a revert, and the sponsor's owner.                   *)
Direct == Sponsor /\ UNCHANGED <<holdings, committedHoldings>>

Returns ==
    /\ RefundGasCost
    /\ UNCHANGED holdings
    /\ committedHoldings' = IF AtRest' THEN holdings ELSE committedHoldings

Reverts == Revert /\ holdings' = committedHoldings /\ UNCHANGED committedHoldings

Owner == Administer /\ UNCHANGED <<holdings, committedHoldings>>

ConnectorNext == WithInput \/ Direct \/ Returns \/ Reverts \/ Owner

ConnectorSpec == ConnectorInit /\ [][ConnectorNext]_connectorVars

-----------------------------------------------------------------------------
(* Nothing of what passes through stays with the connector, as tokens, as   *)
(* something the sponsor may still take, or as the proceeds of a match that *)
(* names no receiver, even when calls nest or revert: it has no function    *)
(* that could give anything back.                                           *)
ConnectorKeepsNothing ==
    /\ holdings = NoHoldings
    /\ \A i \in DOMAIN calls : calls[i].receiver # Connector

(* A caller is never refused for rounding or for what earlier calls have    *)
(* left behind: with a sponsorship that can still be used, and value when   *)
(* native currency is sold, a call passes every check as soon as neither    *)
(* amount is zero, the base is in the proved range and the quote is at most *)
(* the range's.                                                             *)
InputsInRangeAreAdmitted ==
    \A bounds \in Offers, input \in Inputs, grant \in Grants :
        LET amounts == ResolvedAmounts(bounds, input)
            value   == IF SellLeg(amounts, bounds).mint = NATIVE THEN input ELSE 0
        IN  /\ CanUse(grant)
            /\ amounts.base # 0 /\ amounts.quote # 0
            /\ validateBaseAmount(bounds, amounts.base)
            /\ amounts.quote <= unsafeFixedPointMul(bounds.price, bounds.maxBaseAmount)
            => CanExecute(input, bounds, grant, value)
=============================================================================
