----------------------------- MODULE GasSponsor -----------------------------
(***************************************************************************)
(* The gas sponsor: a proxy in front of the darkpool's atomic matches that  *)
(* pays its caller a refund which its owner's server has signed for.  The   *)
(* darkpool is external here: it takes the sell leg from the sponsor, pays  *)
(* the buy leg to the receiver, or reverts.  The payee of native currency   *)
(* gets control in the middle of a call and may call the sponsor again.     *)
(***************************************************************************)
EXTENDS Integers, Sequences, Functions

CONSTANTS
    Accounts,       \* external parties, as callers, receivers, payees
    Nobody,         \* address(0)
    Tokens, NATIVE, \* mints and the native-token address
    AuthKeys,       \* keys (as addresses) that sign sponsorships
    Nonces,         \* nonces of sponsorships
    Grants,         \* [key, nonce, refundAddress, refundAmount] signed
    Matches,        \* [sell, buy] legs of the matches on offer, net of fees
    MaxDepth,       \* bound: calls nested in one transaction
    MaxFunds        \* bound: what the sponsor holds of one mint

Mints == Tokens \cup {NATIVE}

Leg == [mint : Mints, amount : Nat \ {0}]

ASSUME SponsorAssumption ==
    /\ NATIVE \notin Tokens /\ Nobody \notin Accounts
    /\ Grants \subseteq [key : AuthKeys, nonce : Nonces,
                         refundAddress : Accounts \cup {Nobody}, refundAmount : Nat]
    /\ Matches \subseteq [sell : Leg, buy : Leg]

VARIABLES
    storage,    \* [authAddress, usedNonces, funds, allowance]: of the sponsor;
                \* funds also of NATIVE, allowance to the darkpool
    committed,  \* storage before the current transaction
    calls,      \* frames of sponsored matches, the running one first
    last        \* of a call that has just returned: what it reported, and what
                \* its receiver got in the bought currency
vars == <<storage, committed, calls, last>>

NoCall == [reported |-> 0, received |-> 0]

Init ==
    /\ storage \in [authAddress : AuthKeys, usedNonces : {{}},
                    funds : {[m \in Mints |-> 0]}, allowance : {[t \in Tokens |-> 0]}]
    /\ committed = storage
    /\ calls = <<>>
    /\ last = NoCall

-----------------------------------------------------------------------------
(* A transaction may call when nothing runs; later calls are made by the    *)
(* payee of a match that pays in native currency.                           *)
AtRest == calls = <<>>
PayeeHasControl == ~AtRest /\ Head(calls).match.buy.mint = NATIVE
MayCall == AtRest \/ (PayeeHasControl /\ Len(calls) < MaxDepth)

(* tx.origin, one for all calls of a transaction.                           *)
Origins == IF AtRest THEN Accounts ELSE {Head(calls).origin}

(* _assertSponsorshipSignature: the grant fixes nonce, address and amount,  *)
(* and nothing of the match or of the currency of the refund.               *)
SignatureValid(s, grant) == grant.key = s.authAddress

\* A slip: the nonce is checked and not marked.
VerifySigKeepNonce(s, grant) == s

(* _verifySigSpendNonce, for a nonce that is not used yet.                  *)
VerifySigSpendNonce(s, grant) == [s EXCEPT !.usedNonces = @ \cup {grant.nonce}]

\* A slip: approved here and once more by what calls this.
CustodySendTokensTwice(s, match) ==
    IF match.sell.mint = NATIVE THEN s
    ELSE [s EXCEPT !.allowance[match.sell.mint] = @ + 2 * match.sell.amount,
                   !.funds[match.sell.mint] = @ + match.sell.amount]

(* _custodySendTokens: the caller's tokens, which the darkpool may take.    *)
CustodySendTokens(s, match) ==
    IF match.sell.mint = NATIVE THEN s
    ELSE [s EXCEPT !.allowance[match.sell.mint] = @ + match.sell.amount,
                   !.funds[match.sell.mint] = @ + match.sell.amount]

(* The darkpool takes its sell leg: tokens within the allowance, or the     *)
(* value it was sent, which must be that amount, or nothing with tokens.    *)
DarkpoolAccepts(s, match, value) ==
    IF match.sell.mint = NATIVE THEN value = match.sell.amount
    ELSE value = 0 /\ match.sell.amount <= s.allowance[match.sell.mint]
                   /\ match.sell.amount <= s.funds[match.sell.mint]

DarkpoolTakes(s, match) ==
    IF match.sell.mint = NATIVE THEN [s EXCEPT !.funds[NATIVE] = @ - match.sell.amount]
    ELSE [s EXCEPT !.allowance[match.sell.mint] = @ - match.sell.amount,
                   !.funds[match.sell.mint] = @ - match.sell.amount]

(* The sponsor once it has been paid in for a match and spent the nonce.    *)
Holding(match, grant, value) ==
    CustodySendTokens(VerifySigSpendNonce([storage EXCEPT !.funds[NATIVE] = @ + value], grant),
                      match)

CanUse(grant) == SignatureValid(storage, grant) /\ grant.nonce \notin storage.usedNonces

CanSponsorMatch(match, grant, value) ==
    CanUse(grant) /\ DarkpoolAccepts(Holding(match, grant, value), match, value)

(* sponsorAtomicMatchSettle and sponsorMalleableAtomicMatchSettle up to the *)
(* payment of the buy leg to the receiver.                                  *)
SponsorMatch(origin, receiver, match, grant, refundNativeEth, value) ==
    /\ CanSponsorMatch(match, grant, value)
    /\ storage' = DarkpoolTakes(Holding(match, grant, value), match)
    /\ calls' = <<[origin |-> origin, receiver |-> receiver, match |-> match,
                   grant |-> grant, refundNativeEth |-> refundNativeEth]>> \o calls
    /\ last' = NoCall
    /\ UNCHANGED committed

-----------------------------------------------------------------------------
(* _resolveRefundAddress *)
ResolveRefundAddress(call) ==
    IF call.grant.refundAddress # Nobody THEN call.grant.refundAddress
    ELSE IF call.refundNativeEth THEN call.origin
    ELSE call.receiver

(* The currency of the refund: the bought one unless native is asked for.   *)
RefundMint(call) == IF call.refundNativeEth THEN NATIVE ELSE call.match.buy.mint

\* A slip: what is left is not looked at.
RefundedUnchecked(s, call) == call.grant.refundAmount

(* _refundThroughNativeEth, _refundThroughBuyToken: nothing when the        *)
(* sponsor cannot pay all of it.                                            *)
Refunded(s, call) ==
    IF s.funds[RefundMint(call)] < call.grant.refundAmount THEN 0
    ELSE call.grant.refundAmount

(* The amount returned: with the refund when both are in one currency,      *)
(* whoever got it.                                                          *)
ReportedAmount(call, refunded) ==
    call.match.buy.amount
    + IF call.match.buy.mint = NATIVE \/ ~call.refundNativeEth THEN refunded ELSE 0

(* The rest of the call: _refundGasCost and the return.  The pause that     *)
(* would skip the refund cannot be entered, no function of the contract     *)
(* pauses it; and a refund of zero is none.                                 *)
RefundGasCost ==
    LET call     == Head(calls)
        refunded == Refunded(storage, call)
        toReceiver == /\ ResolveRefundAddress(call) = call.receiver
                      /\ RefundMint(call) = call.match.buy.mint
    IN  /\ ~AtRest
        /\ storage' = [storage EXCEPT !.funds[RefundMint(call)] = @ - refunded]
        /\ calls' = Tail(calls)
        /\ committed' = IF calls' = <<>> THEN storage' ELSE committed
        /\ last' = [reported |-> ReportedAmount(call, refunded),
                    received |-> call.match.buy.amount + IF toReceiver THEN refunded ELSE 0]

(* The darkpool or a payee reverts: the transaction leaves nothing.         *)
Revert ==
    /\ ~AtRest
    /\ storage' = committed
    /\ calls' = <<>>
    /\ last' = NoCall
    /\ UNCHANGED committed

-----------------------------------------------------------------------------
(* The owner's functions, and anyone's payments into the sponsor, each a    *)
(* transaction of its own.                                                  *)
Alone(s) == AtRest /\ storage' = s /\ committed' = s /\ last' = NoCall /\ UNCHANGED calls

receive(mint, amount) ==
    /\ storage.funds[mint] + amount <= MaxFunds
    /\ Alone([storage EXCEPT !.funds[mint] = @ + amount])

withdraw(mint, amount) ==
    /\ amount <= storage.funds[mint]
    /\ Alone([storage EXCEPT !.funds[mint] = @ - amount])

rotateAuthAddress(key) == Alone([storage EXCEPT !.authAddress = key])

Sponsor ==
    /\ MayCall
    /\ \E origin \in Origins, receiver \in Accounts, match \in Matches, grant \in Grants :
       \E refundNativeEth \in BOOLEAN, value \in {0, match.sell.amount} :
           SponsorMatch(origin, receiver, match, grant, refundNativeEth, value)

Administer ==
    \/ \E m \in Mints : receive(m, 1)
    \/ \E m \in Mints : withdraw(m, 1)
    \/ \E k \in AuthKeys : rotateAuthAddress(k)

Next == Sponsor \/ RefundGasCost \/ Revert \/ Administer

Spec == Init /\ [][Next]_vars

-----------------------------------------------------------------------------
Storage == [authAddress : AuthKeys, usedNonces : SUBSET Nonces,
            funds : [Mints -> Nat], allowance : [Tokens -> Nat]]

TypeOK ==
    /\ storage \in Storage /\ committed \in Storage
    /\ \A i \in DOMAIN calls : /\ calls[i].match \in [sell : Leg, buy : Leg]
                              /\ calls[i].grant \in Grants

(* The darkpool is approved for exactly what it takes: after a transaction  *)
(* it may take nothing more out of the sponsor.                             *)
NoAllowanceLeft == AtRest => \A t \in Tokens : storage.allowance[t] = 0

(* The nonces used up from one state of the sponsor to a later one.         *)
NewNonces(before, after) == after.usedNonces \ before.usedNonces

(* What the sponsor has less of is the refunds of the grants that are paid, *)
(* each in its currency, and every nonce used up belongs to a grant that    *)
(* its server has signed.                                                   *)
AccountedBy(before, after, paid, grantOf, paidIn) ==
    LET new    == NewNonces(before, after)
        amount == [n \in new |-> grantOf[n].refundAmount]
    IN  /\ \A n \in new : grantOf[n].nonce = n /\ SignatureValid(before, grantOf[n])
        /\ \A m \in Mints : before.funds[m] - after.funds[m]
                             = SumFunctionOnSet(amount, {n \in paid : paidIn[n] = m})

(* What the end of a transaction may cost.                                  *)
PaysSignedRefunds ==
    ~AtRest /\ AtRest' =>
        LET new == NewNonces(committed, committed') IN
        \E paid \in SUBSET new, grantOf \in [new -> Grants], paidIn \in [new -> Mints] :
            AccountedBy(committed, committed', paid, grantOf, paidIn)

(* What a transaction costs the sponsor, in every currency, is exactly a    *)
(* choice of the refunds signed by its server: one at most for each nonce   *)
(* that the transaction uses up, at the signed amount, in one currency,     *)
(* however the calls in it nest.  A trader's tokens neither stay nor are    *)
(* paid for by the sponsor.                                                 *)
CostsSignedRefunds == [][PaysSignedRefunds]_vars

(* sponsorAtomicMatchSettle returns "The amount received by the external    *)
(* party", and emits it: what the receiver got of what the match buys.      *)
ReportsAmountReceived == last.reported = last.received
=============================================================================
