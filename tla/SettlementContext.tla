-------------------------- MODULE SettlementContext --------------------------
(***************************************************************************)
(* What one v2 settlement works on: the obligations of the two parties, the *)
(* kinds of bundles that may settle them, and the context in which the      *)
(* bundles leave the transfers and proofs that are dealt with at the end.   *)
(***************************************************************************)
EXTENDS Integers, Sequences, FixedPoint

CONSTANT EmptyProofVerifies     \* does the verifier accept an entry never filled?

ASSUME ContextAssumption == EmptyProofVerifies \in BOOLEAN

BundleTypes == {"NATIVELY_SETTLED_PUBLIC_INTENT", "NATIVELY_SETTLED_PRIVATE_INTENT",
                "RENEGADE_SETTLED_INTENT", "RENEGADE_SETTLED_PRIVATE_FILL"}

isNativelySettled(type) ==
    type \in {"NATIVELY_SETTLED_PUBLIC_INTENT", "NATIVELY_SETTLED_PRIVATE_INTENT"}

(* A settlement obligation: what a party gives and what it gets.            *)
Obligation(tokenIn, tokenOut, amountIn, amountOut) ==
    [inputToken |-> tokenIn, outputToken |-> tokenOut,
     amountIn |-> amountIn, amountOut |-> amountOut]

(* validatePublicObligationBundle: the two are mirror images.               *)
Compatible(o0, o1) ==
    /\ o0.inputToken = o1.outputToken /\ o0.outputToken = o1.inputToken
    /\ o0.amountIn = o1.amountOut /\ o0.amountOut = o1.amountIn

\* A slip: what is left of the intent is not looked at.
ObligationAmountUnchecked(amountRemaining, intent, o) ==
    /\ intent.inToken = o.inputToken /\ intent.outToken = o.outputToken
    /\ o.amountOut >= unsafeFixedPointMul(intent.minPrice, o.amountIn)

\* A slip: the price is not looked at.
ObligationPriceUnchecked(amountRemaining, intent, o) ==
    /\ intent.inToken = o.inputToken /\ intent.outToken = o.outputToken
    /\ o.amountIn <= amountRemaining

(* validateObligationIntentConstraints *)
ObligationWithinIntent(amountRemaining, intent, o) ==
    /\ intent.inToken = o.inputToken /\ intent.outToken = o.outputToken
    /\ o.amountIn <= amountRemaining
    /\ o.amountOut >= unsafeFixedPointMul(intent.minPrice, o.amountIn)

-----------------------------------------------------------------------------
buildPermit2AllowanceDeposit(o, owner) ==
    [account |-> owner, mint |-> o.inputToken, amount |-> o.amountIn, type |-> "Deposit"]

buildWithdrawalTransfer(o, owner) ==
    [account |-> owner, mint |-> o.outputToken, amount |-> o.amountOut, type |-> "Withdrawal"]

\* A slip: one proof is counted for each bundle.
getNumProofsOne(type) == IF type = "NATIVELY_SETTLED_PUBLIC_INTENT" THEN 0 ELSE 1

getNumProofs(type) == IF type = "NATIVELY_SETTLED_PUBLIC_INTENT" THEN 0 ELSE 2

getNumTransfers(type) == IF isNativelySettled(type) THEN 1 ELSE 0

(* allocateSettlementContext: lists for as many transfers, each of them a   *)
(* deposit and a withdrawal, and as many proofs as the two types require.   *)
newContext(type0, type1) ==
    [deposits |-> <<>>, withdrawals |-> <<>>, proofs |-> <<>>,
     transferCapacity |-> getNumTransfers(type0) + getNumTransfers(type1),
     proofCapacity |-> getNumProofs(type0) + getNumProofs(type1)]

(* A list without room, or of capacity zero, makes push revert.             *)
HasRoomForProofs(context, n) == Len(context.proofs) + n <= context.proofCapacity

HasRoomForTransfers(context) ==
    /\ Len(context.deposits) < context.transferCapacity
    /\ Len(context.withdrawals) < context.transferCapacity

(* Of a proof it only matters whether it is valid.                          *)
pushProofs(context, proofs) == [context EXCEPT !.proofs = @ \o proofs]

(* allocateTransfers *)
allocateTransfers(context, o, owner) ==
    [context EXCEPT
        !.deposits = Append(@, buildPermit2AllowanceDeposit(o, owner)),
        !.withdrawals = Append(@, buildWithdrawalTransfer(o, owner))]

\* A slip: each party is paid before the other has paid in.
WithdrawalsFirst(context) == context.withdrawals \o context.deposits

(* executeTransfers: all deposits, to have the contract capitalized, and    *)
(* then the withdrawals.                                                    *)
TransfersInOrder(context) == context.deposits \o context.withdrawals

\* A slip: only the first proof is looked at.
FirstProofValid(context) == context.proofs = <<>> \/ context.proofs[1]

(* verifySettlementProofs: nothing to do when no proof was pushed, else one *)
(* call for the lists as they were allocated, entries never filled included.*)
AllProofsValid(context) ==
    context.proofs # <<>> =>
        /\ \A i \in DOMAIN context.proofs : context.proofs[i]
        /\ Len(context.proofs) < context.proofCapacity => EmptyProofVerifies
=============================================================================
