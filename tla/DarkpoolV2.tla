------------------------------ MODULE DarkpoolV2 ------------------------------
(***************************************************************************)
(* The second version of the darkpool.  A match settles two bundles, each   *)
(* of one of four kinds: an intent that is public or private, capitalized   *)
(* by the owner's account or by a balance in the pool.  settleMatch runs    *)
(* here in the steps of the code: a bundle, the other, the transfers one at *)
(* a time, the proofs; a failure at any of them undoes all.                 *)
(***************************************************************************)
EXTENDS SettlementContext, FiniteSets, Functions

CONSTANTS
    Tokens,
    SkimTokens,     \* mints whose transfers deliver less than was sent
    Permits,        \* public intents: [intent, executor], where intent is
                    \* [inToken, outToken, owner, minPrice, amountIn]
    PrivateIntents, \* [id, owner], amounts and prices stay in the proofs
    Balances,       \* [id, key] of the pool, key the one-time address
    Signatures,     \* [signer, digest, nonce] made outside of the contract
    Obligations,    \* obligations a party may put forward
    Offered,        \* the bundle types that are tried
    Named,          \* state elements that provers name, whatever the tree holds
    Verdicts,       \* what the verifier may find of a proof: is it valid?
    Amounts,        \* amounts deposited and withdrawn
    AllowanceSize,  \* 2^160 in the code: the range of a Permit2 amount
    MaxCustody      \* bound: what is deposited of one mint

Nonces == {s.nonce : s \in Signatures}

(* State elements, by the intent or balance they are versions of, and what  *)
(* the leaves of the tree are versions of.                                  *)
StateElements ==
    [kind : {"intent"}, of : PrivateIntents, version : Nat]
    \cup [kind : {"balance"}, of : Balances, version : Nat]

Lineages == [kind : {"intent"}, of : PrivateIntents]
            \cup [kind : {"balance", "note"}, of : Balances]

ASSUME V2Assumption ==
    /\ AllowanceSize \in Nat \ {0} /\ Amounts \subseteq Nat
    /\ SkimTokens \subseteq Tokens /\ Offered \subseteq BundleTypes
    /\ IsFiniteSet(Permits)
    /\ \A p \in Permits : /\ DOMAIN p = {"intent", "executor"}
                           /\ p.intent.minPrice \in Nat /\ p.intent.amountIn \in Nat
    /\ Obligations \subseteq [inputToken : Tokens, outputToken : Tokens,
                              amountIn : Nat, amountOut : Nat]
    /\ Named \subseteq StateElements /\ Verdicts \subseteq BOOLEAN

VARIABLES
    state,      \* DarkpoolState [openPublicIntents, spentNonces, leaves,
                \* nullifiers], and custody: the contract's tokens.  leaves:
                \* how many were inserted for each lineage
    history,    \* what was signed and filled, kept by no code: [accepted,
                \* filled, got, fills, opened, unproved] with signatures, per
                \* permit what was put in, what was paid, and how often, per
                \* balance how often it was opened, and the lineages that
                \* were updated with a proof that does not verify
    before,     \* state and history before the current transaction
    tx          \* the settlement that runs: [phase, types, obligations,
                \* party, context, transfers]
vars == <<state, history, before, tx>>

Idle == [phase |-> "idle", types |-> <<>>, obligations |-> <<>>, party |-> 0,
         context |-> <<>>, transfers |-> <<>>]

Init ==
    /\ state = [openPublicIntents |-> [p \in Permits |-> 0], spentNonces |-> {},
                leaves |-> [l \in Lineages |-> 0], nullifiers |-> {}, custody |-> [t \in Tokens |-> 0]]
    /\ history = [accepted |-> {}, filled |-> [p \in Permits |-> 0],
                  got |-> [p \in Permits |-> 0], fills |-> [p \in Permits |-> 0],
                  opened |-> [b \in Balances |-> 0], unproved |-> {}]
    /\ before = [state |-> state, history |-> history]
    /\ tx = Idle

-----------------------------------------------------------------------------
(* A private state element, in the version after so many updates.           *)
Element(kind, of, version) == [kind |-> kind, of |-> of, version |-> version]

Updated(e) == [e EXCEPT !.version = @ + 1]
Lineage(e) == [kind |-> e.kind, of |-> e.of]

(* What provers name, in any version.  It need not be in the tree: the      *)
(* statements of the proofs carry no root, no handler calls rootInHistory.  *)
Nameable(kind) == {e \in Named : e.kind = kind}

\* A slip: the nonce is looked at and stays unspent.
KeepNonce(s, nonce) == s

CanSpendNonce(s, nonce) == nonce \notin s.spentNonces
SpendNonce(s, nonce) == [s EXCEPT !.spentNonces = @ \cup {nonce}]

(* The nullifier of an element is the element, as in the set of the code.   *)
CanSpendNullifier(s, e) == e \notin s.nullifiers
SpendNullifier(s, e) == [s EXCEPT !.nullifiers = @ \cup {e}]

(* insertMerkleLeaf.  The tree is written to and never looked at: equal     *)
(* leaves are as many leaves.                                               *)
InsertMerkleLeaf(s, e) == [s EXCEPT !.leaves[Lineage(e)] = @ + 1]

SignatureOf(signer, digest, nonce) == [signer |-> signer, digest |-> digest, nonce |-> nonce]

(* A digest of a private intent alone, and of one with a rotated key.       *)
CommitmentDigest(intent) == [commitment |-> intent]
RotationDigest(intent) == [commitment |-> intent, key |-> "rotated"]

-----------------------------------------------------------------------------
Running == tx # Idle
BundleDue(type) == tx.phase = "bundles" /\ tx.types[tx.party] = type
PrivateObligation == tx.obligations = <<>>

(* settleMatch up to the bundles.  No obligations stand for private ones,   *)
(* for which one proof of the settlement is pushed.                         *)
SettleMatch(type0, type1, obligations) ==
    LET allocated == newContext(type0, type1)
    IN  /\ ~Running
        /\ obligations # <<>> => Compatible(obligations[1], obligations[2])
        /\ obligations = <<>> => HasRoomForProofs(allocated, 1)
        /\ \E shared \in Verdicts :
              tx' = [phase |-> "bundles", types |-> <<type0, type1>>,
                     obligations |-> obligations, party |-> 1, transfers |-> <<>>,
                     context |-> IF obligations = <<>> THEN pushProofs(allocated, <<shared>>)
                                 ELSE allocated]
        /\ UNCHANGED <<state, history, before>>

(* A bundle leaves its mark on the state and the context; after the second  *)
(* one the transfers are due.                                               *)
Executed(s, context) ==
    /\ state' = s
    /\ tx' = IF tx.party = 1 THEN [tx EXCEPT !.context = context, !.party = 2]
             ELSE [tx EXCEPT !.context = context, !.phase = "transfers",
                             !.transfers = TransfersInOrder(context)]
    /\ UNCHANGED before

\* A slip: what is left of the intent stays as it was.
FilledKeepRemaining(s, permit, amount) == s

(* decrementOpenIntentAmountRemaining *)
Filled(s, permit, amount) == [s EXCEPT !.openPublicIntents[permit] = @ - amount]

(* The open intent if there is one; if not, after its owner's signature and *)
(* with its whole amount: validatePublicIntentAuthorization.                *)
Open(s, permit, nonce) ==
    IF s.openPublicIntents[permit] > 0 THEN s
    ELSE [SpendNonce(s, nonce) EXCEPT !.openPublicIntents[permit] = permit.intent.amountIn]

(* NativeSettledPublicIntent: the executor has signed the obligation, not   *)
(* the intent; the owner has signed the intent, which is asked for only     *)
(* when none of it is open.                                                 *)
PublicIntent(permit, executorNonce, intentNonce) ==
    LET o         == tx.obligations[tx.party]
        executed  == SignatureOf(permit.executor, o, executorNonce)
        signed    == SignatureOf(permit.intent.owner, permit, intentNonce)
        isNew     == state.openPublicIntents[permit] = 0
        cosigned  == SpendNonce(state, executorNonce)
        opened    == Open(cosigned, permit, intentNonce)
    IN  /\ BundleDue("NATIVELY_SETTLED_PUBLIC_INTENT") /\ ~PrivateObligation
        /\ executed \in Signatures /\ CanSpendNonce(state, executorNonce)
        /\ isNew => signed \in Signatures /\ CanSpendNonce(cosigned, intentNonce)
        /\ ObligationWithinIntent(opened.openPublicIntents[permit], permit.intent, o)
        /\ HasRoomForTransfers(tx.context)
        /\ Executed(Filled(opened, permit, o.amountIn),
                    allocateTransfers(tx.context, o, permit.intent.owner))
        /\ history' = [history EXCEPT
                           !.accepted = @ \cup {executed} \cup (IF isNew THEN {signed} ELSE {}),
                           !.filled[permit] = @ + o.amountIn,
                           !.got[permit] = @ + o.amountOut,
                           !.fills[permit] = @ + 1]

(* A bundle with private state: the signatures it was accepted with, the    *)
(* lineages it updates, and the proofs it is to be verified by, each of     *)
(* which may be one that will not verify.                                   *)
Proofs(n) == [1..n -> Verdicts]

Recorded(signatures, lineages, proofs) ==
    history' = [history EXCEPT
                   !.accepted = @ \cup signatures,
                   !.unproved = IF \A i \in DOMAIN proofs : proofs[i] THEN @ ELSE @ \cup lineages]

(* NativeSettledPrivateIntent: the first fill needs the owner's signature   *)
(* on the commitment, a later one nullifies the intent.  The validity and   *)
(* the settlement proof are pushed.                                         *)
NativePrivate(intent, s, signatures) ==
    /\ BundleDue("NATIVELY_SETTLED_PRIVATE_INTENT") /\ ~PrivateObligation
    /\ HasRoomForProofs(tx.context, 2) /\ HasRoomForTransfers(tx.context)
    /\ \E proofs \in Proofs(2) :
          /\ Executed(s, allocateTransfers(pushProofs(tx.context, proofs),
                                           tx.obligations[tx.party], intent.owner))
          /\ Recorded(signatures, {[kind |-> "intent", of |-> intent]}, proofs)

NativePrivateFirstFill(intent, nonce) ==
    LET signature == SignatureOf(intent.owner, CommitmentDigest(intent), nonce)
    IN  /\ signature \in Signatures /\ CanSpendNonce(state, nonce)
        /\ NativePrivate(intent, InsertMerkleLeaf(SpendNonce(state, nonce),
                                                  Element("intent", intent, 1)), {signature})

NativePrivateFill(e) ==
    /\ CanSpendNullifier(state, e)
    /\ NativePrivate(e.of, InsertMerkleLeaf(SpendNullifier(state, e), Updated(e)), {})

(* RenegadeSettledPrivateIntent: a balance in the pool is updated with the  *)
(* intent and nothing is transferred.  The obligation is not looked at.     *)
RenegadeSettledIntent(s, signatures, lineages) ==
    /\ BundleDue("RENEGADE_SETTLED_INTENT")
    /\ HasRoomForProofs(tx.context, 2)
    /\ \E proofs \in Proofs(2) : /\ Executed(s, pushProofs(tx.context, proofs))
                                /\ Recorded(signatures, lineages, proofs)

(* RenegadeSettledPrivateFill: likewise, but the obligation is private, and *)
(* its proof, the first of the list, is the settlement proof of both.       *)
RenegadeSettledPrivateFill(s, signatures, lineages) ==
    /\ BundleDue("RENEGADE_SETTLED_PRIVATE_FILL") /\ PrivateObligation
    /\ HasRoomForProofs(tx.context, 1)
    /\ \E proofs \in Proofs(1) :
          /\ Executed(s, pushProofs(tx.context, proofs))
          /\ Recorded(signatures, lineages, <<tx.context.proofs[1]>> \o proofs)

(* The balance is nullified and its update inserted.                        *)
Rotate(s, e) == InsertMerkleLeaf(SpendNullifier(s, e), Updated(e))

RotateAndInsert(s, balance, intent) == InsertMerkleLeaf(Rotate(s, balance), intent)

\* A slip: of a subsequent fill only the balance is nullified.
RotateBalanceOnly(s, balance, intent) == InsertMerkleLeaf(Rotate(s, balance), Updated(intent))

RotateBoth(s, balance, intent) == Rotate(Rotate(s, balance), intent)

RenegadeSettled(s, signatures, balance, intent) ==
    LET lineages == {Lineage(balance), [kind |-> "intent", of |-> intent]}
    IN  \/ RenegadeSettledIntent(s, signatures, lineages)
        \/ RenegadeSettledPrivateFill(s, signatures, lineages)

(* On the first fill of either kind the one-time key of the balance has     *)
(* signed the intent.                                                       *)
RenegadeFirstFill(balance, intent, nonce) ==
    LET signature == SignatureOf(balance.of.key, RotationDigest(intent), nonce)
    IN  /\ signature \in Signatures /\ CanSpendNonce(state, nonce)
        /\ CanSpendNullifier(state, balance)
        /\ RenegadeSettled(RotateAndInsert(SpendNonce(state, nonce), balance,
                                           Element("intent", intent, 1)),
                           {signature}, balance, intent)

RenegadeFill(balance, intent) ==
    /\ CanSpendNullifier(state, balance) /\ CanSpendNullifier(state, intent)
    /\ RenegadeSettled(RotateBoth(state, balance, intent), {}, balance, intent.of)

-----------------------------------------------------------------------------
(* A token's own doing: a transfer in delivers all, or one less.            *)
Delivered(mint, amount) == IF mint \in SkimTokens THEN amount - 1 ELSE amount

\* A slip: the balance after the transfer is not looked at.
ReceivedUnchecked(mint, amount, delivered) == TRUE

(* executeTransfer (BalanceMismatch) *)
ReceivedAsExpected(mint, amount, delivered) == delivered = amount

Received(s, mint, delivered) == [s EXCEPT !.custody[mint] = @ + delivered]

(* executeSimpleWithdrawal, and the transfer of executeSignedWithdrawal:    *)
(* tokens go out as asked for.                                              *)
CanPay(s, mint, amount) == amount <= s.custody[mint]
Paid(s, mint, amount) == [s EXCEPT !.custody[mint] = @ - amount]

(* executeTransfer.  What Permit2 is asked for is cut to 160 bits, and a    *)
(* transfer of nothing is none.                                             *)
ExecuteTransfer ==
    LET t == Head(tx.transfers)
        delivered == Delivered(t.mint, t.amount % AllowanceSize)
    IN  /\ tx.phase = "transfers" /\ tx.transfers # <<>>
        /\ \/ t.amount = 0 /\ state' = state
           \/ /\ t.amount > 0 /\ t.type = "Deposit"
              /\ ReceivedAsExpected(t.mint, t.amount, delivered)
              /\ state' = Received(state, t.mint, delivered)
           \/ /\ t.amount > 0 /\ t.type = "Withdrawal"
              /\ CanPay(state, t.mint, t.amount)
              /\ state' = Paid(state, t.mint, t.amount)
        /\ tx' = [tx EXCEPT !.transfers = Tail(@)]
        /\ UNCHANGED <<history, before>>

Commit(s) == state' = s /\ before' = [state |-> s, history |-> history']

VerifySettlementProofs ==
    /\ tx.phase = "transfers" /\ tx.transfers = <<>>
    /\ AllProofsValid(tx.context)
    /\ tx' = Idle
    /\ UNCHANGED history
    /\ Commit(state)

(* A check fails, or a party lacks the tokens or the allowance.             *)
Revert ==
    /\ Running
    /\ tx' = Idle
    /\ state' = before.state /\ history' = before.history
    /\ UNCHANGED before

-----------------------------------------------------------------------------
(* The handlers on a single balance, each a transaction in one step.  The   *)
(* proof is verified first, and without a valid one nothing happens.        *)
Alone(s) == ~Running /\ UNCHANGED tx /\ Commit(s)

CanReceive(token, amount) ==
    /\ ReceivedAsExpected(token, amount, Delivered(token, amount))
    /\ state.custody[token] + amount <= MaxCustody

deposit(balance, token, amount) ==
    /\ CanReceive(token, amount) /\ CanSpendNullifier(state, balance)
    /\ UNCHANGED history
    /\ Alone(Rotate(Received(state, token, Delivered(token, amount)), balance))

(* A new balance, or another leaf for one that is in the tree: the code     *)
(* does not look.                                                           *)
depositNewBalance(balance, token, amount) ==
    /\ CanReceive(token, amount)
    /\ history' = [history EXCEPT !.opened[balance] = @ + 1]
    /\ Alone(InsertMerkleLeaf(Received(state, token, Delivered(token, amount)),
                              Element("balance", balance, 1)))

(* The owner signs for the commitment of the updated balance.               *)
withdraw(balance, token, amount) ==
    /\ CanPay(state, token, amount) /\ CanSpendNullifier(state, balance)
    /\ UNCHANGED history
    /\ Alone(Rotate(Paid(state, token, amount), balance))

payFees(balance) ==
    /\ CanSpendNullifier(state, balance)
    /\ UNCHANGED history
    /\ Alone(InsertMerkleLeaf(Rotate(state, balance),
                              Element("note", balance.of, balance.version)))

Settle ==
    \E type0, type1 \in Offered :
        \/ SettleMatch(type0, type1, <<>>)
        \/ \E o0, o1 \in Obligations : SettleMatch(type0, type1, <<o0, o1>>)

ExecuteSettlementBundle ==
    \/ \E p \in Permits, m, n \in Nonces : PublicIntent(p, m, n)
    \/ \E i \in PrivateIntents, n \in Nonces : NativePrivateFirstFill(i, n)
    \/ \E e \in Nameable("intent") : NativePrivateFill(e)
    \/ \E b \in Nameable("balance"), i \in PrivateIntents, n \in Nonces :
            RenegadeFirstFill(b, i, n)
    \/ \E b \in Nameable("balance"), e \in Nameable("intent") : RenegadeFill(b, e)

UpdateBalance ==
    \/ \E b \in Balances, t \in Tokens, a \in Amounts :
            depositNewBalance(b, t, a)
    \/ \E e \in Nameable("balance"), t \in Tokens, a \in Amounts :
            deposit(e, t, a) \/ withdraw(e, t, a)
    \/ \E e \in Nameable("balance") : payFees(e)

Next == Settle \/ ExecuteSettlementBundle \/ ExecuteTransfer
        \/ VerifySettlementProofs \/ Revert \/ UpdateBalance

Spec == Init /\ [][Next]_vars

-----------------------------------------------------------------------------
TypeOK ==
    /\ state.openPublicIntents \in [Permits -> Nat] /\ state.custody \in [Tokens -> Nat]
    /\ state.spentNonces \subseteq Nonces
    /\ history.accepted \subseteq Signatures /\ history.filled \in [Permits -> Nat]
    /\ tx.phase \in {"idle", "bundles", "transfers"} /\ tx.party \in 0..2

SignedFor(signer, digest) ==
    {s \in history.accepted : s.signer = signer /\ s.digest = digest}

(* An owner's public intent is filled at most its amount for each signature *)
(* of the owner that was accepted, and what is not filled yet is open: an   *)
(* intent that was filled up and is opened again, with whatever signatures  *)
(* are still around, is a new authorization and no replay of the first.     *)
FilledWithinAuthorizations ==
    \A p \in Permits :
        history.filled[p] + state.openPublicIntents[p]
            = p.intent.amountIn * Cardinality(SignedFor(p.intent.owner, p))

(* Executors sign obligations, not intents.  Still all that is taken under  *)
(* permits of an executor is, to the unit, what it has signed for, every    *)
(* signature serving one fill; and no nonce serves two signatures, of       *)
(* whomever and of whatever kind.                                           *)
ExecutorsSignedEveryFill ==
    /\ \A e \in {p.executor : p \in Permits} :
        LET signed == {s \in history.accepted : s.signer = e /\ s.digest \in Obligations}
            amount == [s \in signed |-> s.digest.amountIn]
        IN  SumFunctionOnSet(history.filled, {p \in Permits : p.executor = e})
                = SumFunctionOnSet(amount, signed)
    /\ \A s, r \in history.accepted : s.nonce = r.nonce => s = r

(* Over all its fills an owner is paid the minimum price, less a fraction   *)
(* of a unit for every fill.                                                *)
PaidAtPriceUpToRounding ==
    \A p \in Permits :
        history.got[p] * Precision + history.fills[p] * (Precision - 1)
            >= p.intent.minPrice * history.filled[p]

(* The nullifier set "ensures that a pre-update state element cannot create *)
(* two separate post-update state elements": whoever updates a balance or   *)
(* an intent, in whichever of the handlers and bundles, twice in one        *)
(* settlement or made up altogether, every leaf takes the place of a        *)
(* version that was nullified for it, or is opened by a signature of its    *)
(* own or a deposit of its own; and every fee note is of a version          *)
(* nullified.                                                               *)
Authorizations(intent) ==
    SignedFor(intent.owner, CommitmentDigest(intent))
    \cup UNION {SignedFor(b.key, RotationDigest(intent)) : b \in Balances}

Spent(l) == {e \in state.nullifiers : Lineage(e) = l}

EveryLeafHasAnOrigin ==
    /\ \A i \in PrivateIntents : LET l == [kind |-> "intent", of |-> i] IN
        state.leaves[l] = Cardinality(Spent(l)) + Cardinality(Authorizations(i))
    /\ \A b \in Balances : LET l == [kind |-> "balance", of |-> b] IN
        /\ state.leaves[l] = Cardinality(Spent(l)) + history.opened[b]
        /\ state.leaves[[l EXCEPT !.kind = "note"]] <= Cardinality(Spent(l))

(* The proofs are verified last, after nullifiers were spent, leaves        *)
(* inserted and tokens moved, and after calls to tokens.  At rest nothing   *)
(* of that is left that any proof of the settlement does not vouch for.     *)
KeptMeansProved == ~Running => history.unproved = {}

(* validatePrivateIntentAuthorization: "the presence of the intent in the   *)
(* Merkle tree implies that the intent owner's signature has already been   *)
(* verified (in a previous fill)".                                          *)
TreeImpliesSignature ==
    ~Running => \A i \in PrivateIntents :
        state.leaves[[kind |-> "intent", of |-> i]] > 0 => Authorizations(i) # {}

(* What the bundle of a type pushes, when it gets to it.                    *)
ProofsPushed(type) ==
    CASE type = "NATIVELY_SETTLED_PUBLIC_INTENT" -> 0
      [] type = "RENEGADE_SETTLED_PRIVATE_FILL" -> 1
      [] OTHER -> 2

(* The capacities are fixed from the types before anything is validated:    *)
(* for every pair of types that may settle together they suffice, the proof *)
(* of a private obligation included.                                        *)
CapacitySuffices ==
    LET due == tx.party..2
        pushed == [i \in due |-> ProofsPushed(tx.types[i])]
        together == /\ \A i \in 1..2 : isNativelySettled(tx.types[i]) => ~PrivateObligation
                    /\ PrivateObligation
                         <=> \E i \in 1..2 : tx.types[i] = "RENEGADE_SETTLED_PRIVATE_FILL"
    IN  tx.phase = "bundles" /\ together =>
            /\ HasRoomForProofs(tx.context, SumFunctionOnSet(pushed, due))
            /\ (\E i \in due : isNativelySettled(tx.types[i])) => HasRoomForTransfers(tx.context)

(* What the end of a settlement may do to custody.                          *)
KeepsOthersFunds ==
    Running /\ ~Running' =>
        LET native == {i \in 1..2 : isNativelySettled(tx.types[i])}
            Leg(i, t) == LET o == tx.obligations[i] IN
                (IF o.inputToken = t THEN o.amountIn ELSE 0)
                - (IF o.outputToken = t THEN o.amountOut ELSE 0)
        IN  /\ \/ state'.custody = before.state.custody
               \/ \A t \in Tokens : state'.custody[t] - before.state.custody[t]
                        = SumFunctionOnSet([i \in native |-> Leg(i, t)], native)
            /\ native = 1..2 => state'.custody = before.state.custody

(* A settlement leaves custody changed by the obligations of the parties    *)
(* that settle with their accounts, or unchanged when it fails; when both   *)
(* do, not at all, so no match is paid from what others own.                *)
SettlementMovesCustody == [][KeepsOthersFunds]_vars

(* Two parties that settle with their accounts need nothing from the pool:  *)
(* when one is paid the other has paid in, whatever the pool holds.         *)
DepositsFundWithdrawals ==
    /\ tx.phase = "transfers" /\ tx.transfers # <<>>
    /\ isNativelySettled(tx.types[1]) /\ isNativelySettled(tx.types[2])
    /\ Head(tx.transfers).type = "Withdrawal"
    => Head(tx.transfers).amount <= state.custody[Head(tx.transfers).mint]
=============================================================================
