------------------------------ MODULE Darkpool ------------------------------
(***************************************************************************)
(* The v1 darkpool contract: wallets and fee notes are leaves of a Merkle   *)
(* tree, spending one reveals its nullifier, and the contract keeps the     *)
(* ERC-20 balances that back them.  One action per public handler; every    *)
(* handler is a transaction, so its guard is the conjunction of all the     *)
(* checks it makes and a failed check leaves the state alone (revert).      *)
(*                                                                          *)
(* Zero-knowledge verification is external: a proof is accepted exactly     *)
(* when the prover knows elements that satisfy the statement.  A prover may *)
(* prove membership under ANY root, one of a tree of its own included, so   *)
(* it is the contract's root check that ties a witness to its tree.         *)
(***************************************************************************)
EXTENDS Integers, Sequences, RunningTotals, TypesLib

CONSTANTS
    Tokens,         \* ERC-20 mints
    NATIVE, WETH,   \* native-token address (not a mint) and its wrapper
    SkimTokens,     \* mints whose transfers deliver less than was sent
    Keys,           \* wallet root keys (pk_root)
    Blinders,       \* public blinder shares
    NoteIds,        \* note blinders
    FeeKeys,        \* encryption keys the protocol may announce
    FeeRates,       \* protocol fee rates, over Precision
    RelayerRates,   \* relayer fee rates, over Precision
    Prices,         \* fixed-point prices of malleable matches, over Precision
    Amounts,        \* amounts transferred and traded
    EthValues,      \* msg.value, and what receive() is sent
    Donations,      \* amounts sent to receive() by others than the wrapper
    Forged,         \* elements a prover commits to in a tree of its own
    TreeCapacity,   \* MAX_MERKLE_LEAVES
    Nil,            \* no element, in the ledger below
    Overridable,    \* bound: mints the owner is seen to override the rate of
    MaxCustody,     \* bound: tokens of one mint in existence
    MaxEth          \* bound: ETH the pool is ever sent and keeps

Mints == Tokens \cup {NATIVE}

Wallet == [key : Keys, blinder : Blinders, bal : [Tokens -> Int],
           relayerFee : [Tokens -> Int], protocolFee : [Tokens -> Int]]
Note   == [mint : Tokens, amount : Int, receiver : FeeKeys, id : NoteIds]
Element == Wallet \cup Note

ASSUME ConstantsAssumption ==
    /\ WETH \in Tokens /\ NATIVE \notin Tokens
    /\ SkimTokens \subseteq Tokens \ {WETH}
    /\ FeeRates \subseteq Nat \ {0} /\ RelayerRates \subseteq Nat
    /\ \A r \in RelayerRates, p \in FeeRates : r + p <= Precision
    /\ Prices \subseteq Nat
    /\ Amounts \subseteq Nat \ {0} /\ Blinders \subseteq Nat
    /\ EthValues \subseteq Nat /\ Donations \subseteq Nat
    /\ TreeCapacity \in Nat /\ MaxCustody \in Nat /\ MaxEth \in Nat
    /\ Forged \subseteq Element /\ Overridable \subseteq Mints
    /\ Nil \notin Element

VARIABLES
    pool,       \* [leaves, rootHistory, nullifierSet, publicBlinderSet]
    custody,    \* ERC-20 balance of the contract, per mint
    poolEth,    \* ETH balance of the contract
    protocolFeeRate, perTokenFeeOverrides, protocolFeeKey,
    paused

config == <<protocolFeeRate, perTokenFeeOverrides, protocolFeeKey, paused>>
vars == <<pool, custody, poolEth, config>>

-----------------------------------------------------------------------------
(* State elements and the storage libraries.  A commitment binds the       *)
(* element it opens to, so a leaf IS that element; a root binds the leaves  *)
(* below it, so a root IS their sequence.                                   *)

Nullifier(e) == [nullifies |-> e]

InsertLeaf(s, e) ==
    [leaves |-> Append(s.leaves, e),
     rootHistory |-> s.rootHistory \cup {Append(s.leaves, e)},
     nullifierSet |-> s.nullifierSet,
     publicBlinderSet |-> s.publicBlinderSet]

HasRoom(s) == Len(s.leaves) < TreeCapacity

CanSpend(s, e) == Nullifier(e) \notin s.nullifierSet

\* A slip: the commitment is stored where its nullifier belongs.
SpendCommitment(s, e) == [s EXCEPT !.nullifierSet = @ \cup {e}]

Spend(s, e) ==
    [leaves |-> s.leaves, rootHistory |-> s.rootHistory,
     nullifierSet |-> s.nullifierSet \cup {Nullifier(e)},
     publicBlinderSet |-> s.publicBlinderSet]

CanMarkBlinder(s, b) == b \notin s.publicBlinderSet

MarkBlinder(s, b) ==
    [leaves |-> s.leaves, rootHistory |-> s.rootHistory,
     nullifierSet |-> s.nullifierSet,
     publicBlinderSet |-> s.publicBlinderSet \cup {b}]

(* rotateWalletWithCommitment: nullify w (proved under root), publish n.    *)
\* A slip: whatever root the statement names is believed.
CanRotateAnyRoot(s, w, root, n) ==
    CanSpend(s, w) /\ CanMarkBlinder(s, n.blinder) /\ HasRoom(s)

CanRotate(s, w, root, n) ==
    /\ CanSpend(s, w)
    /\ CanMarkBlinder(s, n.blinder)
    /\ root \in s.rootHistory
    /\ HasRoom(s)

\* A slip: the new wallet's blinder is checked and not recorded.
RotateUnmarked(s, w, n) == InsertLeaf(Spend(s, w), n)

\* A slip: the old wallet is checked to be unspent and never nullified.
RotateUnspent(s, w, n) == InsertLeaf(MarkBlinder(s, n.blinder), n)

Rotate(s, w, n) == InsertLeaf(MarkBlinder(Spend(s, w), n.blinder), n)

(* verifyWalletUpdateSignature: over the new commitment, by the root key of *)
(* the old wallet.                                                          *)
verifyWalletUpdateSignature(w, signer) == signer = w.key

(* spendNote: a note is in the tree, and unspent.                           *)
CanSpendNote(s, note, root) == root \in s.rootHistory /\ CanSpend(s, note)

(* What a prover can open, and the root it proves it under: a leaf is under *)
(* every root since its insertion, and as they all lead to the same step    *)
(* the oldest stands for them; anything is under a root of its own tree.    *)
Openings(s) ==
    {[element |-> s.leaves[i], root |-> SubSeq(s.leaves, 1, i)] : i \in DOMAIN s.leaves}
    \cup {[element |-> e, root |-> <<e>>] : e \in Forged}

WalletOpenings(s) == {o \in Openings(s) : o.element \in Wallet}
NoteOpenings(s) == {o \in Openings(s) : o.element \in Note}

(* Blinders differ by identity alone, so the fresh ones are taken in order. *)
BlinderChoices(s) ==
    {b \in Blinders : \A c \in Blinders : c < b => c \in s.publicBlinderSet}

-----------------------------------------------------------------------------
(* What a match does to a wallet, and at which rates.                       *)

\* A slip: the fees are owed and not taken off what is received.
ApplyMatchGross(w, blinder, send, sendAmount, recv, recvAmount, feeTake) ==
    [key |-> w.key, blinder |-> blinder,
     bal |-> [w.bal EXCEPT ![recv] = @ + recvAmount, ![send] = @ - sendAmount],
     relayerFee |-> [w.relayerFee EXCEPT ![recv] = @ + feeTake.relayer],
     protocolFee |-> [w.protocolFee EXCEPT ![recv] = @ + feeTake.protocol]]

(* What a wallet becomes when it sends and receives the two legs of a match *)
(* and owes feeTake on what it receives.                                    *)
ApplyMatch(w, blinder, send, sendAmount, recv, recvAmount, feeTake) ==
    [key |-> w.key, blinder |-> blinder,
     bal |-> [t \in Tokens |->
                w.bal[t]
                + (IF t = recv THEN recvAmount - total(feeTake) ELSE 0)
                - (IF t = send THEN sendAmount ELSE 0)],
     relayerFee |-> [t \in Tokens |->
                w.relayerFee[t] + IF t = recv THEN feeTake.relayer ELSE 0],
     protocolFee |-> [t \in Tokens |->
                w.protocolFee[t] + IF t = recv THEN feeTake.protocol ELSE 0]]

(* getTokenExternalMatchFeeRate: zero means that no override is set.        *)
getTokenExternalMatchFeeRate(mint) ==
    IF perTokenFeeOverrides[mint] = 0 THEN protocolFeeRate
    ELSE perTokenFeeOverrides[mint]

\* A slip: a proof made under an earlier rate settles.
ProtocolFeeRateUnchecked(rate, required) == TRUE

(* The rate in a statement is the one required when it settles.             *)
ProtocolFeeRateValid(rate, required) == rate = required

(* The internal party trades the wrapper when the base is native.           *)
Resolve(mint) == IF mint = NATIVE THEN WETH ELSE mint

-----------------------------------------------------------------------------
(* ERC-20 transfers.  A token is external: it moves what it is asked to and  *)
(* delivers it, less a charge when it is a skimming one.                    *)

Delivered(mint, amount) == IF mint \in SkimTokens THEN amount - 1 ELSE amount

(* The contract compares its balance after a transfer to the expected one.  *)
BalanceMatches(mint, amount) == Delivered(mint, amount) = amount

CanDeposit(mint, amount) ==
    /\ BalanceMatches(mint, amount)
    /\ custody[mint] + amount <= MaxCustody

CanWithdraw(mint, amount) == amount <= custody[mint]

(* executeAtomicMatchTransfers: the sender pays in the sell leg, in ETH     *)
(* when the base is native; the buy leg goes out net of fees, and the fees. *)
AtomicTransfers(m, feeTake, msgValue) ==
    LET sell == externalPartySell(m)
        buy  == externalPartyBuy(m)
        wrapped == IF sell.mint = NATIVE THEN sell.amount ELSE 0
    IN  /\ sell.mint = NATIVE => msgValue = sell.amount
        /\ CanDeposit(Resolve(sell.mint), sell.amount)
        /\ total(feeTake) <= buy.amount
        /\ CanWithdraw(Resolve(buy.mint), buy.amount)
        /\ custody' = [t \in Tokens |->
                         custody[t]
                         + (IF t = Resolve(sell.mint)
                            THEN Delivered(t, sell.amount) ELSE 0)
                         - (IF t = Resolve(buy.mint) THEN buy.amount ELSE 0)]
        /\ poolEth' = poolEth + msgValue - wrapped

\* A slip: a value that is not asked for is not refused.
ValidTxValueUnchecked(m, msgValue) == TRUE

(* Only an external party that sells the native token may attach ETH.       *)
ValidTxValue(m, msgValue) ==
    (externalPartySell(m).mint = NATIVE) \/ msgValue = 0

-----------------------------------------------------------------------------
EmptyPool == [leaves |-> <<>>, rootHistory |-> {<<>>},
              nullifierSet |-> {}, publicBlinderSet |-> {}]

NoBalance == [t \in Tokens |-> 0]

(* initialize: the root of the empty tree is the first one in the history.  *)
Init ==
    /\ pool = EmptyPool
    /\ custody = NoBalance
    /\ poolEth = 0
    /\ protocolFeeRate \in FeeRates
    /\ perTokenFeeOverrides = [m \in Mints |-> 0]
    /\ protocolFeeKey \in FeeKeys
    /\ paused = FALSE

-----------------------------------------------------------------------------
(* The handlers of users and relayers, all whenNotPaused.                   *)

createWallet(key, blinder) ==
    LET n == [key |-> key, blinder |-> blinder, bal |-> NoBalance,
              relayerFee |-> NoBalance, protocolFee |-> NoBalance]
    IN  /\ ~paused
        /\ CanMarkBlinder(pool, blinder)
        /\ HasRoom(pool)
        /\ pool' = InsertLeaf(MarkBlinder(pool, blinder), n)
        /\ UNCHANGED <<custody, poolEth, config>>

(* VALID WALLET UPDATE lets the owner of w rewrite it as long as the        *)
(* balances move by the external transfer.                                  *)
Updated(w, key, blinder, mint, change) ==
    [key |-> key, blinder |-> blinder,
     bal |-> [t \in Tokens |-> w.bal[t] + IF t = mint THEN change ELSE 0],
     relayerFee |-> w.relayerFee, protocolFee |-> w.protocolFee]

(* updateWallet with a deposit (change > 0), a withdrawal (change < 0) or   *)
(* no transfer; signer signed the commitment to n.                          *)
updateWallet(root, w, signer, key, blinder, mint, change) ==
    LET n == Updated(w, key, blinder, mint, change)
    IN  /\ ~paused
        /\ w.bal[mint] + change >= 0
        /\ CanRotate(pool, w, root, n)
        /\ pool' = Rotate(pool, w, n)
        /\ verifyWalletUpdateSignature(w, signer)
        /\ change > 0 => CanDeposit(mint, change)
        /\ change < 0 => CanWithdraw(mint, -change)
        /\ custody' = [custody EXCEPT ![mint] =
                         @ + IF change > 0 THEN Delivered(mint, change) ELSE change]
        /\ UNCHANGED <<poolEth, config>>

(* A party of an internal match and its statement: w sends and receives.    *)
MatchParty(w, blinder, send, sendAmount, recv, recvAmount, relayerRate, rate) ==
    ApplyMatch(w, blinder, send, sendAmount, recv, recvAmount,
               computeFeeTake(relayerRate, rate, recvAmount))

(* processMatchSettle: w0 sends amount0 of t0 to w1 for amount1 of t1.  The *)
(* second rotation runs on the state the first one left, so its root may be *)
(* the one that the first has just written.                                 *)
processMatchSettle(o0, b0, o1, b1, t0, amount0, t1, amount1, relayerRate, rate) ==
    LET w0 == o0.element
        w1 == o1.element
        n0 == MatchParty(w0, b0, t0, amount0, t1, amount1, relayerRate, rate)
        n1 == MatchParty(w1, b1, t1, amount1, t0, amount0, relayerRate, rate)
        mid == Rotate(pool, w0, n0)
    IN  /\ ~paused
        /\ w0.bal[t0] >= amount0 /\ w1.bal[t1] >= amount1
        /\ ProtocolFeeRateValid(rate, protocolFeeRate)
        /\ CanRotate(pool, w0, o0.root, n0)
        /\ CanRotate(mid, w1, o1.root, n1)
        /\ pool' = Rotate(mid, w1, n1)
        /\ UNCHANGED <<custody, poolEth, config>>

(* processAtomicMatchSettle: the internal party's new wallet is proved; the *)
(* fee rate is looked up under the mint the sender named, native or not.    *)
processAtomicMatchSettle(root, w, blinder, m, relayerRate, rate, msgValue) ==
    LET sell == externalPartySell(m)
        buy  == externalPartyBuy(m)
        n == MatchParty(w, blinder, Resolve(buy.mint), buy.amount,
                        Resolve(sell.mint), sell.amount, relayerRate, rate)
    IN  /\ ~paused
        /\ ValidTxValue(m, msgValue)
        /\ w.bal[Resolve(buy.mint)] >= buy.amount
        /\ ProtocolFeeRateValid(rate, getTokenExternalMatchFeeRate(m.baseMint))
        /\ CanRotate(pool, w, root, n)
        /\ pool' = Rotate(pool, w, n)
        /\ AtomicTransfers(m, computeFeeTake(relayerRate, rate, buy.amount), msgValue)
        /\ UNCHANGED config

(* VALID MALLEABLE MATCH SETTLE ATOMIC proves that w can pay the most that  *)
(* the range asks of it.                                                    *)
Capitalized(w, bounds) ==
    /\ bounds.minBaseAmount <= bounds.maxBaseAmount
    /\ IF bounds.direction = "InternalPartyBuy"
       THEN unsafeFixedPointMul(bounds.price, bounds.maxBaseAmount)
              <= w.bal[bounds.quoteMint]
       ELSE bounds.maxBaseAmount <= w.bal[Resolve(bounds.baseMint)]

(* processMalleableAtomicMatchSettle: the sender picks the amounts inside   *)
(* the proved range and the contract computes the internal party's shares.  *)
processMalleableAtomicMatchSettle(o, blinder, bounds, quoteAmount, baseAmount, rates, msgValue) ==
    LET w == o.element
        m == buildExternalMatchResult(quoteAmount, baseAmount, bounds)
        sell == externalPartySell(m)
        buy  == externalPartyBuy(m)
        fee  == computeFeeTake(rates.relayer, rates.internal, sell.amount)
        n == ApplyMatch(w, blinder, Resolve(buy.mint), buy.amount,
                        Resolve(sell.mint), sell.amount, fee)
    IN  /\ ~paused
        /\ ValidTxValue(m, msgValue)
        /\ Capitalized(w, bounds)
        /\ ProtocolFeeRateValid(rates.internal, getTokenExternalMatchFeeRate(m.baseMint))
        /\ ProtocolFeeRateValid(rates.external, getTokenExternalMatchFeeRate(m.baseMint))
        /\ validateAmounts(bounds, quoteAmount, baseAmount)
        /\ total(fee) <= sell.amount
        /\ CanRotate(pool, w, o.root, n)
        /\ pool' = Rotate(pool, w, n)
        /\ AtomicTransfers(m, computeFeeTake(rates.relayer, rates.external, buy.amount),
                           msgValue)
        /\ UNCHANGED config

(* settleOfflineFee: one fee balance of w leaves it as a note.  The handler *)
(* is payable and looks at no value.  A protocol fee goes to the key in the *)
(* statement, a relayer's to the key the wallet names for its relayer.      *)
FeePaid(w, blinder, mint, kind) ==
    LET Without(fees) == [t \in Tokens |-> IF t = mint THEN 0 ELSE fees[t]]
    IN  [key |-> w.key, blinder |-> blinder, bal |-> w.bal,
         relayerFee  |-> IF kind = "relayer" THEN Without(w.relayerFee) ELSE w.relayerFee,
         protocolFee |-> IF kind = "protocol" THEN Without(w.protocolFee) ELSE w.protocolFee]

settleOfflineFee(root, w, blinder, mint, kind, protocolKey, receiver, id, msgValue) ==
    LET owed == IF kind = "relayer" THEN w.relayerFee[mint] ELSE w.protocolFee[mint]
        n    == FeePaid(w, blinder, mint, kind)
        note == [mint |-> mint, amount |-> owed, receiver |-> receiver, id |-> id]
        mid  == Rotate(pool, w, n)
    IN  /\ ~paused
        /\ protocolKey = protocolFeeKey
        /\ owed > 0
        /\ kind = "protocol" => receiver = protocolKey
        /\ CanRotate(pool, w, root, n)
        /\ HasRoom(mid)
        /\ pool' = InsertLeaf(mid, note)
        /\ poolEth' = poolEth + msgValue
        /\ UNCHANGED <<custody, config>>

(* redeemFee: the note's amount joins the balance of w.  The wallet's and   *)
(* the note's nullifiers go to one set, the wallet's first.                 *)
redeemFee(root, w, signer, blinder, noteRoot, note) ==
    LET n   == Updated(w, w.key, blinder, note.mint, note.amount)
        mid == Rotate(pool, w, n)
    IN  /\ ~paused
        /\ CanRotate(pool, w, root, n)
        /\ verifyWalletUpdateSignature(w, signer)
        /\ CanSpendNote(mid, note, noteRoot)
        /\ pool' = Spend(mid, note)
        /\ UNCHANGED <<custody, poolEth, config>>

-----------------------------------------------------------------------------
(* receive(): anyone may send ETH, besides the wrapper when it unwraps.     *)
receive(value) ==
    /\ poolEth' = poolEth + value
    /\ UNCHANGED <<pool, custody, config>>

(* The owner's setters (onlyOwner).                                         *)
setProtocolFeeRate(rate) ==
    /\ rate # 0
    /\ protocolFeeRate' = rate
    /\ UNCHANGED <<pool, custody, poolEth, perTokenFeeOverrides, protocolFeeKey, paused>>

setTokenExternalMatchFeeRate(mint, rate) ==
    /\ rate # 0
    /\ perTokenFeeOverrides' = [perTokenFeeOverrides EXCEPT ![mint] = rate]
    /\ UNCHANGED <<pool, custody, poolEth, protocolFeeRate, protocolFeeKey, paused>>

removeTokenExternalMatchFeeRate(mint) ==
    /\ perTokenFeeOverrides' = [perTokenFeeOverrides EXCEPT ![mint] = 0]
    /\ UNCHANGED <<pool, custody, poolEth, protocolFeeRate, protocolFeeKey, paused>>

setProtocolFeeKey(key) ==
    /\ protocolFeeKey' = key
    /\ UNCHANGED <<pool, custody, poolEth, protocolFeeRate, perTokenFeeOverrides, paused>>

pause ==
    /\ ~paused
    /\ paused' = TRUE
    /\ UNCHANGED <<pool, custody, poolEth, protocolFeeRate, perTokenFeeOverrides, protocolFeeKey>>

unpause ==
    /\ paused
    /\ paused' = FALSE
    /\ UNCHANGED <<pool, custody, poolEth, protocolFeeRate, perTokenFeeOverrides, protocolFeeKey>>

-----------------------------------------------------------------------------
(* What provers, owners and external parties may submit.                    *)

MatchResults ==
    {m \in [baseMint : Mints, quoteMint : Tokens, direction : Direction,
            baseAmount : Amounts, quoteAmount : Amounts] :
        Resolve(m.baseMint) # m.quoteMint}

BoundedMatchResults ==
    {m \in [baseMint : Mints, quoteMint : Tokens, direction : Direction,
            price : Prices, minBaseAmount : Amounts, maxBaseAmount : Amounts] :
        Resolve(m.baseMint) # m.quoteMint}

CreateWallet == \E key \in Keys, b \in BlinderChoices(pool) : createWallet(key, b)

UpdateWallet ==
    \E o \in WalletOpenings(pool), b \in BlinderChoices(pool) :
    \E signer, key \in Keys, t \in Tokens, a \in Amounts \cup {0}, sign \in {-1, 1} :
        updateWallet(o.root, o.element, signer, key, b, t, sign * a)

ProcessMatchSettle ==
    \E o0 \in WalletOpenings(pool), b0 \in BlinderChoices(pool) :
    \E t0, t1 \in Tokens, a0, a1 \in Amounts, relayerRate \in RelayerRates, rate \in FeeRates :
    LET n0  == MatchParty(o0.element, b0, t0, a0, t1, a1, relayerRate, rate)
        mid == Rotate(pool, o0.element, n0)
    IN  /\ t0 # t1 /\ o0.element.bal[t0] >= a0
        /\ \E o1 \in WalletOpenings(mid), b1 \in BlinderChoices(mid) :
              processMatchSettle(o0, b0, o1, b1, t0, a0, t1, a1, relayerRate, rate)

ProcessAtomicMatchSettle ==
    \E o \in WalletOpenings(pool), b \in BlinderChoices(pool), m \in MatchResults :
    \E relayerRate \in RelayerRates, rate \in FeeRates, v \in EthValues :
        processAtomicMatchSettle(o.root, o.element, b, m, relayerRate, rate, v)

ProcessMalleableAtomicMatchSettle ==
    \E o \in WalletOpenings(pool), b \in BlinderChoices(pool) :
    \E bounds \in {x \in BoundedMatchResults : Capitalized(o.element, x)} :
    \E base, quote \in Amounts, relayerRate \in RelayerRates, internalRate, externalRate \in FeeRates :
    \E v \in EthValues :
        processMalleableAtomicMatchSettle(o, b, bounds, quote, base,
            [relayer |-> relayerRate, internal |-> internalRate, external |-> externalRate], v)

SettleOfflineFee ==
    \E o \in WalletOpenings(pool), b \in BlinderChoices(pool) :
    \E t \in Tokens, kind \in {"relayer", "protocol"} :
    \E protocolKey, receiver \in FeeKeys, id \in NoteIds, v \in EthValues :
        /\ poolEth + v <= MaxEth
        /\ settleOfflineFee(o.root, o.element, b, t, kind, protocolKey, receiver, id, v)

RedeemFee ==
    \E o \in WalletOpenings(pool), b \in BlinderChoices(pool) :
    \E note \in NoteOpenings(pool), signer \in Keys :
        redeemFee(o.root, o.element, signer, b, note.root, note.element)

Receive == \E v \in Donations : poolEth + v <= MaxEth /\ receive(v)

Administer ==
    \/ \E rate \in FeeRates : setProtocolFeeRate(rate)
    \/ \E m \in Overridable, rate \in FeeRates : setTokenExternalMatchFeeRate(m, rate)
    \/ \E m \in Overridable : removeTokenExternalMatchFeeRate(m)
    \/ \E key \in FeeKeys : setProtocolFeeKey(key)
    \/ pause
    \/ unpause

Next ==
    \/ CreateWallet
    \/ UpdateWallet
    \/ ProcessMatchSettle
    \/ ProcessAtomicMatchSettle
    \/ ProcessMalleableAtomicMatchSettle
    \/ SettleOfflineFee
    \/ RedeemFee
    \/ Receive
    \/ Administer

Spec == Init /\ [][Next]_vars

-----------------------------------------------------------------------------
(* Properties.                                                              *)

Leaves == DOMAIN pool.leaves

(* What element e entitles to, in tokens of one mint.                       *)
Value(e, t) ==
    IF e \in Wallet THEN e.bal[t] + e.relayerFee[t] + e.protocolFee[t]
    ELSE IF e.mint = t THEN e.amount ELSE 0

(* What leaf i still entitles to: nothing once its nullifier is spent.      *)
Entitles(s, t) ==
    [i \in DOMAIN s.leaves |->
        IF CanSpend(s, s.leaves[i]) THEN Value(s.leaves[i], t) ELSE 0]

(* The sum of that over all leaves.                                         *)
Owed(s, t) == RunningTotal(Entitles(s, t), Len(s.leaves))

TypeOK ==
    /\ pool \in [leaves : Seq(Element), rootHistory : SUBSET Seq(Element),
                 nullifierSet : SUBSET [nullifies : Element],
                 publicBlinderSet : SUBSET Blinders]
    /\ custody \in [Tokens -> Int]
    /\ poolEth \in Int
    /\ protocolFeeRate \in FeeRates
    /\ perTokenFeeOverrides \in [Mints -> FeeRates \cup {0}]
    /\ protocolFeeKey \in FeeKeys
    /\ paused \in BOOLEAN

(* The contract holds, of every mint, at least what all unspent wallets and *)
(* notes entitle to: no sequence of rotations, matches, fee notes and       *)
(* transfers spends an element twice, opens one that was never committed,   *)
(* or credits a deposit that did not arrive in full.                        *)
Solvent == \A t \in Tokens : Owed(pool, t) <= custody[t]

(* A public blinder identifies one wallet in the tree for ever (what        *)
(* publicBlinderSet is for): no two wallets share a nullifier, so spending  *)
(* one never freezes another, and a signature over a new commitment cannot  *)
(* be used for a second update.                                             *)
BlinderIdentifiesWallet ==
    \A i, j \in Leaves :
        ( /\ pool.leaves[i] \in Wallet /\ pool.leaves[j] \in Wallet
          /\ pool.leaves[i].blinder = pool.leaves[j].blinder ) => i = j

(* Only what was committed is ever nullified, although provers open         *)
(* elements under any root they like: the root history is what stops them.  *)
SpentWasCommitted ==
    \A x \in pool.nullifierSet : \E i \in Leaves : x = Nullifier(pool.leaves[i])

(* No wallet in the tree holds a negative amount, which the field would     *)
(* wrap: the amounts a sender picks in a malleable match stay within what   *)
(* the proof showed the wallet can pay, and fees within what it receives.   *)
NoWalletOverdrawn ==
    \A i \in Leaves : pool.leaves[i] \in Wallet =>
        \A t \in Tokens : /\ pool.leaves[i].bal[t] >= 0
                          /\ pool.leaves[i].relayerFee[t] >= 0
                          /\ pool.leaves[i].protocolFee[t] >= 0

(* The wallets a step puts into the tree, and those it nullifies.           *)
Created == {pool'.leaves[i] : i \in Len(pool.leaves) + 1 .. Len(pool'.leaves)} \cap Wallet
Consumed == {x.nullifies : x \in pool'.nullifierSet \ pool.nullifierSet} \cap Wallet

(* The protocol's cut of what a step brings into a wallet is at a rate that *)
(* was in force when the step ran: the base rate between two wallets, else  *)
(* one in force for some mint.  Each new wallet comes from one that the     *)
(* step consumed, which may be new too.                                     *)
ChargesRateInForce ==
    LET Rates == IF \E n, m \in Created : n # m THEN {protocolFeeRate}
                 ELSE {getTokenExternalMatchFeeRate(m) : m \in Mints}
    IN  Consumed # {} =>
          \E from \in [Created -> Consumed] :
            /\ \A n, m \in Created : from[n] = from[m] => n = m
            /\ \A n \in Created, t \in Tokens :
                 LET accrued  == n.protocolFee[t] - from[n].protocolFee[t]
                     received == Value(n, t) - Value(from[n], t)
                 IN  /\ from[n] # n
                     /\ accrued > 0 =>
                          \E rate \in Rates : accrued = unsafeFixedPointMul(rate, received)

(* The rate of every step is the owner's of that moment, not the one the    *)
(* proof was made under: no statement outlives the rate it was proved with. *)
FeesAtRateInForce == [][ChargesRateInForce]_vars

(* The ETH that comes with a match is wrapped to the last unit or refused:  *)
(* in no match, whichever side sells native currency and whatever value is  *)
(* attached, does any stay, where nothing could pay it out again.  What     *)
(* stays came with a call that moves no tokens.                             *)
LeavesNoEth == poolEth' # poolEth => poolEth' > poolEth /\ custody' = custody

MatchesLeaveNoEth == [][LeavesNoEth]_vars

-----------------------------------------------------------------------------
(* The darkpool implements the ledger: the leaves are what it has issued,   *)
(* the nullifiers what is spent.                                            *)
Ledger == INSTANCE DarkpoolLedger WITH
            created <- {pool.leaves[i] : i \in Leaves},
            spent   <- {x.nullifies : x \in pool.nullifierSet}

(* Every handler is one balanced ledger transaction, or changes nothing the *)
(* ledger can see.                                                          *)
ImplementsLedger == Ledger!Spec
=============================================================================
