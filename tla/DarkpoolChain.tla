--------------------------- MODULE DarkpoolChain ---------------------------
(***************************************************************************)
(* The contract as its clients meet it: transactions that carry statements  *)
(* and proofs in the contract's encoding, and that change its state and     *)
(* leave logs, or revert.  A transaction is executed against a state, so    *)
(* that a node can also simulate it.  Module Darkpool has the same handlers *)
(* for all their users, with wallets and proofs for what they stand for.    *)
(***************************************************************************)
EXTENDS PublicInputs, MerkleTreeLib, FiniteSets

CONSTANTS DARKPOOL, PERMIT2,            \* addresses
          QUOTE_TOKEN, BASE_TOKEN

Mints == {QUOTE_TOKEN, BASE_TOKEN}

(* Commitments are small numbers, and what a wallet's shares hash to, its   *)
(* nullifier and its key are numbers that determine it.                     *)
PrivateShareCommitment(comm) == 300 + comm
Shares(comm)    == <<100 + comm, 200 + comm>>
Nullifier(comm) == 400 + comm

WalletCommitment(private, shares) ==
    CHOOSE comm \in Leaf : private = PrivateShareCommitment(comm) /\ shares = Shares(comm)

(* Signatures are what was signed, and by whom.                             *)
Signature(key, message) == <<key, message>>

(* darkpool: the state of the contract and of the tokens that one account,  *)
(* the user, trades with.                                                   *)
NewDarkpool ==
    [tree |-> initialize(Uninitialized, MERKLE_DEPTH, TRUE),
     nullifierSet |-> {}, publicBlinderSet |-> {},
     protocolFeeRate |-> 1, perTokenFeeOverrides |-> [t \in Mints |-> 0],
     custody |-> [t \in Mints |-> 0], balance |-> [t \in Mints |-> 0],
     allowance |-> [t \in Mints |-> [s \in {DARKPOOL, PERMIT2} |-> 0]]]

Reverted(d)      == [status |-> FALSE, darkpool |-> d, logs |-> <<>>]
Applied(d, logs) == [status |-> TRUE, darkpool |-> d, logs |-> logs]

Insert(d, leaf) == [d EXCEPT !.tree = insertLeaf(@, leaf)]

(* Moving amount of a mint between the user and the contract.               *)
Pull(d, mint, amount) ==
    [d EXCEPT !.balance[mint] = @ - amount, !.custody[mint] = @ + amount]
PullBy(d, spender, mint, amount) ==
    [Pull(d, mint, amount) EXCEPT !.allowance[mint][spender] = @ - amount]
CanPull(d, spender, mint, amount) ==
    amount <= d.balance[mint] /\ amount <= d.allowance[mint][spender]

-----------------------------------------------------------------------------
CanRotate(d, nullifier, root, shares) ==
    /\ Last(shares) \notin d.publicBlinderSet
    /\ root \in d.tree.rootHistory
    /\ nullifier \notin d.nullifierSet
    /\ CanInsert(d.tree)

Rotated(d, nullifier, shares, leaf) ==
    [Insert(d, leaf) EXCEPT !.publicBlinderSet = @ \cup {Last(shares)},
                            !.nullifierSet = @ \cup {nullifier}]

createWallet(d, st, proof) ==
    IF /\ Verifies(walletCreateKeys, SerializeWalletCreate(st), proof)
       /\ Last(st.publicShares) \notin d.publicBlinderSet
       /\ CanInsert(d.tree)
    THEN Applied([Insert(d, st.walletShareCommitment) EXCEPT
                    !.publicBlinderSet = @ \cup {Last(st.publicShares)}],
                 insertionLogs(d.tree, st.walletShareCommitment))
    ELSE Reverted(d)

CanTransfer(d, st, auth) ==
    LET t == st.externalTransfer
    IN  \/ t.amount = 0
        \/ /\ t.transferType = Deposit
           /\ auth.permit2Signature =
                Signature(t.account, <<t.mint, t.amount, DARKPOOL, auth.permit2Nonce,
                                       auth.permit2Deadline, st.oldPkRoot>>)
           /\ CanPull(d, PERMIT2, t.mint, t.amount)
        \/ /\ t.transferType = Withdrawal
           /\ auth.externalTransferSignature = Signature(st.oldPkRoot, t)
           /\ t.amount <= d.custody[t.mint]

executeTransfer(d, t) ==
    IF t.amount = 0 THEN d
    ELSE IF t.transferType = Deposit THEN PullBy(d, PERMIT2, t.mint, t.amount)
    ELSE Pull(d, t.mint, -t.amount)

updateWallet(d, sig, auth, st, proof) ==
    IF /\ Verifies(walletUpdateKeys, SerializeWalletUpdate(st), proof)
       /\ CanRotate(d, st.previousNullifier, st.merkleRoot, st.newPublicShares)
       /\ sig = Signature(st.oldPkRoot, st.newWalletCommitment)
       /\ CanTransfer(d, st, auth)
    THEN Applied(executeTransfer(Rotated(d, st.previousNullifier, st.newPublicShares,
                                         st.newWalletCommitment), st.externalTransfer),
                 insertionLogs(d.tree, st.newWalletCommitment))
    ELSE Reverted(d)

(* One party of a match, and its proofs: reblind, commitments, and how they *)
(* are linked with each other and with the settlement.                      *)
VerifiesParty(keys, link, party, inputs, proofs) ==
    LET reblind     == SerializeReblind(party.validReblindStatement)
        commitments == SerializeCommitments(party.validCommitmentsStatement)
    IN  /\ Verifies(keys.reblindVk, reblind, proofs.validReblind)
        /\ Verifies(keys.commitmentsVk, commitments, proofs.validCommitments)
        /\ Linked(keys.reblindCommitmentsVk, reblind, commitments, proofs.linkReblind)
        /\ Linked(keys.commitmentsMatchSettleVk[link], commitments, inputs, proofs.linkSettle)

CanRotateParty(d, party, shares) ==
    CanRotate(d, party.validReblindStatement.originalSharesNullifier,
              party.validReblindStatement.merkleRoot, shares)

PartyLeaf(party, shares) ==
    WalletCommitment(party.validReblindStatement.newPrivateShareCommitment, shares)

RotatedParty(d, party, shares) ==
    Rotated(d, party.validReblindStatement.originalSharesNullifier, shares,
            PartyLeaf(party, shares))

processMatchSettle(d, party0, party1, st, proofs0, proofs1, proof) ==
    LET inputs == SerializeMatchSettle(st)
        after0 == RotatedParty(d, party0, st.firstPartyPublicShares)
    IN  IF /\ VerifiesParty(matchBundleKeys, 1, party0, inputs, proofs0)
           /\ VerifiesParty(matchBundleKeys, 2, party1, inputs, proofs1)
           /\ Verifies(matchBundleKeys.settleVk, inputs, proof)
           /\ party0.validCommitmentsStatement.indices = st.firstPartySettlementIndices
           /\ party1.validCommitmentsStatement.indices = st.secondPartySettlementIndices
           /\ st.protocolFeeRate = d.protocolFeeRate
           /\ CanRotateParty(d, party0, st.firstPartyPublicShares)
           /\ CanRotateParty(after0, party1, st.secondPartyPublicShares)
        THEN Applied(RotatedParty(after0, party1, st.secondPartyPublicShares),
                     insertionLogs(d.tree, PartyLeaf(party0, st.firstPartyPublicShares))
                       \o insertionLogs(after0.tree,
                                        PartyLeaf(party1, st.secondPartyPublicShares)))
        ELSE Reverted(d)

getTokenExternalMatchFeeRate(d, mint) ==
    IF d.perTokenFeeOverrides[mint] # 0 THEN d.perTokenFeeOverrides[mint]
    ELSE d.protocolFeeRate

processAtomicMatchSettle(d, party, st, proofs, proof) ==
    LET inputs == SerializeMatchSettleAtomic(st)
        m      == st.matchResult
        fees   == st.externalPartyFees.relayerFee + st.externalPartyFees.protocolFee
        buys   == m.direction = 1        \* the internal party sells
        sell   == IF buys THEN <<m.quoteMint, m.quoteAmount>> ELSE <<m.baseMint, m.baseAmount>>
        buy    == IF buys THEN <<m.baseMint, m.baseAmount>> ELSE <<m.quoteMint, m.quoteAmount>>
        paid   == PullBy(RotatedParty(d, party, st.internalPartyModifiedShares),
                         DARKPOOL, sell[1], sell[2])
    IN  IF /\ VerifiesParty(atomicMatchBundleKeys, 1, party, inputs, proofs)
           /\ Verifies(atomicMatchBundleKeys.settleVk, inputs, proof)
           /\ party.validCommitmentsStatement.indices = st.internalPartySettlementIndices
           /\ st.protocolFeeRate = getTokenExternalMatchFeeRate(d, m.baseMint)
           /\ CanRotateParty(d, party, st.internalPartyModifiedShares)
           /\ CanPull(d, DARKPOOL, sell[1], sell[2])
           /\ buy[2] <= d.custody[buy[1]]
        THEN Applied([paid EXCEPT !.custody[buy[1]] = @ - buy[2],
                                  !.balance[buy[1]] = @ + buy[2] - fees],
                     insertionLogs(d.tree, PartyLeaf(party, st.internalPartyModifiedShares)))
        ELSE Reverted(d)

-----------------------------------------------------------------------------
Execute(d, tx) ==
    CASE tx.method = "createWallet" -> createWallet(d, tx.statement, tx.proof)
      [] tx.method = "updateWallet" ->
             updateWallet(d, tx.sig, tx.auth, tx.statement, tx.proof)
      [] tx.method = "processMatchSettle" ->
             processMatchSettle(d, tx.party0, tx.party1, tx.statement,
                                tx.proofs0, tx.proofs1, tx.proof)
      [] tx.method = "processAtomicMatchSettle" ->
             processAtomicMatchSettle(d, tx.party, tx.statement, tx.proofs, tx.proof)
      [] tx.method = "mint" ->
             Applied([d EXCEPT !.balance[tx.mint] = @ + tx.amount], <<>>)
      [] tx.method = "approve" ->
             Applied([d EXCEPT !.allowance[tx.mint][tx.spender] = tx.amount], <<>>)
=============================================================================
