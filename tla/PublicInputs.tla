---------------------------- MODULE PublicInputs ----------------------------
(***************************************************************************)
(* What a proof is about, on both sides: the contract serializes the        *)
(* statement it is given into field elements (v1/libraries/                 *)
(* PublicInputs.sol), the prover takes its public inputs in the order of    *)
(* the circuit.  The proof system is external: the elements of a proof are  *)
(* determined by its circuit and its inputs, and the verifier accepts       *)
(* exactly these under the circuit's key, so that a value that was          *)
(* converted wrongly, or put in another place, makes it reject.             *)
(***************************************************************************)
EXTENDS AbiTypes, VerificationKeys

SerializeTransfer(t) == <<t.account, t.mint, t.amount, t.transferType>>
SerializeRootKey(k)  == k.x \o k.y
SerializeIndices(i)  == <<i.balanceSend, i.balanceReceive, i.order>>
SerializeMatch(m)    == <<m.quoteMint, m.baseMint, m.quoteAmount, m.baseAmount, m.direction>>
SerializeFees(f)     == <<f.relayerFee, f.protocolFee>>

SerializeWalletCreate(s) == <<s.walletShareCommitment>> \o s.publicShares

SerializeWalletUpdate(s) ==
    <<s.previousNullifier, s.newWalletCommitment>> \o s.newPublicShares
      \o <<s.merkleRoot>> \o SerializeTransfer(s.externalTransfer)
      \o SerializeRootKey(s.oldPkRoot)

SerializeReblind(s) ==
    <<s.originalSharesNullifier, s.newPrivateShareCommitment, s.merkleRoot>>

SerializeCommitments(s) == SerializeIndices(s.indices)

SerializeMatchSettle(s) ==
    s.firstPartyPublicShares \o s.secondPartyPublicShares
      \o SerializeIndices(s.firstPartySettlementIndices)
      \o SerializeIndices(s.secondPartySettlementIndices) \o <<s.protocolFeeRate>>

SerializeMatchSettleAtomic(s) ==
    SerializeMatch(s.matchResult) \o SerializeFees(s.externalPartyFees)
      \o s.internalPartyModifiedShares \o SerializeIndices(s.internalPartySettlementIndices)
      \o <<s.protocolFeeRate, s.relayerFeeAddress>>

-----------------------------------------------------------------------------
(* The circuits' inputs.                                                    *)
IndexInputs(i) == <<i.balance_send, i.balance_receive, i.order>>

WalletCreateInputs(s) == <<s.wallet_share_commitment>> \o s.public_wallet_shares

WalletUpdateInputs(s) ==
    <<s.old_shares_nullifier, s.new_wallet_commitment>> \o s.new_public_shares
      \o <<s.merkle_root, s.external_transfer.account_addr, s.external_transfer.mint,
           s.external_transfer.amount,
           IF s.external_transfer.direction = "Deposit" THEN 0 ELSE 1>>
      \o s.old_pk_root.x \o s.old_pk_root.y

ReblindInputs(s) ==
    <<s.original_shares_nullifier, s.reblinded_private_share_commitment, s.merkle_root>>

CommitmentsInputs(s) == IndexInputs(s.indices)

MatchSettleInputs(s) ==
    s.party0_modified_shares \o s.party1_modified_shares
      \o IndexInputs(s.party0_indices) \o IndexInputs(s.party1_indices) \o <<s.protocol_fee>>

MatchSettleAtomicInputs(s) ==
    <<s.match_result.quote_mint, s.match_result.base_mint, s.match_result.quote_amount,
      s.match_result.base_amount, s.match_result.direction,
      s.external_party_fees.relayer_fee, s.external_party_fees.protocol_fee>>
      \o s.internal_party_modified_shares \o IndexInputs(s.internal_party_indices)
      \o <<s.protocol_fee, s.relayer_fee_address>>

-----------------------------------------------------------------------------
(* The prover and the verifier.  An element depends on the circuit, on all  *)
(* inputs and on its place in the proof.                                    *)
Digest[inputs \in Seq(Nat)] ==
    IF inputs = <<>> THEN 7
    ELSE (31 * Digest[Front(inputs)] + (Last(inputs) % 9973)) % 9973

Points[d \in Nat] == [i \in 1..2 * NumWires + 3 |-> <<d + i, 3 * i>>]
Evals[d \in Nat]  == [i \in 1..2 * NumWires |-> 5 * d + i]

ProofOf[d \in Nat] ==
    [wires_poly_comms      |-> SubSeq(Points[d], 1, NumWires),
     prod_perm_poly_comm   |-> Points[d][NumWires + 1],
     split_quot_poly_comms |-> SubSeq(Points[d], NumWires + 2, 2 * NumWires + 1),
     opening_proof         |-> Points[d][2 * NumWires + 2],
     shifted_opening_proof |-> Points[d][2 * NumWires + 3],
     wires_evals           |-> SubSeq(Evals[d], 1, NumWires),
     wire_sigma_evals      |-> SubSeq(Evals[d], NumWires + 1, 2 * NumWires - 1),
     perm_next_eval        |-> Evals[d][2 * NumWires]]

(* The prover's outcome, converted for the contract.                        *)
Proved[d \in Nat] == PlonkProof(ProofOf[d])

Prove(circuit, inputs) == Proved[Digest[<<circuit>> \o inputs]]

ProvedLink[d \in Nat] ==
    LinkingProof([quotient_commitment |-> Points[d][1], opening_proof |-> Points[d][2]])

Link(layout, inputs, linked) == ProvedLink[Digest[<<layout>> \o inputs \o linked]]

Point(p) == <<p.x, p.y>>

Verifies(vk, inputs, proof) ==
    LET d == Digest[<<vk>> \o inputs]
    IN  /\ [i \in 1..NumWires |-> Point(proof.wireComms[i])]
              \o <<Point(proof.zComm)>>
              \o [i \in 1..NumWires |-> Point(proof.quotientComms[i])]
              \o <<Point(proof.wZeta), Point(proof.wZetaOmega)>> = Points[d]
        /\ proof.wireEvals \o proof.sigmaEvals \o <<proof.zBar>> = Evals[d]

Linked(vk, inputs, linked, proof) ==
    LET d == Digest[<<vk>> \o inputs \o linked]
    IN  /\ Point(proof.linkingQuotientPolyComm) = Points[d][1]
        /\ Point(proof.linkingPolyOpening) = Points[d][2]
=============================================================================
