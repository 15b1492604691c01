------------------------------ MODULE AbiTypes ------------------------------
(***************************************************************************)
(* The conversions of abi/src/lib.rs: numbers of the relayer (scalars,      *)
(* big integers) become words and addresses of the contract through byte    *)
(* strings, and the relayer's statements, transfers, keys and proofs become *)
(* the contract's structs.  Bytes are big-endian digits to the base Radix.  *)
(* Where the code panics, no case applies.                                  *)
(***************************************************************************)
EXTENDS Integers, SequencesExt

CONSTANTS Radix,            \* values of a byte
          WordBytes,        \* bytes of a word
          AddressBytes,     \* bytes of an address
          ScalarModulus,    \* order of the scalar field
          NumWires          \* wire types of a proof

ASSUME AbiAssumption ==
    /\ Radix \in Nat \ {0, 1} /\ NumWires \in Nat \ {0}
    /\ AddressBytes \in 1..WordBytes
    /\ ScalarModulus \in 1..Radix ^ WordBytes

(* Of the libraries: a number from bytes, and the bytes of a number, as     *)
(* many as asked for or as few as it takes (one for zero).                  *)
FromBytes[bytes \in Seq(0..Radix - 1)] ==
    IF bytes = <<>> THEN 0 ELSE FromBytes[Front(bytes)] * Radix + Last(bytes)

FixedBytes[n \in Nat, len \in Nat] == [i \in 1..len |-> (n \div Radix ^ (len - i)) % Radix]

BigUintBytes(n) ==
    FixedBytes[n, CHOOSE len \in 1..WordBytes :
                     n < Radix ^ len /\ \A k \in 1..len - 1 : n >= Radix ^ k]

-----------------------------------------------------------------------------
(* Helpers.                                                                 *)
size_vec(vec, n) == CASE Len(vec) = n -> vec

pad_bytes(bytes, n) ==
    CASE Len(bytes) <= n -> [i \in 1..n - Len(bytes) |-> 0] \o bytes

biguint_to_address(n) == FromBytes[pad_bytes(BigUintBytes(n), AddressBytes)]
biguint_to_u256(n)    == FromBytes[BigUintBytes(n)]
address_to_biguint(a) == FromBytes[FixedBytes[a, AddressBytes]]

(* The bytes are copied to the front of the word, so the number comes out   *)
(* right only if they fill the word.                                        *)
bytes_to_u256(bytes) ==
    FromBytes[[i \in 1..WordBytes |-> IF i <= Len(bytes) THEN bytes[i] ELSE 0]]

\* A slip: the scalar is taken through a big integer.
scalar_to_u256Short(scalar) == bytes_to_u256(BigUintBytes(scalar))

scalar_to_u256(scalar) == bytes_to_u256(FixedBytes[scalar, WordBytes])

u256_to_scalar(u256) == FromBytes[FixedBytes[u256, WordBytes]] % ScalarModulus

fr_to_u256(fr) == scalar_to_u256(fr)

base_field_to_u256(fq) == bytes_to_u256(FixedBytes[fq, WordBytes])

U256s(scalars) == [i \in DOMAIN scalars |-> scalar_to_u256(scalars[i])]

(* A point is its two coordinates; the point at infinity has none.          *)
convert_g1_point(point) ==
    CASE Len(point) = 2 ->
           [x |-> base_field_to_u256(point[1]), y |-> base_field_to_u256(point[2])]

convert_jf_commitment(commitment) == convert_g1_point(commitment)

G1Points(commitments, n) ==
    size_vec([i \in DOMAIN commitments |-> convert_jf_commitment(commitments[i])], n)

-----------------------------------------------------------------------------
(* Application types.                                                       *)
Deposit == 0
Withdrawal == 1

TransferType(direction) == IF direction = "Deposit" THEN Deposit ELSE Withdrawal

ExternalTransferStruct(transfer) ==
    [account      |-> biguint_to_address(transfer.account_addr),
     mint         |-> biguint_to_address(transfer.mint),
     amount       |-> transfer.amount,
     transferType |-> TransferType(transfer.direction)]

NoAuthorization ==
    [permit2Nonce |-> 0, permit2Deadline |-> 0, permit2Signature |-> <<>>,
     externalTransferSignature |-> <<>>]

withdrawal(sig) == [NoAuthorization EXCEPT !.externalTransferSignature = sig]

TransferAuthorization(auth) ==
    [NoAuthorization EXCEPT !.permit2Nonce     = biguint_to_u256(auth.permit_nonce),
                            !.permit2Deadline  = biguint_to_u256(auth.permit_deadline),
                            !.permit2Signature = auth.permit_signature]

PublicRootKey(key) == [x |-> U256s(key.x), y |-> U256s(key.y)]

OrderSettlementIndices(indices) ==
    [balanceSend    |-> indices.balance_send,
     balanceReceive |-> indices.balance_receive,
     order          |-> indices.order]

-----------------------------------------------------------------------------
(* Statements.                                                              *)
ValidWalletCreateStatement(statement) ==
    [walletShareCommitment |-> scalar_to_u256(statement.wallet_share_commitment),
     publicShares          |-> U256s(statement.public_wallet_shares)]

ValidWalletUpdateStatement(statement) ==
    [previousNullifier   |-> scalar_to_u256(statement.old_shares_nullifier),
     newWalletCommitment |-> scalar_to_u256(statement.new_wallet_commitment),
     newPublicShares     |-> U256s(statement.new_public_shares),
     merkleRoot          |-> scalar_to_u256(statement.merkle_root),
     externalTransfer    |-> ExternalTransferStruct(statement.external_transfer),
     oldPkRoot           |-> PublicRootKey(statement.old_pk_root)]

ValidReblindStatement(statement) ==
    [originalSharesNullifier   |-> scalar_to_u256(statement.original_shares_nullifier),
     newPrivateShareCommitment |-> scalar_to_u256(statement.reblinded_private_share_commitment),
     merkleRoot                |-> scalar_to_u256(statement.merkle_root)]

ValidCommitmentsStatement(statement) ==
    [indices |-> OrderSettlementIndices(statement.indices)]

ValidMatchSettleStatement(statement) ==
    [firstPartyPublicShares       |-> U256s(statement.party0_modified_shares),
     secondPartyPublicShares      |-> U256s(statement.party1_modified_shares),
     firstPartySettlementIndices  |-> OrderSettlementIndices(statement.party0_indices),
     secondPartySettlementIndices |-> OrderSettlementIndices(statement.party1_indices),
     protocolFeeRate              |-> scalar_to_u256(statement.protocol_fee)]

ValidMatchSettleAtomicStatement(statement) ==
    [matchResult |->
        [quoteMint   |-> biguint_to_address(statement.match_result.quote_mint),
         baseMint    |-> biguint_to_address(statement.match_result.base_mint),
         quoteAmount |-> statement.match_result.quote_amount,
         baseAmount  |-> statement.match_result.base_amount,
         direction   |-> statement.match_result.direction],
     externalPartyFees |->
        [relayerFee  |-> statement.external_party_fees.relayer_fee,
         protocolFee |-> statement.external_party_fees.protocol_fee],
     internalPartyModifiedShares    |-> U256s(statement.internal_party_modified_shares),
     internalPartySettlementIndices |-> OrderSettlementIndices(statement.internal_party_indices),
     protocolFeeRate                |-> scalar_to_u256(statement.protocol_fee),
     relayerFeeAddress              |-> biguint_to_address(statement.relayer_fee_address)]

-----------------------------------------------------------------------------
(* Proofs.                                                                  *)
PlonkProof(proof) ==
    [wireComms     |-> G1Points(proof.wires_poly_comms, NumWires),
     zComm         |-> convert_jf_commitment(proof.prod_perm_poly_comm),
     quotientComms |-> G1Points(proof.split_quot_poly_comms, NumWires),
     wZeta         |-> convert_jf_commitment(proof.opening_proof),
     wZetaOmega    |-> convert_jf_commitment(proof.shifted_opening_proof),
     wireEvals     |-> size_vec(U256s(proof.wires_evals), NumWires),
     sigmaEvals    |-> size_vec(U256s(proof.wire_sigma_evals), NumWires - 1),
     zBar          |-> fr_to_u256(proof.perm_next_eval)]

LinkingProof(proof) ==
    [linkingQuotientPolyComm |-> convert_jf_commitment(proof.quotient_commitment),
     linkingPolyOpening      |-> convert_g1_point(proof.opening_proof)]
=============================================================================
