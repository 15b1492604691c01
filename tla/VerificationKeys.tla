-------------------------- MODULE VerificationKeys --------------------------
(***************************************************************************)
(* From the circuits to the keys that the verifier uses: the generator      *)
(* (codegen/vkeys) writes a library of constants, one for each circuit and  *)
(* for each way in which two proofs are linked; the contract VKeys hands    *)
(* the verifier those that belong to an operation.  A circuit, or a layout  *)
(* of linked inputs, is a number, and its key is that number.               *)
(***************************************************************************)
EXTENDS Naturals, Sequences, Functions

(* The circuits of the proof system, and its layouts of linked inputs.      *)
SizedValidWalletCreate == 1
SizedValidWalletUpdate == 2
SizedValidReblind      == 3
SizedValidCommitments  == 4
SizedValidMatchSettle  == 5
SizedValidMatchSettleWithCommitments       == 6
SizedValidMatchSettleAtomic                == 7
SizedValidMatchSettleAtomicWithCommitments == 8
SizedValidMalleableMatchSettleAtomic       == 9
SizedValidOfflineFeeSettlement             == 10
SizedValidFeeRedemption                    == 11

reblind_commitments_group_layout == 20
commitments_match_settle_group_layout(party) == 21 + party

-----------------------------------------------------------------------------
(* What a constant is generated from: its name, and the key under it.       *)
Key(name, vkey) == [name |-> name, vkey |-> vkey]

Circuits ==
    <<Key("VALID_WALLET_CREATE", SizedValidWalletCreate),
      Key("VALID_WALLET_UPDATE", SizedValidWalletUpdate),
      Key("VALID_REBLIND", SizedValidReblind),
      Key("VALID_COMMITMENTS", SizedValidCommitments),
      Key("VALID_MATCH_SETTLE", SizedValidMatchSettle),
      Key("VALID_MATCH_SETTLE_WITH_COMMITMENTS", SizedValidMatchSettleWithCommitments),
      Key("VALID_MATCH_SETTLE_ATOMIC", SizedValidMatchSettleAtomic),
      Key("VALID_MATCH_SETTLE_ATOMIC_WITH_COMMITMENTS",
          SizedValidMatchSettleAtomicWithCommitments),
      Key("VALID_MALLEABLE_MATCH_SETTLE_ATOMIC", SizedValidMalleableMatchSettleAtomic),
      Key("VALID_OFFLINE_FEE_SETTLEMENT", SizedValidOfflineFeeSettlement),
      Key("VALID_FEE_REDEMPTION", SizedValidFeeRedemption)>>

(* A slip: the link of every party is made for the first one.               *)
LinkingInstancesFirstParty ==
    <<Key("VALID_REBLIND_COMMITMENTS_LINK", reblind_commitments_group_layout),
      Key("VALID_COMMITMENTS_MATCH_SETTLE_LINK0", commitments_match_settle_group_layout(0)),
      Key("VALID_COMMITMENTS_MATCH_SETTLE_LINK1", commitments_match_settle_group_layout(0))>>

LinkingInstances ==
    <<Key("VALID_REBLIND_COMMITMENTS_LINK", reblind_commitments_group_layout),
      Key("VALID_COMMITMENTS_MATCH_SETTLE_LINK0", commitments_match_settle_group_layout(0)),
      Key("VALID_COMMITMENTS_MATCH_SETTLE_LINK1", commitments_match_settle_group_layout(1))>>

(* The library: the name of a constant gives its value.                     *)
Contract ==
    LET constants == Range(Circuits \o LinkingInstances)
    IN  [n \in {c.name : c \in constants} |->
            (CHOOSE c \in constants : c.name = n).vkey]

-----------------------------------------------------------------------------
walletCreateKeys == Contract["VALID_WALLET_CREATE"]
walletUpdateKeys == Contract["VALID_WALLET_UPDATE"]

MatchKeys(settle, links) ==
    [commitmentsVk |-> Contract["VALID_COMMITMENTS"],
     reblindVk     |-> Contract["VALID_REBLIND"],
     settleVk      |-> Contract[settle],
     reblindCommitmentsVk    |-> Contract["VALID_REBLIND_COMMITMENTS_LINK"],
     commitmentsMatchSettleVk |-> [i \in DOMAIN links |-> Contract[links[i]]]]

matchBundleKeys ==
    MatchKeys("VALID_MATCH_SETTLE", <<"VALID_COMMITMENTS_MATCH_SETTLE_LINK0",
                                      "VALID_COMMITMENTS_MATCH_SETTLE_LINK1">>)

atomicMatchBundleKeys ==
    MatchKeys("VALID_MATCH_SETTLE_ATOMIC", <<"VALID_COMMITMENTS_MATCH_SETTLE_LINK0">>)
=============================================================================
