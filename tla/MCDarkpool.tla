----------------------------- MODULE MCDarkpool -----------------------------
(* Small instances of Darkpool.                                             *)
EXTENDS Darkpool

CONSTANTS k1

\* A wallet that no handler ever made, rich in every mint.
MCForged ==
    {[key |-> k1, blinder |-> 1, bal |-> [t \in Tokens |-> 2],
      relayerFee |-> [t \in Tokens |-> 0], protocolFee |-> [t \in Tokens |-> 0]]}
=============================================================================
