------------------------------ MODULE LeafLog ------------------------------
(***************************************************************************)
(* What the contract's Merkle tree promises, with no hashing: an append-    *)
(* only sequence of leaves, and every sequence it has ever been is known.   *)
(* This is the tree as module Darkpool sees it.  A transaction inserts one  *)
(* leaf or more.                                                            *)
(***************************************************************************)
EXTENDS Integers, Sequences

CONSTANTS Leaf, Capacity

VARIABLES leaves, roots

vars == <<leaves, roots>>

Init == leaves = <<>> /\ roots = {<<>>}

Extends(longer, s) ==
    Len(longer) > Len(s) /\ SubSeq(longer, 1, Len(s)) = s

Next ==
    /\ Extends(leaves', leaves)
    /\ leaves' \in Seq(Leaf) /\ Len(leaves') <= Capacity
    /\ roots' = roots \cup {SubSeq(leaves', 1, k) : k \in Len(leaves)..Len(leaves')}

Spec == Init /\ [][Next]_vars
=============================================================================
