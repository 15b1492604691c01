-------------------------- MODULE MCMerkleMountain --------------------------
(* A small instance of MerkleMountain, with a leaf that is the root of a    *)
(* tree of the other.                                                       *)
EXTENDS MerkleMountain

CONSTANT a

MCLeaf == {a, HashPair(a, a)}
=============================================================================
