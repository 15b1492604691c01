-------------------------- MODULE MCPoseidonHasher --------------------------
(***************************************************************************)
(* The hasher over the field of seven elements, in which, as in the real    *)
(* one, the fifth power is a permutation, with constants that differ        *)
(* between rounds and between elements.                                     *)
(***************************************************************************)
EXTENDS PoseidonHasher

FullConstants    == [i \in 1..R_F |-> <<i % 7, (2 * i + 3) % 7, (i * i + 5) % 7>>]
PartialConstants == [i \in 1..R_P |-> (3 * i + 2) % 7]
=============================================================================
