------------------------ MODULE MCIntegrationClient -------------------------
(***************************************************************************)
(* A client with words of three bytes to the base 1024, and a pairing of    *)
(* numbers as the hash, which has no collisions and stays below the modulus *)
(* for leaves up to 12 and trees of depth 3.                                *)
(***************************************************************************)
EXTENDS IntegrationClient

Pairing == [l \in Nat, r \in Nat |-> 1 + (IF l < r THEN r * r + l ELSE l * l + l + r)]

HashNumber(l, r) == Pairing[l, r]
=============================================================================
