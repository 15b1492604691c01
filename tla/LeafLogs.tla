------------------------------ MODULE LeafLogs ------------------------------
(***************************************************************************)
(* What the mountain range promises: a log of leaves per depth that starts  *)
(* anew when it is full, and every log that ever held a leaf stays known,   *)
(* with those, of any depth, that it cannot be told from.                   *)
(***************************************************************************)
EXTENDS Integers, Sequences

CONSTANTS Leaf, Depths,
          Alike(_, _)   \* are two [depth, leaves] one and the same to who looks?

VARIABLES log,      \* the active log of each depth
          known     \* the [depth, leaves] that can be proved against

vars == <<log, known>>

AllLogs ==
    UNION { [depth : {d}, leaves : UNION {[1..n -> Leaf] : n \in 0..2 ^ d}] : d \in Depths }

Init == log = [d \in Depths |-> <<>>] /\ known = {}

Insert(d, x) ==
    /\ log' = [log EXCEPT ![d] = IF Len(@) = 2 ^ d THEN <<x>> ELSE Append(@, x)]
    /\ known' = known \cup {l \in AllLogs : Alike(l, [depth |-> d, leaves |-> log'[d]])}

Next == \E d \in Depths, x \in Leaf : Insert(d, x)

Spec == Init /\ [][Next]_vars
=============================================================================
