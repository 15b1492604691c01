--------------------------- MODULE MerkleMountain ---------------------------
(***************************************************************************)
(* The Merkle mountain range of the v2 contract: one active tree per depth, *)
(* replaced in place when it is full, and one mapping of all their roots.   *)
(***************************************************************************)
EXTENDS MerkleTreeLib

CONSTANTS Depths,           \* the depths that callers ask for
          MaxInsertions     \* bound: leaves inserted

ASSUME MountainAssumption == Depths \subseteq 0..MERKLE_DEPTH

VARIABLES activeSubTrees, historicalRoots,
          insertions        \* leaves inserted, for the bound

vars == <<activeSubTrees, historicalRoots, insertions>>

Init ==
    /\ activeSubTrees = [d \in Depths |-> Uninitialized]
    /\ historicalRoots = {}
    /\ insertions = 0

(* The tree that the next leaf goes to.                                     *)
ActiveTree(d) ==
    IF ~isInitialized(activeSubTrees[d]) \/ isFull(activeSubTrees[d])
    THEN initialize(activeSubTrees[d], d, FALSE)
    ELSE activeSubTrees[d]

Insert(d, leaf) ==
    /\ CanInsert(ActiveTree(d))
    /\ activeSubTrees' = [activeSubTrees EXCEPT ![d] = insertLeaf(ActiveTree(d), leaf)]
    /\ historicalRoots' = historicalRoots \cup {activeSubTrees'[d].root}
    /\ insertions' = insertions + 1

Next == \E d \in Depths, leaf \in Leaf : insertions < MaxInsertions /\ Insert(d, leaf)

Spec == Init /\ [][Next]_vars

-----------------------------------------------------------------------------
(* No active tree holds more leaves than its depth has places, although the *)
(* check on insertion knows only the largest depth: the tree is replaced in *)
(* time.  With one leaf more the path would start over and the new root     *)
(* would no longer commit to the first leaves.                              *)
NeverOverfull == \A d \in Depths : activeSubTrees[d].nextIndex <= 2 ^ d

(* Roots are kept without their depth, and a leaf may itself be a hash of   *)
(* two: the root of a tree is also that of the lower one over its subtrees. *)
OverSubtrees(x, y) ==
    /\ x.depth <= y.depth
    /\ \A i \in 0..2 ^ x.depth - 1 :
          Nodes(x.leaves, x.depth)[0][i] = Nodes(y.leaves, y.depth)[y.depth - x.depth][i]

Alike(x, y) == OverSubtrees(x, y) \/ OverSubtrees(y, x)

(* The range is a log per depth: the active root commits to the leaves      *)
(* since the last replacement, and a replaced tree stays provable.  A root  *)
(* passes for that of another depth, or of an empty tree, only where the    *)
(* leaves of the one are the roots of the subtrees of the other.            *)
Logs == INSTANCE LeafLogs WITH
          log   <- [d \in Depths |->
                      IF activeSubTrees[d].nextIndex = 0 THEN <<>>
                      ELSE Opened(activeSubTrees[d].root, d)],
          known <- UNION { {[depth |-> d, leaves |-> s] :
                              s \in {c \in Contents(d) : Root(c, d) \in historicalRoots}} :
                           d \in Depths }

ImplementsLogs == Logs!Spec
=============================================================================
