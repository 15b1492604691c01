--------------------------- MODULE MerkleTreeLib ---------------------------
(***************************************************************************)
(* The incremental Merkle tree of src/libraries/merkle/MerkleTree.sol, as   *)
(* operators on a tree value, for the contract that keeps one tree and for  *)
(* the mountain range that keeps several.                                   *)
(***************************************************************************)
EXTENDS Integers, Sequences

CONSTANTS Leaf,             \* commitments
          ZERO_VALUE,       \* the leaf of an empty tree
          MERKLE_DEPTH,     \* the depth that MAX_MERKLE_LEAVES is of
          Hash(_, _)        \* the Poseidon2 hash of two nodes, free of collisions

ASSUME MerkleAssumption == MERKLE_DEPTH \in Nat /\ ZERO_VALUE \notin Leaf

(* A hash for instances: the hash of two nodes is the pair of them.         *)
HashPair(l, r) == <<l, r>>

MAX_MERKLE_LEAVES == 2 ^ MERKLE_DEPTH

(* The roots of empty trees of each height.                                 *)
zero_values[h \in 0..MERKLE_DEPTH] ==
    IF h = 0 THEN ZERO_VALUE ELSE Hash(zero_values[h-1], zero_values[h-1])

(* The generated library: a constant per height, that of the root apart.    *)
MerkleZeros ==
    [ZERO_VALUE      |-> [i \in 0..MERKLE_DEPTH-1 |-> zero_values[i]],
     ZERO_VALUE_ROOT |-> zero_values[MERKLE_DEPTH]]

zeroValue(height) ==
    IF height = MERKLE_DEPTH THEN MerkleZeros.ZERO_VALUE_ROOT
    ELSE MerkleZeros.ZERO_VALUE[height]

isRightChild(idx, height) == (idx \div 2 ^ height) % 2 = 1

\* A slip: the siblings are always hashed on the right.
merkleHashUnordered(idx, leaf, sisters, depth) ==
    LET hash[h \in 0..depth] ==
            IF h = 0 THEN leaf ELSE Hash(hash[h-1], sisters[h-1])
    IN  hash

(* The hasher: the nodes from a leaf up to the root, given their siblings.  *)
merkleHash(idx, leaf, sisters, depth) ==
    LET hash[h \in 0..depth] ==
            IF h = 0 THEN leaf
            ELSE IF isRightChild(idx, h-1) THEN Hash(sisters[h-1], hash[h-1])
            ELSE Hash(hash[h-1], sisters[h-1])
    IN  hash

(* A contract's storage before initialize: everything is zero.              *)
Uninitialized ==
    [depth |-> 0, nextIndex |-> 0, root |-> 0, siblingPath |-> <<>>,
     storeRoots |-> FALSE, rootHistory |-> {}]

isInitialized(tree) == tree.depth # 0

\* A slip: the tree is called full one leaf late.
isFullLate(tree) == tree.nextIndex = 2 ^ tree.depth + 1

\* A slip: the tree is called full one leaf early.
isFullEarly(tree) == tree.nextIndex = 2 ^ tree.depth - 1

isFull(tree) == tree.nextIndex = 2 ^ tree.depth

(* initialize: what rootHistory already maps to true stays.                 *)
initialize(tree, depth, storeRoots) ==
    [depth |-> depth, nextIndex |-> 0, root |-> zeroValue(depth),
     siblingPath |-> [h \in 0..depth-1 |-> zeroValue(h)],
     storeRoots |-> storeRoots,
     rootHistory |-> IF storeRoots THEN tree.rootHistory \cup {zeroValue(depth)}
                     ELSE tree.rootHistory]

CanInsert(tree) == tree.nextIndex <= MAX_MERKLE_LEAVES - 1

\* A slip: a path entry switches although the subtree below it is not full.
NextPathEager(path, idx, hashes, depth) ==
    [h \in 0..depth-1 |-> IF isRightChild(idx, h) THEN zeroValue(h) ELSE hashes[h]]

(* The path of siblings for the leaf after idx.  An entry switches when idx *)
(* fills the subtree below it: to the subtree's root when it is a left one, *)
(* else to the root of an empty one.                                        *)
NextPath(path, idx, hashes, depth) ==
    [h \in 0..depth-1 |->
        IF \E k \in 0..h-1 : ~isRightChild(idx, k) THEN path[h]
        ELSE IF isRightChild(idx, h) THEN zeroValue(h)
        ELSE hashes[h]]

insertLeaf(tree, leaf) ==
    LET idx    == tree.nextIndex
        hashes == merkleHash(idx, leaf, tree.siblingPath, tree.depth)
        root   == hashes[tree.depth]
    IN  [tree EXCEPT !.nextIndex = @ + 1,
                     !.root = root,
                     !.siblingPath = NextPath(@, idx, hashes, tree.depth),
                     !.rootHistory = IF tree.storeRoots THEN @ \cup {root} ELSE @]

(* The events of an insertion: the siblings from the leaf up, and the leaf. *)
insertionLogs(tree, leaf) ==
    [k \in 1..tree.depth + 1 |->
        IF k = tree.depth + 1
        THEN [event |-> "MerkleInsertion", index |-> tree.nextIndex, value |-> leaf]
        ELSE LET idxAtHeight == tree.nextIndex \div 2 ^ (k - 1)
             IN  [event     |-> "MerkleOpeningNode",
                  depth     |-> MERKLE_DEPTH - (k - 1),
                  index     |-> IF isRightChild(tree.nextIndex, k - 1) THEN idxAtHeight - 1
                                ELSE idxAtHeight + 1,
                  new_value |-> tree.siblingPath[k - 1]]]

-----------------------------------------------------------------------------
(* The reference: the complete tree over a sequence of leaves, level by     *)
(* level from the leaves up, with the empty places filled up.               *)
Nodes(leaves, depth) ==
    LET level[h \in 0..depth] ==
            IF h = 0
            THEN [i \in 0..2 ^ depth - 1 |->
                    IF i < Len(leaves) THEN leaves[i + 1] ELSE ZERO_VALUE]
            ELSE [i \in 0..2 ^ (depth - h) - 1 |->
                    Hash(level[h-1][2*i], level[h-1][2*i + 1])]
    IN  level

Root(leaves, depth) == Nodes(leaves, depth)[depth][0]

(* All sequences of leaves that a tree of some depth may hold.              *)
Contents(depth) == UNION {[1..n -> Leaf] : n \in 0..2 ^ depth}

(* The sequence that a root commits to.                                     *)
Opened(root, depth) == CHOOSE s \in Contents(depth) : Root(s, depth) = root
=============================================================================
