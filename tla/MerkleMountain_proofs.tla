------------------------ MODULE MerkleMountain_proofs ------------------------
(***************************************************************************)
(* Proofs about MerkleMountain, for every set of depths: an active tree is  *)
(* the tree of a log of leaves, and the range implements LeafLogs.          *)
(***************************************************************************)
EXTENDS MerkleMountain, RunningTotals_proofs

-----------------------------------------------------------------------------
(* Places.  At height h, the leaf n lies below the node n \div 2 ^ h.       *)
At(n, h) == n \div 2 ^ h

LEMMA PlacesHalve ==
    ASSUME NEW n \in Nat, NEW h \in Nat
    PROVE  /\ At(n, 0) = n /\ At(n, h) \in Nat
           /\ At(n, h + 1) = At(n, h) \div 2
           /\ isRightChild(n, h) <=> At(n, h) % 2 = 1
<1>1. 2 ^ 0 = 1
  BY SMT
<1>2. n \div 2 ^ 0 = n
  BY <1>1
<1> QED BY <1>2, Halves DEF At, isRightChild

LEMMA PlacesInRange ==
    ASSUME NEW d \in Nat, NEW n \in 0..(2 ^ d - 1)
    PROVE  \A h \in 0..d : At(n, h) \in 0..(2 ^ (d - h) - 1)
<1> DEFINE S == {h \in 0..d : At(n, h) \in 0..(2 ^ (d - h) - 1)}
<1>1. n \in Nat /\ 2 ^ d \in Nat
  BY PowerOfTwo
<1>2. 0 \in S
  <2>1. d - 0 = d
    OBVIOUS
  <2> QED BY <1>1, <2>1, PlacesHalve
<1>3. ASSUME NEW h \in 0..d-1, h \in S PROVE h + 1 \in S
  <2>1. d - (h + 1) \in Nat /\ (d - (h + 1)) + 1 = d - h
    OBVIOUS
  <2>2. 2 ^ (d - h) = 2 * 2 ^ (d - (h + 1)) /\ 2 ^ (d - (h + 1)) \in Nat
    BY <2>1, PowerDoubles, PowerOfTwo
  <2>3. At(n, h) \in Nat /\ At(n, h + 1) = At(n, h) \div 2
    BY <1>1, PlacesHalve
  <2>4. At(n, h) \in 0..(2 ^ (d - h) - 1)
    BY <1>3
  <2>5. ASSUME NEW a \in Nat, NEW b \in Nat, NEW c \in Nat, a \in 0..(c - 1), c = 2 * b
        PROVE  a \div 2 \in 0..(b - 1)
    BY <2>5
  <2>6. At(n, h) \div 2 \in 0..(2 ^ (d - (h + 1)) - 1)
    BY <2>2, <2>3, <2>4, <2>5
  <2> QED BY <2>3, <2>6
<1> HIDE DEF S
<1>4. \A h \in 0..d : h \in S
  BY <1>2, <1>3, UpTo
<1> QED BY <1>4 DEF S

(* The next leaf has the same place above a subtree that is not full yet.   *)
NextAt(n, h) == IF \E k \in 0..h-1 : ~isRightChild(n, k) THEN At(n, h) ELSE At(n, h) + 1

LEMMA PlacesOfNext ==
    ASSUME NEW d \in Nat, NEW n \in Nat
    PROVE  \A h \in 0..d : At(n + 1, h) = NextAt(n, h)
<1> DEFINE S == {h \in 0..d : At(n + 1, h) = NextAt(n, h)}
<1>1. 0 \in S
  <2>1. At(n, 0) = n /\ At(n + 1, 0) = n + 1
    BY PlacesHalve
  <2>2. ~\E k \in 0..0-1 : ~isRightChild(n, k)
    OBVIOUS
  <2> QED BY <2>1, <2>2 DEF NextAt
<1>2. ASSUME NEW h \in 0..d-1, h \in S PROVE h + 1 \in S
  <2>1. /\ At(n, h) \in Nat /\ At(n, h + 1) = At(n, h) \div 2
        /\ At(n + 1, h + 1) = At(n + 1, h) \div 2
        /\ isRightChild(n, h) <=> At(n, h) % 2 = 1
    BY PlacesHalve
  <2>2. CASE \E k \in 0..h-1 : ~isRightChild(n, k)
    <3>1. \E k \in 0..(h+1)-1 : ~isRightChild(n, k)
      BY <2>2
    <3>2. At(n + 1, h) = At(n, h)
      BY <1>2, <2>2 DEF NextAt
    <3> QED BY <2>1, <3>1, <3>2 DEF NextAt
  <2>3. CASE ~\E k \in 0..h-1 : ~isRightChild(n, k)
    <3>1. At(n + 1, h) = At(n, h) + 1
      BY <1>2, <2>3 DEF NextAt
    <3>2. (\E k \in 0..(h+1)-1 : ~isRightChild(n, k)) <=> ~isRightChild(n, h)
      <4>1. 0..(h+1)-1 = (0..h-1) \cup {h}
        OBVIOUS
      <4> QED BY <2>3, <4>1
    <3>3. ASSUME NEW a \in Nat
          PROVE  (a + 1) \div 2 = IF a % 2 = 1 THEN (a \div 2) + 1 ELSE a \div 2
      OBVIOUS
    <3> QED BY <2>1, <3>1, <3>2, <3>3 DEF NextAt
  <2> QED BY <2>2, <2>3
<1> HIDE DEF S
<1>3. \A h \in 0..d : h \in S
  BY <1>1, <1>2, UpTo
<1> QED BY <1>3 DEF S

-----------------------------------------------------------------------------
(* The recursive functions satisfy their equations: a function that does    *)
(* exists up to every height.                                               *)
AreZeros(zero, d) ==
    zero = [h \in 0..d |-> IF h = 0 THEN ZERO_VALUE ELSE Hash(zero[h-1], zero[h-1])]

LEMMA ZerosExist == ASSUME NEW d \in Nat PROVE \E zero : AreZeros(zero, d)
<1> DEFINE S == {h \in 0..d : \E zero : AreZeros(zero, h)}
<1>1. 0 \in S
  <2>1. AreZeros([h \in 0..0 |-> ZERO_VALUE], 0)
    BY DEF AreZeros
  <2> QED BY <2>1
<1>2. ASSUME NEW h \in 0..d-1, h \in S PROVE h + 1 \in S
  <2>1. PICK zero : AreZeros(zero, h)
    BY <1>2
  <2>2. AreZeros([k \in 0..h+1 |-> IF k = h + 1 THEN Hash(zero[h], zero[h]) ELSE zero[k]], h + 1)
    BY <2>1 DEF AreZeros
  <2> QED BY <2>2
<1> HIDE DEF S
<1>3. \A h \in 0..d : h \in S
  BY <1>1, <1>2, UpTo
<1> QED BY <1>3 DEF S

LEMMA ZeroValues ==
    /\ zero_values[0] = ZERO_VALUE
    /\ \A h \in 0..MERKLE_DEPTH-1 :
         zero_values[h + 1] = Hash(zero_values[h], zero_values[h])
<1>1. MERKLE_DEPTH \in Nat
  BY MerkleAssumption
<1>2. PICK zero : AreZeros(zero, MERKLE_DEPTH)
  BY <1>1, ZerosExist
<1>3. AreZeros(zero_values, MERKLE_DEPTH)
  BY <1>2 DEF zero_values, AreZeros
<1>4. \A h \in 0..MERKLE_DEPTH :
        zero_values[h] = IF h = 0 THEN ZERO_VALUE ELSE Hash(zero_values[h-1], zero_values[h-1])
  BY <1>3 DEF AreZeros
<1> QED BY <1>1, <1>4

LEMMA ZeroValueIs == ASSUME NEW h \in 0..MERKLE_DEPTH PROVE zeroValue(h) = zero_values[h]
BY MerkleAssumption DEF zeroValue, MerkleZeros

AreLevels(level, leaves, depth, d) ==
    level = [h \in 0..d |->
               IF h = 0
               THEN [i \in 0..2 ^ depth - 1 |->
                       IF i < Len(leaves) THEN leaves[i + 1] ELSE ZERO_VALUE]
               ELSE [i \in 0..2 ^ (depth - h) - 1 |->
                       Hash(level[h-1][2*i], level[h-1][2*i + 1])]]

LEMMA LevelsExist ==
    ASSUME NEW depth \in Nat, NEW leaves
    PROVE  \E level : AreLevels(level, leaves, depth, depth)
<1> DEFINE S == {h \in 0..depth : \E level : AreLevels(level, leaves, depth, h)}
           bottom == [i \in 0..2 ^ depth - 1 |->
                        IF i < Len(leaves) THEN leaves[i + 1] ELSE ZERO_VALUE]
<1>1. 0 \in S
  <2>1. AreLevels([h \in 0..0 |-> bottom], leaves, depth, 0)
    BY DEF AreLevels
  <2> QED BY <2>1
<1>2. ASSUME NEW h \in 0..depth-1, h \in S PROVE h + 1 \in S
  <2>1. PICK level : AreLevels(level, leaves, depth, h)
    BY <1>2
  <2> DEFINE next == [i \in 0..2 ^ (depth - (h + 1)) - 1 |->
                        Hash(level[h][2*i], level[h][2*i + 1])]
             more == [k \in 0..h+1 |-> IF k = h + 1 THEN next ELSE level[k]]
  <2>2. more[h] = level[h] /\ \A k \in 1..h : more[k - 1] = level[k - 1]
    OBVIOUS
  <2>3. ASSUME NEW k \in 0..h+1
        PROVE  more[k] = IF k = 0 THEN bottom
                         ELSE [i \in 0..2 ^ (depth - k) - 1 |->
                                 Hash(more[k-1][2*i], more[k-1][2*i + 1])]
    <3>1. CASE k = h + 1
      <4>1. k - 1 = h /\ k # 0 /\ more[k] = next
        BY <3>1
      <4> QED BY <2>2, <3>1, <4>1
    <3>2. CASE k # h + 1
      <4>1. k \in 0..h /\ more[k] = level[k]
        BY <3>2
      <4>2. k # 0 => more[k - 1] = level[k - 1]
        BY <2>2, <4>1
      <4> HIDE DEF more, next
      <4>3. level[k] = IF k = 0 THEN bottom
                       ELSE [i \in 0..2 ^ (depth - k) - 1 |->
                               Hash(level[k-1][2*i], level[k-1][2*i + 1])]
        BY <2>1, <4>1 DEF AreLevels
      <4> QED BY <4>1, <4>2, <4>3
    <3> QED BY <3>1, <3>2
  <2>4. DOMAIN more = 0..h+1 /\ more = [k \in 0..h+1 |-> more[k]]
    OBVIOUS
  <2> HIDE DEF more, next, bottom
  <2>5. AreLevels(more, leaves, depth, h + 1)
    BY <2>3, <2>4 DEF AreLevels, bottom
  <2> QED BY <2>5
<1> HIDE DEF S
<1>3. \A h \in 0..depth : h \in S
  BY <1>1, <1>2, UpTo
<1> QED BY <1>3 DEF S

(* The nodes, level by level.                                               *)
LEMMA NodesAre ==
    ASSUME NEW depth \in Nat, NEW leaves
    PROVE  LET node == Nodes(leaves, depth) IN
           /\ \A i \in 0..2 ^ depth - 1 :
                node[0][i] = IF i < Len(leaves) THEN leaves[i + 1] ELSE ZERO_VALUE
           /\ \A h \in 0..depth-1 : \A i \in 0..2 ^ (depth - (h + 1)) - 1 :
                node[h + 1][i] = Hash(node[h][2*i], node[h][2*i + 1])
<1> DEFINE node == Nodes(leaves, depth)
<1>1. PICK level : AreLevels(level, leaves, depth, depth)
  BY LevelsExist
<1>2. AreLevels(node, leaves, depth, depth)
  BY <1>1 DEF Nodes, AreLevels
<1> HIDE DEF node
<1>3. \A i \in 0..2 ^ depth - 1 :
        node[0][i] = IF i < Len(leaves) THEN leaves[i + 1] ELSE ZERO_VALUE
  BY <1>2 DEF AreLevels
<1>4. ASSUME NEW h \in 0..depth-1
      PROVE  node[h + 1] = [i \in 0..2 ^ (depth - (h + 1)) - 1 |->
                              Hash(node[h][2*i], node[h][2*i + 1])]
  <2>1. h + 1 \in 0..depth /\ h + 1 # 0 /\ (h + 1) - 1 = h
    OBVIOUS
  <2> QED BY <1>2, <2>1 DEF AreLevels
<1> QED BY <1>3, <1>4 DEF node

AreHashes(hash, idx, leaf, sisters, d) ==
    hash = [h \in 0..d |->
              IF h = 0 THEN leaf
              ELSE IF isRightChild(idx, h-1) THEN Hash(sisters[h-1], hash[h-1])
              ELSE Hash(hash[h-1], sisters[h-1])]

LEMMA HashesExist ==
    ASSUME NEW d \in Nat, NEW idx, NEW leaf, NEW sisters
    PROVE  \E hash : AreHashes(hash, idx, leaf, sisters, d)
<1> DEFINE S == {h \in 0..d : \E hash : AreHashes(hash, idx, leaf, sisters, h)}
<1>1. 0 \in S
  <2>1. AreHashes([h \in 0..0 |-> leaf], idx, leaf, sisters, 0)
    BY DEF AreHashes
  <2> QED BY <2>1
<1>2. ASSUME NEW h \in 0..d-1, h \in S PROVE h + 1 \in S
  <2>1. PICK hash : AreHashes(hash, idx, leaf, sisters, h)
    BY <1>2
  <2> DEFINE top == IF isRightChild(idx, h) THEN Hash(sisters[h], hash[h])
                    ELSE Hash(hash[h], sisters[h])
  <2>2. AreHashes([k \in 0..h+1 |-> IF k = h + 1 THEN top ELSE hash[k]],
                  idx, leaf, sisters, h + 1)
    BY <2>1 DEF AreHashes
  <2> QED BY <2>2
<1> HIDE DEF S
<1>3. \A h \in 0..d : h \in S
  BY <1>1, <1>2, UpTo
<1> QED BY <1>3 DEF S

LEMMA HashesAre ==
    ASSUME NEW d \in Nat, NEW idx, NEW leaf, NEW sisters
    PROVE  LET hash == merkleHash(idx, leaf, sisters, d) IN
           /\ hash[0] = leaf
           /\ \A h \in 0..d-1 :
                hash[h + 1] = IF isRightChild(idx, h) THEN Hash(sisters[h], hash[h])
                              ELSE Hash(hash[h], sisters[h])
<1> DEFINE hash == merkleHash(idx, leaf, sisters, d)
<1>1. PICK f : AreHashes(f, idx, leaf, sisters, d)
  BY HashesExist
<1>2. AreHashes(hash, idx, leaf, sisters, d)
  BY <1>1 DEF merkleHash, AreHashes
<1> HIDE DEF hash
<1>3. ASSUME NEW h \in 0..d-1
      PROVE  hash[h + 1] = IF isRightChild(idx, h) THEN Hash(sisters[h], hash[h])
                           ELSE Hash(hash[h], sisters[h])
  <2>1. h + 1 \in 0..d /\ h + 1 # 0 /\ (h + 1) - 1 = h
    OBVIOUS
  <2> QED BY <1>2, <2>1 DEF AreHashes
<1>4. hash[0] = leaf
  BY <1>2 DEF AreHashes
<1> QED BY <1>3, <1>4 DEF hash

-----------------------------------------------------------------------------
(* The tree, before and after a leaf is appended.                           *)
Sibling(n, h) == IF isRightChild(n, h) THEN At(n, h) - 1 ELSE At(n, h) + 1

LEMMA Children ==
    ASSUME NEW d \in Nat, NEW h \in 0..d-1, NEW i \in 0..2 ^ (d - (h + 1)) - 1
    PROVE  2*i \in 0..2 ^ (d - h) - 1 /\ 2*i + 1 \in 0..2 ^ (d - h) - 1
<1>1. d - (h + 1) \in Nat /\ (d - (h + 1)) + 1 = d - h
  OBVIOUS
<1>2. 2 ^ (d - h) = 2 * 2 ^ (d - (h + 1)) /\ 2 ^ (d - (h + 1)) \in Nat
  BY <1>1, PowerDoubles, PowerOfTwo
<1>3. ASSUME NEW b \in Nat, NEW c \in Nat, c = 2 * b, NEW j \in 0..b - 1
      PROVE  2*j \in 0..c - 1 /\ 2*j + 1 \in 0..c - 1
  BY <1>3
<1>4. 2 ^ (d - h) \in Nat
  BY PowerOfTwo
<1> QED BY <1>2, <1>3, <1>4

(* Beyond the last leaf, the nodes are those of an empty tree.              *)
LEMMA EmptyNodes ==
    ASSUME NEW d \in 0..MERKLE_DEPTH, NEW leaves, Len(leaves) \in Nat
    PROVE  \A h \in 0..d : \A i \in 0..2 ^ (d - h) - 1 :
             Len(leaves) = 0 \/ i > At(Len(leaves) - 1, h)
               => Nodes(leaves, d)[h][i] = zeroValue(h)
<1> DEFINE node     == Nodes(leaves, d)
           Empty(h) == \A i \in 0..2 ^ (d - h) - 1 :
                         Len(leaves) = 0 \/ i > At(Len(leaves) - 1, h)
                           => node[h][i] = zero_values[h]
           S        == {h \in 0..d : Empty(h)}
<1>1. d \in Nat /\ MERKLE_DEPTH \in Nat
  BY MerkleAssumption
<1>2. 0 \in S
  <2>1. ASSUME NEW i \in 0..2 ^ (d - 0) - 1,
               Len(leaves) = 0 \/ i > At(Len(leaves) - 1, 0)
        PROVE  node[0][i] = zero_values[0]
    <3>1. i \in 0..2 ^ d - 1 /\ i \in Nat
      <4>1. d - 0 = d
        BY <1>1
      <4> QED BY <1>1, <4>1, PowerOfTwo
    <3>2. ~(i < Len(leaves))
      <4>1. CASE Len(leaves) = 0
        BY <3>1, <4>1
      <4>2. CASE Len(leaves) # 0
        <5>1. At(Len(leaves) - 1, 0) = Len(leaves) - 1
          <6>1. Len(leaves) - 1 \in Nat
            BY <4>2
          <6> QED BY <6>1, PlacesHalve
        <5> QED BY <2>1, <3>1, <4>2, <5>1
      <4> QED BY <4>1, <4>2
    <3> QED BY <1>1, <3>1, <3>2, NodesAre, ZeroValues
  <2> HIDE DEF node
  <2>2. Empty(0)
    BY <2>1
  <2> QED BY <1>1, <2>2
<1>3. ASSUME NEW h \in 0..d-1, h \in S PROVE h + 1 \in S
  <2>1. ASSUME NEW i \in 0..2 ^ (d - (h + 1)) - 1,
               Len(leaves) = 0 \/ i > At(Len(leaves) - 1, h + 1)
        PROVE  node[h + 1][i] = zero_values[h + 1]
    <3>1. 2*i \in 0..2 ^ (d - h) - 1 /\ 2*i + 1 \in 0..2 ^ (d - h) - 1
      BY <1>1, Children
    <3>2. ASSUME Len(leaves) # 0
          PROVE  2*i > At(Len(leaves) - 1, h) /\ 2*i + 1 > At(Len(leaves) - 1, h)
      <4> DEFINE a == At(Len(leaves) - 1, h)
      <4>1. a \in Nat /\ At(Len(leaves) - 1, h + 1) = a \div 2
        <5>1. h \in Nat /\ Len(leaves) - 1 \in Nat
          BY <1>1, <3>2
        <5> QED BY <5>1, PlacesHalve
      <4>2. i \in Nat
        BY <1>1, PowerOfTwo
      <4> HIDE DEF a
      <4>3. i > a \div 2
        BY <2>1, <3>2, <4>1
      <4>4. 2*i > a /\ 2*i + 1 > a
        BY <4>1, <4>2, <4>3
      <4> QED BY <4>4 DEF a
    <3>3. node[h][2*i] = zero_values[h] /\ node[h][2*i + 1] = zero_values[h]
      <4> HIDE DEF node
      <4> QED BY <1>3, <3>1, <3>2
    <3>4. node[h + 1][i] = Hash(node[h][2*i], node[h][2*i + 1])
      BY <1>1, NodesAre
    <3>5. zero_values[h + 1] = Hash(zero_values[h], zero_values[h])
      BY <1>1, ZeroValues
    <3> QED BY <3>3, <3>4, <3>5
  <2> HIDE DEF node
  <2>2. Empty(h + 1)
    BY <2>1
  <2> QED BY <1>1, <2>2
<1> HIDE DEF S, node
<1>4. \A h \in 0..d : h \in S
  BY <1>1, <1>2, <1>3, UpTo
<1>5. \A h \in 0..d : zeroValue(h) = zero_values[h]
  BY <1>1, ZeroValueIs
<1> QED BY <1>4, <1>5 DEF S, node

(* A new leaf changes only the nodes above it.                              *)
LEMMA OtherNodes ==
    ASSUME NEW d \in Nat, NEW leaves \in Seq(Leaf), NEW leaf \in Leaf, Len(leaves) < 2 ^ d
    PROVE  \A h \in 0..d : \A i \in 0..2 ^ (d - h) - 1 :
             i # At(Len(leaves), h)
               => Nodes(Append(leaves, leaf), d)[h][i] = Nodes(leaves, d)[h][i]
<1> DEFINE n       == Len(leaves)
           more    == Append(leaves, leaf)
           old     == Nodes(leaves, d)
           new     == Nodes(more, d)
           Same(h) == \A i \in 0..2 ^ (d - h) - 1 : i # At(n, h) => new[h][i] = old[h][i]
           S       == {h \in 0..d : Same(h)}
<1>1. n \in Nat /\ Len(more) = n + 1 /\ \A i \in 0..n-1 : more[i + 1] = leaves[i + 1]
  OBVIOUS
<1>2. 0 \in S
  <2>1. ASSUME NEW i \in 0..2 ^ (d - 0) - 1, i # At(n, 0) PROVE new[0][i] = old[0][i]
    <3>1. i \in 0..2 ^ d - 1 /\ i \in Nat
      <4>1. d - 0 = d
        OBVIOUS
      <4> QED BY <4>1, PowerOfTwo
    <3>2. i # n
      BY <1>1, <2>1, PlacesHalve
    <3>3. new[0][i] = IF i < Len(more) THEN more[i + 1] ELSE ZERO_VALUE
      BY <3>1, NodesAre
    <3>4. old[0][i] = IF i < n THEN leaves[i + 1] ELSE ZERO_VALUE
      BY <3>1, NodesAre
    <3> HIDE DEF n, more, old, new
    <3> QED BY <1>1, <3>1, <3>2, <3>3, <3>4
  <2> HIDE DEF old, new
  <2>2. Same(0)
    BY <2>1
  <2> QED BY <2>2
<1>3. ASSUME NEW h \in 0..d-1, h \in S PROVE h + 1 \in S
  <2>1. ASSUME NEW i \in 0..2 ^ (d - (h + 1)) - 1, i # At(n, h + 1)
        PROVE  new[h + 1][i] = old[h + 1][i]
    <3>1. 2*i \in 0..2 ^ (d - h) - 1 /\ 2*i + 1 \in 0..2 ^ (d - h) - 1
      BY Children
    <3>2. 2*i # At(n, h) /\ 2*i + 1 # At(n, h)
      <4>1. At(n, h) \in Nat /\ At(n, h + 1) = At(n, h) \div 2
        <5>1. h \in Nat
          OBVIOUS
        <5> HIDE DEF n
        <5> QED BY <1>1, <5>1, PlacesHalve
      <4>2. i \in Nat
        BY PowerOfTwo
      <4>3. ASSUME NEW a \in Nat, NEW j \in Nat, j # a \div 2 PROVE 2*j # a /\ 2*j + 1 # a
        BY <4>3
      <4> QED BY <2>1, <4>1, <4>2, <4>3
    <3>3. /\ new[h + 1][i] = Hash(new[h][2*i], new[h][2*i + 1])
          /\ old[h + 1][i] = Hash(old[h][2*i], old[h][2*i + 1])
      BY NodesAre
    <3> HIDE DEF old, new
    <3> QED BY <1>3, <3>1, <3>2, <3>3
  <2> HIDE DEF old, new
  <2>2. Same(h + 1)
    BY <2>1
  <2> QED BY <2>2
<1> HIDE DEF S, n, more, old, new
<1>4. \A h \in 0..d : h \in S
  BY <1>2, <1>3, UpTo
<1> QED BY <1>4 DEF S, n, more, old, new

(* The siblings of the next leaf.                                           *)
PathOf(path, leaves, d) ==
    \A h \in 0..d-1 : path[h] = Nodes(leaves, d)[h][Sibling(Len(leaves), h)]

LEMMA SiblingInRange ==
    ASSUME NEW d \in Nat, NEW n \in 0..2 ^ d - 1, NEW h \in 0..d-1
    PROVE  Sibling(n, h) \in 0..2 ^ (d - h) - 1 /\ Sibling(n, h) # At(n, h)
<1>1. n \in Nat
  BY PowerOfTwo
<1>2. At(n, h + 1) \in 0..2 ^ (d - (h + 1)) - 1
  BY PlacesInRange
<1>3. /\ At(n, h) \in Nat /\ At(n, h + 1) = At(n, h) \div 2
      /\ isRightChild(n, h) <=> At(n, h) % 2 = 1
  BY <1>1, PlacesHalve
<1> DEFINE i == At(n, h + 1)
<1>4. 2*i \in 0..2 ^ (d - h) - 1 /\ 2*i + 1 \in 0..2 ^ (d - h) - 1
  BY <1>2, Children
<1>5. ASSUME NEW a \in Nat
      PROVE  IF a % 2 = 1 THEN a - 1 = 2 * (a \div 2) ELSE a + 1 = 2 * (a \div 2) + 1
  OBVIOUS
<1>6. Sibling(n, h) = IF isRightChild(n, h) THEN 2*i ELSE 2*i + 1
  BY <1>3, <1>5 DEF Sibling
<1>7. Sibling(n, h) # At(n, h)
  BY <1>3 DEF Sibling
<1> QED BY <1>4, <1>6, <1>7

(* Hashing a leaf with its siblings gives the nodes above it.               *)
LEMMA HashesAreNodes ==
    ASSUME NEW d \in Nat, NEW leaves \in Seq(Leaf), NEW leaf \in Leaf, Len(leaves) < 2 ^ d,
           NEW path, PathOf(path, leaves, d)
    PROVE  \A h \in 0..d :
             merkleHash(Len(leaves), leaf, path, d)[h]
               = Nodes(Append(leaves, leaf), d)[h][At(Len(leaves), h)]
<1> DEFINE n    == Len(leaves)
           more == Append(leaves, leaf)
           old  == Nodes(leaves, d)
           new  == Nodes(more, d)
           hash == merkleHash(n, leaf, path, d)
           S    == {h \in 0..d : hash[h] = new[h][At(n, h)]}
<1>1. n \in Nat /\ 2 ^ d \in Nat /\ n \in 0..2 ^ d - 1
  BY PowerOfTwo
<1>2. 0 \in S
  <2>1. Len(more) = n + 1 /\ more[n + 1] = leaf
    OBVIOUS
  <2>2. new[0][n] = IF n < Len(more) THEN more[n + 1] ELSE ZERO_VALUE
    BY <1>1, NodesAre
  <2>3. hash[0] = leaf
    BY HashesAre
  <2>4. At(n, 0) = n
    BY <1>1, PlacesHalve
  <2> HIDE DEF n, more, new, hash
  <2>5. hash[0] = new[0][At(n, 0)]
    BY <1>1, <2>1, <2>2, <2>3, <2>4
  <2> QED BY <2>5
<1>3. ASSUME NEW h \in 0..d-1, h \in S PROVE h + 1 \in S
  <2> DEFINE i == At(n, h + 1)
  <2>1. hash[h] = new[h][At(n, h)]
    BY <1>3
  <2>2. i \in 0..2 ^ (d - (h + 1)) - 1
    <3>1. h + 1 \in 0..d
      OBVIOUS
    <3> HIDE DEF n
    <3> QED BY <1>1, <3>1, PlacesInRange
  <2>3. new[h + 1][i] = Hash(new[h][2*i], new[h][2*i + 1])
    BY <2>2, NodesAre
  <2>4. /\ At(n, h) \in Nat /\ i = At(n, h) \div 2
        /\ isRightChild(n, h) <=> At(n, h) % 2 = 1
    <3>1. h \in Nat
      OBVIOUS
    <3> HIDE DEF n
    <3> QED BY <1>1, <3>1, PlacesHalve
  <2>5. path[h] = new[h][Sibling(n, h)]
    <3>1. Sibling(n, h) \in 0..2 ^ (d - h) - 1 /\ Sibling(n, h) # At(n, h)
      BY <1>1, SiblingInRange
    <3>2. new[h][Sibling(n, h)] = old[h][Sibling(n, h)]
      BY <3>1, OtherNodes
    <3> QED BY <3>2 DEF PathOf
  <2>6. hash[h + 1] = IF isRightChild(n, h) THEN Hash(path[h], hash[h])
                      ELSE Hash(hash[h], path[h])
    BY HashesAre
  <2> HIDE DEF n, more, old, new, hash, i
  <2>7. ASSUME NEW a \in Nat
        PROVE  IF a % 2 = 1 THEN a - 1 = 2 * (a \div 2) /\ a = 2 * (a \div 2) + 1
               ELSE a + 1 = 2 * (a \div 2) + 1 /\ a = 2 * (a \div 2)
    OBVIOUS
  <2>8. CASE isRightChild(n, h)
    <3>1. Sibling(n, h) = 2*i /\ At(n, h) = 2*i + 1
      BY <2>4, <2>7, <2>8 DEF Sibling
    <3> QED BY <2>1, <2>3, <2>5, <2>6, <2>8, <3>1 DEF i
  <2>9. CASE ~isRightChild(n, h)
    <3>1. Sibling(n, h) = 2*i + 1 /\ At(n, h) = 2*i
      BY <2>4, <2>7, <2>9 DEF Sibling
    <3> QED BY <2>1, <2>3, <2>5, <2>6, <2>9, <3>1 DEF i
  <2> QED BY <2>8, <2>9
<1> HIDE DEF S
<1>4. \A h \in 0..d : h \in S
  BY <1>2, <1>3, UpTo
<1> QED BY <1>4 DEF S

(* ... and, with them, the siblings of the leaf after it.                   *)
LEMMA NextPathIsPath ==
    ASSUME NEW d \in 0..MERKLE_DEPTH, NEW leaves \in Seq(Leaf), NEW leaf \in Leaf,
           Len(leaves) + 1 < 2 ^ d, NEW path, PathOf(path, leaves, d)
    PROVE  PathOf(NextPath(path, Len(leaves), merkleHash(Len(leaves), leaf, path, d), d),
                  Append(leaves, leaf), d)
<1> DEFINE n    == Len(leaves)
           more == Append(leaves, leaf)
           old  == Nodes(leaves, d)
           new  == Nodes(more, d)
           hash == merkleHash(n, leaf, path, d)
           next == NextPath(path, n, hash, d)
<1>1. d \in Nat /\ n \in Nat /\ 2 ^ d \in Nat /\ Len(more) = n + 1
  BY PowerOfTwo, MerkleAssumption
<1>2. n \in 0..2 ^ d - 1 /\ n + 1 \in 0..2 ^ d - 1
  BY <1>1
<1>3. ASSUME NEW h \in 0..d-1 PROVE next[h] = new[h][Sibling(n + 1, h)]
  <2>1. /\ At(n, h) \in Nat
        /\ isRightChild(n, h) <=> At(n, h) % 2 = 1
        /\ isRightChild(n + 1, h) <=> At(n + 1, h) % 2 = 1
        /\ At(n + 1, h) = NextAt(n, h)
    <3>1. h \in Nat /\ h \in 0..d /\ n + 1 \in Nat
      BY <1>1
    <3> HIDE DEF n
    <3>2. At(n, h) \in Nat /\ (isRightChild(n, h) <=> At(n, h) % 2 = 1)
      BY <1>1, <3>1, PlacesHalve
    <3>3. isRightChild(n + 1, h) <=> At(n + 1, h) % 2 = 1
      BY <3>1, PlacesHalve
    <3>4. At(n + 1, h) = NextAt(n, h)
      BY <1>1, <3>1, PlacesOfNext
    <3> QED BY <3>2, <3>3, <3>4
  <2>2. next[h] = IF \E k \in 0..h-1 : ~isRightChild(n, k) THEN path[h]
                  ELSE IF isRightChild(n, h) THEN zeroValue(h)
                  ELSE hash[h]
    BY DEF NextPath
  <2>3. Sibling(n, h) \in 0..2 ^ (d - h) - 1 /\ Sibling(n, h) # At(n, h)
    BY <1>1, <1>2, SiblingInRange
  <2>4. Sibling(n + 1, h) \in 0..2 ^ (d - h) - 1
    BY <1>1, <1>2, SiblingInRange
  <2> HIDE DEF hash, next
  <2>5. CASE \E k \in 0..h-1 : ~isRightChild(n, k)
    <3>1. At(n + 1, h) = At(n, h)
      BY <2>1, <2>5 DEF NextAt
    <3>2. Sibling(n + 1, h) = Sibling(n, h)
      BY <2>1, <3>1 DEF Sibling
    <3>3. new[h][Sibling(n, h)] = old[h][Sibling(n, h)]
      BY <1>1, <1>2, <2>3, OtherNodes
    <3> QED BY <2>2, <2>5, <3>2, <3>3 DEF PathOf
  <2>6. CASE ~(\E k \in 0..h-1 : ~isRightChild(n, k)) /\ isRightChild(n, h)
    <3>1. At(n + 1, h) = At(n, h) + 1
      BY <2>1, <2>6 DEF NextAt
    <3>2. Sibling(n + 1, h) = At(n, h) + 2
      BY <2>1, <2>6, <3>1 DEF Sibling
    <3>3. Sibling(n + 1, h) > At(Len(more) - 1, h)
      BY <1>1, <2>1, <3>2
    <3>4. new[h][Sibling(n + 1, h)] = zeroValue(h)
      <4>1. Len(more) \in Nat /\ h \in 0..d
        BY <1>1
      <4> HIDE DEF n, more
      <4> QED BY <2>4, <3>3, <4>1, EmptyNodes
    <3> QED BY <2>2, <2>6, <3>4
  <2>7. CASE ~(\E k \in 0..h-1 : ~isRightChild(n, k)) /\ ~isRightChild(n, h)
    <3>1. At(n + 1, h) = At(n, h) + 1
      BY <2>1, <2>7 DEF NextAt
    <3>2. Sibling(n + 1, h) = At(n, h)
      BY <2>1, <2>7, <3>1 DEF Sibling
    <3>3. hash[h] = new[h][At(n, h)]
      <4>1. Len(leaves) < 2 ^ d /\ h \in 0..d
        BY <1>1, <1>2
      <4> QED BY <1>1, <4>1, HashesAreNodes DEF hash
    <3> QED BY <2>2, <2>7, <3>2, <3>3
  <2> QED BY <2>5, <2>6, <2>7
<1> HIDE DEF next, new
<1>4. \A h \in 0..d-1 : next[h] = new[h][Sibling(Len(more), h)]
  BY <1>1, <1>3
<1> QED BY <1>4 DEF PathOf, next, new

-----------------------------------------------------------------------------
(* What a root commits to, if the hash has no collisions.  A leaf may be a  *)
(* hash, as the commitments of the v2 contract are.                         *)
NoCollisions == \A a, b, c, e : Hash(a, b) = Hash(c, e) => a = c /\ b = e

LEMMA HashDetermines ==
    ASSUME NoCollisions, NEW a, NEW b, NEW c, NEW e, Hash(a, b) = Hash(c, e)
    PROVE  a = c /\ b = e
<1>1. Hash(a, b) = Hash(c, e) => a = c /\ b = e
  BY DEF NoCollisions
<1> QED BY <1>1

LEMMA ContentsAre ==
    ASSUME NEW d \in Nat, NEW leaves
    PROVE  leaves \in Contents(d) <=> leaves \in Seq(Leaf) /\ Len(leaves) <= 2 ^ d
<1>1. 2 ^ d \in Nat
  BY PowerOfTwo
<1>2. ASSUME leaves \in Contents(d) PROVE leaves \in Seq(Leaf) /\ Len(leaves) <= 2 ^ d
  <2>1. PICK n \in 0..2 ^ d : leaves \in [1..n -> Leaf]
    BY <1>2 DEF Contents
  <2>2. n \in Nat
    BY <1>1
  <2>3. leaves \in Seq(Leaf) /\ Len(leaves) = n
    BY <2>1, <2>2
  <2> QED BY <1>1, <2>1, <2>3
<1>3. ASSUME leaves \in Seq(Leaf), Len(leaves) <= 2 ^ d PROVE leaves \in Contents(d)
  <2>1. Len(leaves) \in 0..2 ^ d /\ leaves \in [1..Len(leaves) -> Leaf]
    BY <1>1, <1>3
  <2> QED BY <2>1 DEF Contents
<1> QED BY <1>2, <1>3

(* The bottom level: a leaf or the empty one.                               *)
LEMMA BottomNodes ==
    ASSUME NEW d \in Nat, NEW leaves \in Contents(d), NEW i \in 0..2 ^ d - 1
    PROVE  /\ i \in Nat /\ Len(leaves) \in 0..2 ^ d
           /\ i < Len(leaves) => leaves[i + 1] \in Leaf /\ Nodes(leaves, d)[0][i] = leaves[i + 1]
           /\ i >= Len(leaves) => Nodes(leaves, d)[0][i] = ZERO_VALUE
<1>1. 2 ^ d \in Nat /\ i \in Nat
  BY PowerOfTwo
<1>2. leaves \in Seq(Leaf) /\ Len(leaves) <= 2 ^ d
  BY ContentsAre
<1>3. Len(leaves) \in Nat /\ (i < Len(leaves) => leaves[i + 1] \in Leaf)
  BY <1>1, <1>2
<1>4. Nodes(leaves, d)[0][i] = IF i < Len(leaves) THEN leaves[i + 1] ELSE ZERO_VALUE
  BY NodesAre
<1> QED BY <1>1, <1>2, <1>3, <1>4

(* With the root of a taller tree, a tree has the taller one's nodes at     *)
(* every height, counted from the top, down to its leaves;                  *)
LEMMA RootGivesNodes ==
    ASSUME NoCollisions, NEW d \in Nat, NEW e \in Nat, d <= e, NEW s, NEW t,
           Root(s, d) = Root(t, e)
    PROVE  \A i \in 0..2 ^ d - 1 : Nodes(s, d)[0][i] = Nodes(t, e)[e - d][i]
<1> DEFINE one == Nodes(s, d)
           two == Nodes(t, e)
           Same(k) == \A i \in 0..2 ^ k - 1 : one[d - k][i] = two[e - k][i]
           S    == {k \in 0..d : Same(k)}
<1>1. 0 \in S
  <2>1. one[d][0] = two[e][0]
    BY DEF Root
  <2>2. d - 0 = d /\ e - 0 = e /\ 0..2 ^ 0 - 1 = {0}
    BY SMT
  <2> HIDE DEF one, two
  <2>3. Same(0)
    BY <2>1, <2>2
  <2> QED BY <2>3
<1>2. ASSUME NEW k \in 0..d-1, k \in S PROVE k + 1 \in S
  <2> DEFINE g == d - (k + 1)
             h == e - (k + 1)
  <2>1. /\ g \in 0..d-1 /\ g + 1 = d - k /\ d - (g + 1) = k /\ k \in Nat
        /\ h \in 0..e-1 /\ h + 1 = e - k /\ e - (h + 1) = k
    OBVIOUS
  <2> HIDE DEF g, h
  <2>2. ASSUME NEW i \in 0..2 ^ (k + 1) - 1 PROVE one[g][i] = two[h][i]
    <3> DEFINE j == i \div 2
    <3>1. 2 ^ (k + 1) = 2 * 2 ^ k /\ 2 ^ k \in Nat
      BY <2>1, PowerDoubles, PowerOfTwo
    <3>2. ASSUME NEW b \in Nat, NEW c \in Nat, c = 2 * b, NEW a \in 0..c - 1
          PROVE  a \div 2 \in 0..b - 1 /\ (a = 2 * (a \div 2) \/ a = 2 * (a \div 2) + 1)
      BY <3>2
    <3>3. 2 ^ (k + 1) \in Nat
      BY <3>1
    <3>4. j \in 0..2 ^ k - 1 /\ (i = 2 * j \/ i = 2 * j + 1)
      BY <3>1, <3>2, <3>3
    <3> HIDE DEF j
    <3>5. one[g + 1][j] = two[h + 1][j]
      BY <1>2, <2>1, <3>4
    <3>6. /\ one[g + 1][j] = Hash(one[g][2*j], one[g][2*j + 1])
          /\ two[h + 1][j] = Hash(two[h][2*j], two[h][2*j + 1])
      <4>1. j \in 0..2 ^ (d - (g + 1)) - 1 /\ j \in 0..2 ^ (e - (h + 1)) - 1
        BY <2>1, <3>4
      <4> QED BY <2>1, <4>1, NodesAre
    <3> HIDE DEF one, two
    <3>7. one[g][2*j] = two[h][2*j] /\ one[g][2*j + 1] = two[h][2*j + 1]
      <4>1. Hash(one[g][2*j], one[g][2*j + 1]) = Hash(two[h][2*j], two[h][2*j + 1])
        BY <3>5, <3>6
      <4> QED BY <4>1, HashDetermines
    <3> QED BY <3>4, <3>7
  <2> HIDE DEF one, two
  <2>3. Same(k + 1)
    BY <2>2 DEF g, h
  <2> QED BY <2>1, <2>3
<1> HIDE DEF S
<1>3. d \in S
  BY <1>1, <1>2, UpTo
<1>4. d - d = 0
  OBVIOUS
<1> HIDE DEF one, two
<1>5. \A i \in 0..2 ^ d - 1 : one[0][i] = two[e - d][i]
  BY <1>3, <1>4 DEF S
<1> QED BY <1>5 DEF one, two

(* and a tree whose leaves are nodes of the taller one has its root.        *)
LEMMA NodesGiveRoot ==
    ASSUME NEW d \in Nat, NEW e \in Nat, d <= e, NEW s, NEW t,
           \A i \in 0..2 ^ d - 1 : Nodes(s, d)[0][i] = Nodes(t, e)[e - d][i]
    PROVE  Root(s, d) = Root(t, e)
<1> DEFINE one == Nodes(s, d)
           two == Nodes(t, e)
           Same(k) == \A i \in 0..2 ^ (d - k) - 1 : one[k][i] = two[(e - d) + k][i]
           S    == {k \in 0..d : Same(k)}
<1>1. 0 \in S
  <2>1. d - 0 = d /\ (e - d) + 0 = e - d
    OBVIOUS
  <2> HIDE DEF one, two
  <2>2. \A i \in 0..2 ^ d - 1 : one[0][i] = two[e - d][i]
    BY DEF one, two
  <2>3. Same(0)
    BY <2>1, <2>2
  <2> QED BY <2>3
<1>2. ASSUME NEW k \in 0..d-1, k \in S PROVE k + 1 \in S
  <2> DEFINE h == (e - d) + k
  <2>1. /\ h \in 0..e-1 /\ (e - d) + (k + 1) = h + 1 /\ e - (h + 1) = d - (k + 1)
        /\ k \in 0..d-1
    OBVIOUS
  <2> HIDE DEF h
  <2>2. ASSUME NEW i \in 0..2 ^ (d - (k + 1)) - 1 PROVE one[k + 1][i] = two[h + 1][i]
    <3>1. /\ one[k + 1][i] = Hash(one[k][2*i], one[k][2*i + 1])
          /\ two[h + 1][i] = Hash(two[h][2*i], two[h][2*i + 1])
      BY <2>1, NodesAre
    <3>2. 2*i \in 0..2 ^ (d - k) - 1 /\ 2*i + 1 \in 0..2 ^ (d - k) - 1
      BY <2>1, Children
    <3> HIDE DEF one, two
    <3>3. one[k][2*i] = two[h][2*i] /\ one[k][2*i + 1] = two[h][2*i + 1]
      BY <1>2, <3>2 DEF h
    <3> QED BY <3>1, <3>3
  <2> HIDE DEF one, two
  <2>3. Same(k + 1)
    BY <2>1, <2>2
  <2> QED BY <2>1, <2>3
<1> HIDE DEF S
<1>3. d \in S
  BY <1>1, <1>2, UpTo
<1>4. d - d = 0 /\ (e - d) + d = e /\ 0 \in 0..2 ^ 0 - 1
  BY SMT
<1> HIDE DEF one, two
<1>5. one[d][0] = two[e][0]
  BY <1>3, <1>4 DEF S
<1> QED BY <1>5 DEF one, two, Root

(* So a root is told from another exactly where the logs are not alike.     *)
LEMMA SameRoot ==
    ASSUME NoCollisions, NEW d \in Nat, NEW e \in Nat, NEW s, NEW t
    PROVE  Root(s, d) = Root(t, e)
             <=> Alike([depth |-> d, leaves |-> s], [depth |-> e, leaves |-> t])
<1> DEFINE x == [depth |-> d, leaves |-> s]
           y == [depth |-> e, leaves |-> t]
<1>1. /\ x.depth = d /\ x.leaves = s /\ y.depth = e /\ y.leaves = t
  OBVIOUS
<1> HIDE DEF x, y
<1>2. CASE d <= e
  <2>1. Root(s, d) = Root(t, e) => OverSubtrees(x, y)
    BY <1>1, <1>2, RootGivesNodes DEF OverSubtrees
  <2>2. OverSubtrees(x, y) => Root(s, d) = Root(t, e)
    BY <1>1, <1>2, NodesGiveRoot DEF OverSubtrees
  <2>3. OverSubtrees(y, x) => Root(s, d) = Root(t, e)
    BY <1>1, NodesGiveRoot DEF OverSubtrees
  <2> QED BY <2>1, <2>2, <2>3 DEF Alike, x, y
<1>3. CASE e <= d
  <2>1. Root(s, d) = Root(t, e) => OverSubtrees(y, x)
    BY <1>1, <1>3, RootGivesNodes DEF OverSubtrees
  <2>2. OverSubtrees(y, x) => Root(s, d) = Root(t, e)
    BY <1>1, <1>3, NodesGiveRoot DEF OverSubtrees
  <2>3. OverSubtrees(x, y) => Root(s, d) = Root(t, e)
    BY <1>1, NodesGiveRoot DEF OverSubtrees
  <2> QED BY <2>1, <2>2, <2>3 DEF Alike, x, y
<1> QED BY <1>2, <1>3

(* Trees of the same depth with the same root have the same leaves.         *)
LEMMA RootDetermines ==
    ASSUME NoCollisions, NEW d \in Nat, NEW s \in Contents(d), NEW t \in Contents(d),
           Root(s, d) = Root(t, d)
    PROVE  s = t
<1> DEFINE one == Nodes(s, d)
           two == Nodes(t, d)
<1>1. \A i \in 0..2 ^ d - 1 : one[0][i] = two[0][i]
  <2>1. d - d = 0
    OBVIOUS
  <2> QED BY <2>1, RootGivesNodes
<1>2. s \in Seq(Leaf) /\ t \in Seq(Leaf) /\ Len(s) <= 2 ^ d /\ Len(t) <= 2 ^ d /\ 2 ^ d \in Nat
  BY ContentsAre, PowerOfTwo
<1>3. Len(s) \in Nat /\ Len(t) \in Nat
  BY <1>2
<1>4. ~(Len(s) < Len(t))
  <2>1. SUFFICES ASSUME Len(s) < Len(t) PROVE FALSE
    OBVIOUS
  <2>2. Len(s) \in 0..2 ^ d - 1
    BY <1>2, <1>3, <2>1
  <2>3. one[0][Len(s)] = ZERO_VALUE /\ two[0][Len(s)] \in Leaf
    BY <1>3, <2>1, <2>2, BottomNodes
  <2> HIDE DEF one, two
  <2> QED BY <1>1, <2>2, <2>3, MerkleAssumption
<1>5. ~(Len(t) < Len(s))
  <2>1. SUFFICES ASSUME Len(t) < Len(s) PROVE FALSE
    OBVIOUS
  <2>2. Len(t) \in 0..2 ^ d - 1
    BY <1>2, <1>3, <2>1
  <2>3. two[0][Len(t)] = ZERO_VALUE /\ one[0][Len(t)] \in Leaf
    BY <1>3, <2>1, <2>2, BottomNodes
  <2> HIDE DEF one, two
  <2> QED BY <1>1, <2>2, <2>3, MerkleAssumption
<1>6. ASSUME NEW j \in 1..Len(s) PROVE s[j] = t[j]
  <2>1. j - 1 \in 0..2 ^ d - 1 /\ (j - 1) + 1 = j /\ j - 1 < Len(s) /\ j - 1 < Len(t)
    BY <1>2, <1>3, <1>4, <1>5
  <2>2. one[0][j - 1] = s[j] /\ two[0][j - 1] = t[j]
    BY <2>1, BottomNodes
  <2> HIDE DEF one, two
  <2> QED BY <1>1, <2>1, <2>2
<1>7. Len(s) = Len(t)
  BY <1>3, <1>4, <1>5
<1> QED BY <1>2, <1>6, <1>7

LEMMA RootOpens ==
    ASSUME NoCollisions, NEW d \in Nat, NEW s \in Contents(d)
    PROVE  Opened(Root(s, d), d) = s
BY RootDetermines DEF Opened

-----------------------------------------------------------------------------
(* The invariant: every tree is the tree of a log of leaves, with the path  *)
(* of the next one.                                                         *)
TreeFields == {"depth", "nextIndex", "root", "siblingPath", "storeRoots", "rootHistory"}

TreeOf(tree, leaves, d) ==
    /\ DOMAIN tree = TreeFields
    /\ leaves \in Contents(d)
    /\ tree.depth = d /\ tree.nextIndex = Len(leaves)
    /\ tree.root = Root(leaves, d)
    /\ Len(leaves) < 2 ^ d => PathOf(tree.siblingPath, leaves, d)

IsLog(tree, leaves, d) ==
    \/ tree = Uninitialized /\ leaves = <<>>
    \/ leaves # <<>> /\ TreeOf(tree, leaves, d)

IInv ==
    /\ DOMAIN activeSubTrees = Depths
    /\ \A d \in Depths : \E leaves : IsLog(activeSubTrees[d], leaves, d)

LEMMA DepthsNat == ASSUME NEW d \in Depths PROVE d \in Nat /\ d \in 0..MERKLE_DEPTH
BY MountainAssumption, MerkleAssumption

LEMMA EmptyLog == ASSUME NEW d \in Nat PROVE <<>> \in Contents(d) /\ Len(<<>>) < 2 ^ d
<1>1. <<>> \in Seq(Leaf) /\ Len(<<>>) = 0
  OBVIOUS
<1>2. 2 ^ d \in Nat /\ 2 ^ d >= 1
  BY PowerOfTwo
<1>3. Len(<<>>) <= 2 ^ d /\ Len(<<>>) < 2 ^ d
  BY <1>1, <1>2
<1>4. <<>> \in Contents(d)
  BY <1>1, <1>3, ContentsAre
<1> QED BY <1>3, <1>4

LEMMA NewTree ==
    ASSUME NEW d \in Depths, NEW tree
    PROVE  TreeOf(initialize(tree, d, FALSE), <<>>, d)
<1> DEFINE path == [h \in 0..d-1 |-> zeroValue(h)]
           new  == [depth |-> d, nextIndex |-> 0, root |-> zeroValue(d),
                    siblingPath |-> path, storeRoots |-> FALSE,
                    rootHistory |-> tree.rootHistory]
<1>1. initialize(tree, d, FALSE) = new
  BY DEF initialize
<1>2. d \in Nat /\ d \in 0..MERKLE_DEPTH /\ Len(<<>>) = 0
  BY DepthsNat
<1>3. \A h \in 0..d : \A i \in 0..2 ^ (d - h) - 1 : Nodes(<<>>, d)[h][i] = zeroValue(h)
  <2>1. ASSUME NEW leaves, Len(leaves) = 0
        PROVE  \A h \in 0..d : \A i \in 0..2 ^ (d - h) - 1 : Nodes(leaves, d)[h][i] = zeroValue(h)
    BY <1>2, <2>1, EmptyNodes
  <2> HIDE DEF path, new
  <2> QED BY <1>2, <2>1
<1>4. zeroValue(d) = Root(<<>>, d)
  <2>1. d - d = 0 /\ 0 \in 0..2 ^ 0 - 1 /\ d \in 0..d
    BY <1>2, SMT
  <2> QED BY <1>3, <2>1 DEF Root
<1>5. PathOf(path, <<>>, d)
  <2>1. ASSUME NEW h \in 0..d-1 PROVE path[h] = Nodes(<<>>, d)[h][Sibling(0, h)]
    <3>1. 0 \in 0..2 ^ d - 1
      BY <1>2, EmptyLog, PowerOfTwo
    <3>2. Sibling(0, h) \in 0..2 ^ (d - h) - 1
      BY <1>2, <3>1, SiblingInRange
    <3>3. h \in 0..d
      BY <1>2
    <3> QED BY <1>3, <3>2, <3>3
  <2> HIDE DEF path
  <2> QED BY <1>2, <2>1 DEF PathOf
<1>6. DOMAIN new = TreeFields
  BY DEF TreeFields
<1>7. new.depth = d /\ new.nextIndex = 0 /\ new.root = zeroValue(d) /\ new.siblingPath = path
  OBVIOUS
<1>8. <<>> \in Contents(d)
  BY <1>2, EmptyLog
<1> HIDE DEF path, new
<1>9. PathOf(new.siblingPath, <<>>, d)
  BY <1>5, <1>7
<1>10. TreeOf(new, <<>>, d)
  BY <1>2, <1>4, <1>6, <1>7, <1>8, <1>9 DEF TreeOf
<1> QED BY <1>1, <1>10

(* The tree that a leaf goes to has room for it: the one in storage, or a   *)
(* new one if that is full or was never used.                               *)
LEMMA ActiveTreeHasRoom ==
    ASSUME NEW d \in Depths, NEW leaves, IsLog(activeSubTrees[d], leaves, d)
    PROVE  LET kept == IF Len(leaves) = 2 ^ d THEN <<>> ELSE leaves IN
           TreeOf(ActiveTree(d), kept, d) /\ Len(kept) < 2 ^ d
<1> DEFINE tree == activeSubTrees[d]
           kept == IF Len(leaves) = 2 ^ d THEN <<>> ELSE leaves
<1>1. d \in Nat /\ 2 ^ d \in Nat /\ 2 ^ d >= 1
  BY DepthsNat, PowerOfTwo
<1>2. CASE tree = Uninitialized /\ leaves = <<>>
  <2>1. ActiveTree(d) = initialize(tree, d, FALSE)
    BY <1>2 DEF ActiveTree, isInitialized, Uninitialized
  <2> QED BY <1>1, <1>2, <2>1, NewTree, EmptyLog
<1>3. CASE leaves # <<>> /\ TreeOf(tree, leaves, d)
  <2>1. leaves \in Seq(Leaf) /\ Len(leaves) <= 2 ^ d /\ Len(leaves) \in Nat
    BY <1>1, <1>3, ContentsAre DEF TreeOf
  <2>2. CASE d = 0 \/ Len(leaves) = 2 ^ d
    <3>1. ActiveTree(d) = initialize(tree, d, FALSE)
      BY <1>3, <2>2 DEF ActiveTree, isInitialized, isFull, TreeOf
    <3>2. Len(leaves) = 2 ^ d
      <4>1. Len(leaves) # 0
        BY <1>3, <2>1
      <4>2. 2 ^ 0 = 1
        BY SMT
      <4>3. ASSUME d = 0 PROVE 2 ^ d = 1
        BY <4>2, <4>3
      <4>4. ASSUME NEW n \in Nat, n <= 1, n # 0 PROVE n = 1
        BY <4>4
      <4>5. CASE d = 0
        BY <2>1, <4>1, <4>3, <4>4, <4>5
      <4> QED BY <2>2, <4>5
    <3> QED BY <1>1, <3>1, <3>2, NewTree, EmptyLog
  <2>3. CASE d # 0 /\ Len(leaves) # 2 ^ d
    <3>1. ActiveTree(d) = tree
      BY <1>3, <2>3 DEF ActiveTree, isInitialized, isFull, TreeOf
    <3> QED BY <1>1, <1>3, <2>1, <2>3, <3>1
  <2> QED BY <2>2, <2>3
<1> QED BY <1>2, <1>3 DEF IsLog

(* insertLeaf makes the tree of one leaf more.                              *)
LEMMA InsertAppends ==
    ASSUME NEW d \in Depths, NEW leaves, NEW tree, TreeOf(tree, leaves, d),
           Len(leaves) < 2 ^ d, NEW leaf \in Leaf
    PROVE  /\ TreeOf(insertLeaf(tree, leaf), Append(leaves, leaf), d)
           /\ Append(leaves, leaf) # <<>>
<1> DEFINE index   == tree.nextIndex
           hashes  == merkleHash(index, leaf, tree.siblingPath, tree.depth)
           next    == index + 1
           top     == hashes[tree.depth]
           path    == NextPath(tree.siblingPath, index, hashes, tree.depth)
           history == IF tree.storeRoots THEN tree.rootHistory \cup {top} ELSE tree.rootHistory
           after   == [tree EXCEPT !.nextIndex = next, !.root = top, !.siblingPath = path,
                                   !.rootHistory = history]
           more    == Append(leaves, leaf)
<1>1. insertLeaf(tree, leaf) = after
  BY DEF insertLeaf
<1>2. /\ d \in Nat /\ d \in 0..MERKLE_DEPTH /\ 2 ^ d \in Nat
      /\ leaves \in Seq(Leaf) /\ Len(leaves) \in Nat /\ Len(leaves) <= 2 ^ d
      /\ tree.depth = d /\ index = Len(leaves) /\ PathOf(tree.siblingPath, leaves, d)
  BY DepthsNat, PowerOfTwo, ContentsAre DEF TreeOf
<1>3. more \in Seq(Leaf) /\ Len(more) = Len(leaves) + 1 /\ more # <<>>
  BY <1>2
<1> HIDE DEF index, hashes, next, top, path, history, after, more
<1>4. more \in Contents(d)
  <2>1. Len(more) <= 2 ^ d
    BY <1>2, <1>3
  <2> QED BY <1>2, <1>3, <2>1, ContentsAre
<1>5. top = Root(more, d)
  <2>1. hashes[d] = Nodes(more, d)[d][At(Len(leaves), d)]
    BY <1>2, HashesAreNodes DEF hashes, more
  <2>2. At(Len(leaves), d) = 0
    <3>1. Len(leaves) \in 0..2 ^ d - 1
      BY <1>2
    <3>2. At(Len(leaves), d) \in 0..2 ^ (d - d) - 1
      <4>1. d \in 0..d
        BY <1>2
      <4> QED BY <1>2, <3>1, <4>1, PlacesInRange
    <3>3. d - d = 0 /\ 0..2 ^ 0 - 1 = {0}
      BY <1>2, SMT
    <3> QED BY <3>2, <3>3
  <2> QED BY <1>2, <2>1, <2>2 DEF Root, top
<1>6. ASSUME Len(more) < 2 ^ d PROVE PathOf(path, more, d)
  <2>1. path = NextPath(tree.siblingPath, Len(leaves),
                        merkleHash(Len(leaves), leaf, tree.siblingPath, d), d)
    BY <1>2 DEF path, hashes
  <2>2. Len(leaves) + 1 < 2 ^ d
    BY <1>2, <1>3, <1>6
  <2> QED BY <1>2, <2>1, <2>2, NextPathIsPath DEF more
<1>7. /\ DOMAIN after = TreeFields /\ after.depth = d /\ after.nextIndex = next
      /\ after.root = top /\ after.siblingPath = path
  BY <1>2 DEF TreeOf, TreeFields, after
<1>8. next = Len(more)
  BY <1>2, <1>3 DEF next
<1> QED BY <1>1, <1>3, <1>4, <1>5, <1>6, <1>7, <1>8 DEF TreeOf, more

LEMMA InitEstablishes == ASSUME Init PROVE IInv
<1>1. ASSUME NEW d \in Depths PROVE IsLog(activeSubTrees[d], <<>>, d)
  BY DEF Init, IsLog
<1>2. DOMAIN activeSubTrees = Depths
  BY DEF Init
<1> QED BY <1>1, <1>2 DEF IInv

(* What an insertion makes of a log, and of no other.                       *)
LEMMA InsertLogs ==
    ASSUME IInv, NEW d \in Depths, NEW leaf \in Leaf, Insert(d, leaf),
           NEW leaves, IsLog(activeSubTrees[d], leaves, d)
    PROVE  LET kept == IF Len(leaves) = 2 ^ d THEN <<>> ELSE leaves
               more == Append(kept, leaf)
           IN  /\ more # <<>> /\ TreeOf(activeSubTrees'[d], more, d)
               /\ \A e \in Depths \ {d} : activeSubTrees'[e] = activeSubTrees[e]
               /\ DOMAIN activeSubTrees' = Depths
<1> DEFINE kept  == IF Len(leaves) = 2 ^ d THEN <<>> ELSE leaves
           more  == Append(kept, leaf)
           after == insertLeaf(ActiveTree(d), leaf)
<1>1. activeSubTrees' = [activeSubTrees EXCEPT ![d] = after]
  BY DEF Insert
<1>2. TreeOf(ActiveTree(d), kept, d) /\ Len(kept) < 2 ^ d
  BY ActiveTreeHasRoom
<1>3. TreeOf(after, more, d) /\ more # <<>>
  <2> HIDE DEF kept
  <2> QED BY <1>2, InsertAppends
<1> HIDE DEF after, kept
<1> QED BY <1>1, <1>3 DEF IInv, kept

LEMMA NextKeeps == ASSUME IInv, [Next]_vars PROVE IInv'
<1>1. ASSUME NEW d \in Depths, NEW leaf \in Leaf, Insert(d, leaf)
      PROVE  IInv'
  <2>1. PICK leaves : IsLog(activeSubTrees[d], leaves, d)
    BY DEF IInv
  <2> DEFINE more == Append(IF Len(leaves) = 2 ^ d THEN <<>> ELSE leaves, leaf)
  <2>2. /\ more # <<>> /\ TreeOf(activeSubTrees'[d], more, d)
        /\ \A e \in Depths \ {d} : activeSubTrees'[e] = activeSubTrees[e]
        /\ DOMAIN activeSubTrees' = Depths
    BY <1>1, <2>1, InsertLogs
  <2> HIDE DEF more
  <2>3. ASSUME NEW e \in Depths PROVE \E s : IsLog(activeSubTrees'[e], s, e)
    <3>1. CASE e = d
      BY <2>2, <3>1 DEF IsLog
    <3>2. CASE e # d
      BY <2>2, <3>2 DEF IInv
    <3> QED BY <3>1, <3>2
  <2> QED BY <2>2, <2>3 DEF IInv
<1>2. CASE UNCHANGED vars
  BY <1>2 DEF vars, IInv
<1> QED BY <1>1, <1>2 DEF Next

LEMMA AlwaysIInv == Spec => []IInv
<1>1. Init => IInv
  BY InitEstablishes
<1>2. IInv /\ [Next]_vars => IInv'
  BY NextKeeps
<1> QED BY <1>1, <1>2, PTL DEF Spec

-----------------------------------------------------------------------------
(* Whatever depths callers ask for, in whatever order, a tree is replaced   *)
(* before it would take a leaf more than its depth has places, which the    *)
(* check of insertLeaf, that knows only the largest depth, would let pass.  *)
THEOREM TreesAreReplacedInTime == Spec => []NeverOverfull
<1>1. ASSUME IInv, NEW d \in Depths PROVE activeSubTrees[d].nextIndex <= 2 ^ d
  <2>1. d \in Nat /\ 2 ^ d \in Nat
    BY DepthsNat, PowerOfTwo
  <2>2. PICK leaves : IsLog(activeSubTrees[d], leaves, d)
    BY <1>1 DEF IInv
  <2>3. CASE activeSubTrees[d] = Uninitialized
    BY <2>1, <2>3 DEF Uninitialized
  <2>4. CASE TreeOf(activeSubTrees[d], leaves, d)
    BY <2>1, <2>4, ContentsAre DEF TreeOf
  <2> QED BY <2>2, <2>3, <2>4 DEF IsLog
<1>2. IInv => NeverOverfull
  BY <1>1 DEF NeverOverfull
<1> QED BY <1>2, AlwaysIInv, PTL

-----------------------------------------------------------------------------
(* The refinement.                                                          *)
LogNow == [d \in Depths |->
             IF activeSubTrees[d].nextIndex = 0 THEN <<>>
             ELSE Opened(activeSubTrees[d].root, d)]

KnownUnder(roots) ==
    UNION { {[depth |-> d, leaves |-> s] : s \in {c \in Contents(d) : Root(c, d) \in roots}} :
            d \in Depths }

LEMMA LogIs ==
    ASSUME NoCollisions, NEW d \in Depths, NEW leaves, IsLog(activeSubTrees[d], leaves, d)
    PROVE  LogNow[d] = leaves
<1>1. d \in Nat /\ 2 ^ d \in Nat
  BY DepthsNat, PowerOfTwo
<1>2. CASE activeSubTrees[d] = Uninitialized /\ leaves = <<>>
  BY <1>2 DEF LogNow, Uninitialized
<1>3. CASE leaves # <<>> /\ TreeOf(activeSubTrees[d], leaves, d)
  <2>1. leaves \in Seq(Leaf)
    BY <1>1, <1>3, ContentsAre DEF TreeOf
  <2>2. Len(leaves) # 0
    BY <1>3, <2>1
  <2>3. Opened(Root(leaves, d), d) = leaves
    BY <1>1, <1>3, RootOpens DEF TreeOf
  <2> QED BY <1>3, <2>2, <2>3 DEF LogNow, TreeOf
<1> QED BY <1>2, <1>3 DEF IsLog

(* A new root makes known its log and those that it cannot be told from.    *)
LEMMA KnownGrows ==
    ASSUME NoCollisions, NEW d \in Depths, NEW leaves, NEW roots
    PROVE  KnownUnder(roots \cup {Root(leaves, d)})
             = KnownUnder(roots)
               \cup {l \in Logs!AllLogs : Alike(l, [depth |-> d, leaves |-> leaves])}
<1> DEFINE root == Root(leaves, d)
           new  == [depth |-> d, leaves |-> leaves]
           Log(e, s) == [depth |-> e, leaves |-> s]
<1>1. \A R, k : k \in KnownUnder(R)
                 <=> \E e \in Depths : \E s : k = Log(e, s) /\ s \in Contents(e) /\ Root(s, e) \in R
  BY DEF KnownUnder
<1>2. \A k : k \in Logs!AllLogs <=> \E e \in Depths : \E s : k = Log(e, s) /\ s \in Contents(e)
  <2>1. Logs!AllLogs = UNION {[depth : {e}, leaves : Contents(e)] : e \in Depths}
    BY DEF Logs!AllLogs, Contents
  <2>2. \A e, k : k \in [depth : {e}, leaves : Contents(e)]
                   <=> \E s : k = Log(e, s) /\ s \in Contents(e)
    OBVIOUS
  <2> QED BY <2>1, <2>2
<1>3. \A e \in Depths : \A s : Root(s, e) = root <=> Alike(Log(e, s), new)
  BY DepthsNat, SameRoot
<1> HIDE DEF root, new, Log
<1>4. \A k : k \in KnownUnder(roots \cup {root})
               <=> k \in KnownUnder(roots) \/ (k \in Logs!AllLogs /\ Alike(k, new))
  BY <1>1, <1>2, <1>3
<1>5. KnownUnder(roots \cup {root}) = KnownUnder(roots) \cup {l \in Logs!AllLogs : Alike(l, new)}
  BY <1>4
<1> QED BY <1>5 DEF root, new

LEMMA InsertIsOfLogs ==
    ASSUME NoCollisions, IInv, NEW d \in Depths, NEW leaf \in Leaf, Insert(d, leaf)
    PROVE  /\ LogNow' = [LogNow EXCEPT ![d] = IF Len(@) = 2 ^ d THEN <<leaf>> ELSE Append(@, leaf)]
           /\ KnownUnder(historicalRoots)'
                = KnownUnder(historicalRoots)
                  \cup {l \in Logs!AllLogs : Alike(l, [depth |-> d, leaves |-> LogNow'[d]])}
<1>1. PICK leaves : IsLog(activeSubTrees[d], leaves, d)
  BY DEF IInv
<1> DEFINE more == Append(IF Len(leaves) = 2 ^ d THEN <<>> ELSE leaves, leaf)
<1>2. /\ more # <<>> /\ TreeOf(activeSubTrees'[d], more, d)
      /\ \A e \in Depths \ {d} : activeSubTrees'[e] = activeSubTrees[e]
      /\ DOMAIN activeSubTrees' = Depths
  BY <1>1, InsertLogs
<1>3. LogNow[d] = leaves
  BY <1>1, LogIs
<1>4. more = IF Len(leaves) = 2 ^ d THEN <<leaf>> ELSE Append(leaves, leaf)
  <2>1. Append(<<>>, leaf) = <<leaf>>
    OBVIOUS
  <2> QED BY <2>1
<1> HIDE DEF more
<1>5. more \in Contents(d) /\ activeSubTrees'[d].root = Root(more, d)
  BY <1>2 DEF TreeOf
<1>6. LogNow'[d] = more
  <2>1. d \in Nat /\ 2 ^ d \in Nat
    BY DepthsNat, PowerOfTwo
  <2>2. more \in Seq(Leaf)
    BY <1>5, <2>1, ContentsAre
  <2>3. Len(more) # 0
    BY <1>2, <2>2
  <2>4. Opened(Root(more, d), d) = more
    BY <1>5, <2>1, RootOpens
  <2> QED BY <1>2, <2>3, <2>4 DEF LogNow, TreeOf
<1>7. \A e \in Depths \ {d} : LogNow'[e] = LogNow[e]
  BY <1>2 DEF LogNow
<1>8. LogNow' = [LogNow EXCEPT ![d] = more]
  <2>1. DOMAIN LogNow = Depths /\ DOMAIN LogNow' = Depths
    BY DEF LogNow
  <2>2. LogNow = [e \in Depths |-> LogNow[e]] /\ LogNow' = [e \in Depths |-> LogNow'[e]]
    BY DEF LogNow
  <2> QED BY <1>6, <1>7, <2>1, <2>2
<1>9. historicalRoots' = historicalRoots \cup {Root(more, d)}
  BY <1>5 DEF Insert
<1>10. KnownUnder(historicalRoots)' = KnownUnder(historicalRoots')
  BY DEF KnownUnder
<1>11. KnownUnder(historicalRoots')
         = KnownUnder(historicalRoots)
           \cup {l \in Logs!AllLogs : Alike(l, [depth |-> d, leaves |-> more])}
  BY <1>5, <1>9, KnownGrows
<1> QED BY <1>3, <1>4, <1>6, <1>8, <1>10, <1>11

(* For every set of depths, a range of trees is a range of logs: what its   *)
(* roots let prove is exactly what was inserted, in order, from each        *)
(* replacement on, whatever was replaced since and whatever the other trees *)
(* hold, and what is alike: the leaves of one tree are the roots of the     *)
(* subtrees of the other (insertLeaf, historicalRoots without a depth).     *)
THEOREM RangeImplementsLogs ==
    ASSUME NoCollisions
    PROVE  Spec => ImplementsLogs
<1>1. Init => Logs!Init
  <2> SUFFICES ASSUME Init PROVE Logs!Init
    OBVIOUS
  <2>1. \A d \in Depths : activeSubTrees[d].nextIndex = 0
    BY DEF Init, Uninitialized
  <2>2. KnownUnder(historicalRoots) = {}
    BY DEF Init, KnownUnder
  <2> QED BY <2>1, <2>2 DEF Logs!Init, KnownUnder
<1>2. IInv /\ [Next]_vars => [Logs!Next]_(Logs!vars)
  <2> SUFFICES ASSUME IInv, [Next]_vars PROVE [Logs!Next]_(Logs!vars)
    OBVIOUS
  <2>1. ASSUME NEW d \in Depths, NEW leaf \in Leaf, Insert(d, leaf) PROVE Logs!Insert(d, leaf)
    <3>1. /\ LogNow' = [LogNow EXCEPT ![d] = IF Len(@) = 2 ^ d THEN <<leaf>> ELSE Append(@, leaf)]
          /\ KnownUnder(historicalRoots)'
               = KnownUnder(historicalRoots)
                 \cup {l \in Logs!AllLogs : Alike(l, [depth |-> d, leaves |-> LogNow'[d]])}
      BY <2>1, InsertIsOfLogs
    <3> QED BY <3>1 DEF Logs!Insert, LogNow, KnownUnder
  <2>2. CASE UNCHANGED vars
    BY <2>2 DEF vars, Logs!vars
  <2> QED BY <2>1, <2>2 DEF Next, Logs!Next
<1> QED BY <1>1, <1>2, AlwaysIInv, PTL DEF Spec, ImplementsLogs, Logs!Spec

(* And that is not vacuous: pairs for hashes do not collide.                *)
LEMMA PairsDoNotCollide ==
    \A a, b, c, e : HashPair(a, b) = HashPair(c, e) => a = c /\ b = e
BY DEF HashPair
=============================================================================
