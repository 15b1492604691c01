--------------------------- MODULE PoseidonHasher ---------------------------
(***************************************************************************)
(* A call of the hasher contract: src/libraries/poseidon2/                  *)
(* poseidonHasher.huff and poseidonSponge.huff, from one jump to the next.  *)
(* The permutation runs macro by macro.  A jump takes the condition from    *)
(* the top of the stack.                                                    *)
(***************************************************************************)
EXTENDS PoseidonUtils

CONSTANTS Elements,         \* words that are hashed, also unreduced ones
          Indices,          \* of leaves
          MaxSisters, MaxInputs     \* bounds: the lengths of the arrays

(* Words are below WORD, and so are the addresses of a call's data and of   *)
(* the memory that it uses.                                                 *)
ASSUME HasherAssumption ==
    /\ Elements \subseteq 0..WORD-1 /\ Indices \subseteq 0..WORD-1
    /\ MaxSisters \in Nat /\ MaxInputs \in Nat
    /\ 32 * (MaxSisters + MaxInputs + 8) <= WORD
    /\ \A r \in 1..R_F : \A i \in 1..3 : FULL_ROUND_CONSTANTS[r][i] \in Nat
    /\ \A r \in 1..R_P : PARTIAL_ROUND_CONSTANTS[r] \in Nat

VARIABLES
    m,          \* the machine: stack, memory, and the call's data
    selector,   \* the function that is called
    pc,         \* the label that is executed next
    block,      \* the macro of the permutation that is next
    ret,        \* where the permutation returns to
    output      \* the returned words

vars == <<m, selector, pc, block, ret, output>>

(* The words of a call's data begin behind the selector's four bytes.       *)
Encoded(words) == [a \in {32 * k - 28 : k \in 1..Len(words)} |-> words[(a + 28) \div 32]]

(* The array of a call: its length and its elements.                        *)
Array(s) == <<Len(s)>> \o s

SeqsUpTo(S, lo, hi) == UNION {[1..n -> S] : n \in lo..hi}

MerkleCalls ==
    {[selector |-> "merkleHash", words |-> <<idx, input, 96>> \o Array(s)] :
        idx \in Indices, input \in Elements, s \in SeqsUpTo(Elements, 0, MaxSisters)}

(* Behaviour is undefined if the array is empty.                            *)
SpongeCalls ==
    {[selector |-> "spongeHash", words |-> <<32>> \o Array(s)] :
        s \in SeqsUpTo(Elements, 1, MaxInputs)}

Init ==
    /\ \E call \in MerkleCalls \cup SpongeCalls \cup {[selector |-> "other", words |-> <<>>]} :
         /\ selector = call.selector
         /\ m = [stack |-> <<>>, memory |-> <<>>, calldata |-> Encoded(call.words)]
    /\ pc = "MAIN" /\ block = 0 /\ ret = "" /\ output = <<>>

-----------------------------------------------------------------------------
Jump(label, machine) ==
    /\ pc' = label /\ m' = machine
    /\ UNCHANGED <<selector, block, ret, output>>

Permute(machine, label) ==
    /\ pc' = "POSEIDON_PERM" /\ block' = 1 /\ ret' = label /\ m' = machine
    /\ UNCHANGED <<selector, output>>

Return(machine) ==          \* takes [offset, size]
    LET offset == machine.stack[1]
    IN  /\ output' = [k \in 1..machine.stack[2] \div 32 |->
                         Load(machine.memory, offset + 32 * (k - 1))]
        /\ pc' = "returned" /\ m' = machine
        /\ UNCHANGED <<selector, block, ret>>

(* What a condition leaves on top of the stack.                             *)
Holds(machine, test) == Run(machine, test).stack[1] # 0

LOWEST_BIT == <<push(1), and>>

-----------------------------------------------------------------------------
MAIN ==
    /\ pc = "MAIN"
    /\ Jump(CASE selector = "merkleHash" -> "MERKLE_HASH"
              [] selector = "spongeHash" -> "SPONGE_HASH"
              [] OTHER -> "reverted", m)

POSEIDON_PERM ==
    /\ pc = "POSEIDON_PERM"
    /\ m' = Run(m, generate_huff_code[block])
    /\ IF block < Len(generate_huff_code)
       THEN block' = block + 1 /\ UNCHANGED pc
       ELSE block' = 0 /\ pc' = ret
    /\ UNCHANGED <<selector, ret, output>>

(* merkleHash(idx, input, sisterNodes)                                      *)
MERKLE_HASH ==
    /\ pc = "MERKLE_HASH"
    /\ Jump("loopStart",
            Run(m, <<push(64), push(4), calldataload, push(36), calldataload,
                     push(68), calldataload,
                     push(4), add, dup(1), calldataload, swap(1), push(32), add, swap(1),
                     push(32), push(0), mstore,
                     dup(1), push(1), add, push(32), mstore,
                     swap(4), dup(3), dup(2), mstore, push(32), add, swap(4)>>))

HASH_MERKLE_LEVEL ==        \* up to the permutation
    <<dup(2), push(32), add, swap(3), swap(2), calldataload,
      dup(2), push(1), shr, swap(4), swap(3)>>

HASH_TWO_LEAVES(machine) ==
    LET test == Run(machine, <<swap(2)>> \o LOWEST_BIT)
        taken == Run(test, <<pop>>)
    IN  Run(IF test.stack[1] # 0 THEN taken ELSE Run(taken, <<swap(1)>>),
            POSEIDON_TWO_TO_ONE)

MerkleLevel ==
    /\ pc = "loopStart"
    /\ ~Holds(m, <<dup(1), push(0), eq>>)
    /\ Permute(HASH_TWO_LEAVES(Run(m, <<swap(4), swap(3)>> \o HASH_MERKLE_LEVEL)), "store")

HASH_AND_STORE_MERKLE_LEVEL ==
    /\ pc = "store"
    /\ Jump("loopStart",
            Run(m, POSEIDON_TWO_TO_ONE_RESULT \o <<swap(1)>>
                     \o <<swap(1), swap(2), swap(3), dup(3), dup(2), mstore, push(32), add>>
                     \o <<swap(4), push(1), swap(1), sub>>))

MerkleReturn ==
    /\ pc = "loopStart"
    /\ Holds(m, <<dup(1), push(0), eq>>)
    /\ Return(Run(m, <<push(32), mload, push(32), mul, push(64), add, push(0)>>))

-----------------------------------------------------------------------------
(* spongeHash(inputs)                                                       *)
SPONGE_HASH ==
    /\ pc = "SPONGE_HASH"
    /\ Jump("absorb",
            Run(m, <<push(4), calldataload, push(4), add, dup(1), calldataload,
                     dup(2), push(32), add, swap(2), pop,
                     push(0), push(0), push(0)>>))

ABSORB_NEXT_TWO ==
    <<push(2), dup(5), sub, swap(4), pop,
      dup(5), dup(1), calldataload, swap(1), push(32), add,
      dup(1), calldataload, swap(1), push(32), add, swap(7), pop,
      dup(5), PUSH_PRIME, swap(2), addmod, swap(4), pop,
      dup(3), PUSH_PRIME, swap(2), addmod, swap(2), pop>>

\* A slip: the last input goes where the second of a pair does.
lastInput_second ==
    <<dup(5), calldataload, dup(4), PUSH_PRIME, swap(2), addmod, swap(3), pop>>

lastInput ==
    <<dup(5), calldataload, dup(3), PUSH_PRIME, swap(2), addmod, swap(2), pop>>

(* At the start, and after each permutation of the loop.                    *)
Absorb ==
    /\ pc = "absorb"
    /\ IF Holds(m, <<dup(4), push(1), eq>>)
       THEN Permute(Run(m, lastInput), "squeezed")
       ELSE Jump("allAbsorbed?", Run(m, ABSORB_NEXT_TWO))

AbsorbLoop ==
    /\ pc = "allAbsorbed?"
    /\ Permute(m, IF Holds(m, <<dup(4), push(0), eq>>) THEN "squeezed" ELSE "absorb")

POSEIDON_SPONGE_SQUEEZE ==
    /\ pc = "squeezed"
    /\ Return(Run(m, <<dup(2)>> \o <<push(0), mstore, push(32), push(0)>>))

Next ==
    \/ MAIN \/ POSEIDON_PERM
    \/ MERKLE_HASH \/ MerkleLevel \/ HASH_AND_STORE_MERKLE_LEVEL \/ MerkleReturn
    \/ SPONGE_HASH \/ Absorb \/ AbsorbLoop \/ POSEIDON_SPONGE_SQUEEZE

Spec == Init /\ [][Next]_vars

-----------------------------------------------------------------------------
(* The reference: Poseidon2 over the field, for a state of three elements.  *)
Dot(row, s) == (row[1] * s[1] + row[2] * s[2] + row[3] * s[3]) % PRIME
Matrix(rows, s) == <<Dot(rows[1], s), Dot(rows[2], s), Dot(rows[3], s)>>

External(s) == Matrix(<<<<2, 1, 1>>, <<1, 2, 1>>, <<1, 1, 2>>>>, s)
Internal(s) == Matrix(<<<<2, 1, 1>>, <<1, 2, 1>>, <<1, 1, 3>>>>, s)

Times(x, y) == (x * y) % PRIME
Fifth(x) == LET y == x % PRIME IN Times(y, Times(Times(y, y), Times(y, y)))

FullRound(rc, s)    == External(<<Fifth(s[1] + rc[1]), Fifth(s[2] + rc[2]), Fifth(s[3] + rc[3])>>)
PartialRound(rc, s) == Internal(<<Fifth(s[1] + rc), s[2], s[3]>>)

(* The k-th step of the permutation.                                        *)
Round(k, s) ==
    LET half == R_F \div 2
        r    == k - 1
    IN  CASE r = 0 -> External(s)
          [] r \in 1..half -> FullRound(FULL_ROUND_CONSTANTS[r], s)
          [] r \in half + 1..half + R_P -> PartialRound(PARTIAL_ROUND_CONSTANTS[r - half], s)
          [] OTHER -> FullRound(FULL_ROUND_CONSTANTS[r - R_P], s)

Permutation(s) ==
    LET state[k \in 0..R_F + R_P + 1] == IF k = 0 THEN s ELSE Round(k, state[k-1])
    IN  state[R_F + R_P + 1]

TwoToOne(left, right) == Permutation(<<0, left, right>>)[2]

(* The sponge of rate two: a permutation before every third, fifth, ...     *)
(* input, and one at the end.                                               *)
SpongeOf(inputs) ==
    LET AbsorbAt(s, k) ==
            IF k % 2 = 0 THEN <<s[1], s[2], (s[3] + inputs[k]) % PRIME>>
            ELSE <<s[1], (s[2] + inputs[k]) % PRIME, s[3]>>
        absorbed[k \in 0..Len(inputs)] ==
            IF k = 0 THEN <<0, 0, 0>>
            ELSE AbsorbAt(IF k > 1 /\ k % 2 = 1 THEN Permutation(absorbed[k-1])
                          ELSE absorbed[k-1], k)
    IN  Permutation(absorbed[Len(inputs)])[2]

Tree == INSTANCE MerkleTreeLib WITH
            Leaf <- Elements, ZERO_VALUE <- WORD, MERKLE_DEPTH <- MaxSisters, Hash <- TwoToOne

(* The call's arguments, read back from its data.                           *)
Word(k) == m.calldata[32 * k - 28]
ArrayAt(k) == [i \in 1..Word(k) |-> Word(k + i)]

(* What the function that is called is to return.                           *)
Expected ==
    IF selector = "merkleHash"
    THEN LET sisters == ArrayAt(4)
             hashes  == Tree!merkleHash(Word(1), Word(2),
                                        [h \in 0..Len(sisters) - 1 |-> sisters[h + 1]],
                                        Len(sisters))
         IN  <<32>> \o Array([k \in 1..Len(sisters) + 1 |-> hashes[k - 1]])
    ELSE <<SpongeOf(ArrayAt(2))>>

(* A call returns the hashes of the reference, whatever is reduced or not   *)
(* in its inputs: of merkleHash, the leaf as it was given and all nodes     *)
(* above it, encoded as an array, on the sides that the bits of the index   *)
(* say; of spongeHash, for odd and even numbers of inputs, the first        *)
(* squeezed element.                                                        *)
ReturnsReference == pc = "returned" => output = Expected

(* Each macro of the permutation is a step of the reference's on the three  *)
(* words at the top of the stack, reduced or not, and what lies below is    *)
(* kept for the loops that called it: "the state is always the first three  *)
(* words of the stack" (generate_huff_code).                                *)
StateIsOnTop ==
    [][pc = "POSEIDON_PERM" =>
        /\ SubSeq(m'.stack, 1, 3) = Round(block, SubSeq(m.stack, 1, 3))
        /\ SubSeq(m'.stack, 4, Len(m'.stack)) = SubSeq(m.stack, 4, Len(m.stack))]_vars
=============================================================================
