--------------------------- MODULE PoseidonUtils ---------------------------
(***************************************************************************)
(* The Huff macros of src/libraries/poseidon2/poseidonUtils.huff, as the    *)
(* instructions they stand for, what these do to the stack and the memory   *)
(* of a call, and the permutation that codegen/poseidon-constants writes    *)
(* out of them.  The first element of a stack is its top, as in the         *)
(* comments of the source.  A word is a number below WORD.                  *)
(***************************************************************************)
EXTENDS Naturals, Sequences

CONSTANTS PRIME, WORD,
          R_F, R_P,                 \* full and partial rounds
          FULL_ROUND_CONSTANTS,     \* of a round: one for each element
          PARTIAL_ROUND_CONSTANTS

ASSUME PoseidonAssumption ==
    /\ PRIME \in Nat \ {0} /\ WORD \in Nat /\ PRIME < WORD
    /\ R_F \in Nat /\ R_P \in Nat

-----------------------------------------------------------------------------
(* Instructions.                                                            *)
push(w) == [op |-> "push", arg |-> w]
dup(n)  == [op |-> "dup",  arg |-> n]
swap(n) == [op |-> "swap", arg |-> n]
pop     == [op |-> "pop"]
mstore  == [op |-> "mstore"]
mload   == [op |-> "mload"]
calldataload == [op |-> "calldataload"]
addmod  == [op |-> "addmod"]
mulmod  == [op |-> "mulmod"]
add     == [op |-> "add"]
sub     == [op |-> "sub"]
mul     == [op |-> "mul"]
shr     == [op |-> "shr"]
eq      == [op |-> "eq"]
and     == [op |-> "and"]            \* used with the mask 1 only

Modulo(x, n) == IF n = 0 THEN 0 ELSE x % n

Binary(op, x, y) ==
    CASE op = "add" -> (x + y) % WORD
      [] op = "sub" -> (WORD + x - y) % WORD
      [] op = "mul" -> (x * y) % WORD
      [] op = "shr" -> y \div 2 ^ x
      [] op = "eq"  -> IF x = y THEN 1 ELSE 0
      [] op = "and" -> IF x = 1 THEN y % 2 ELSE x % 2

Load(memory, at) == IF at \in DOMAIN memory THEN memory[at] ELSE 0

Store(memory, at, word) ==
    [a \in DOMAIN memory \cup {at} |-> IF a = at THEN word ELSE memory[a]]

(* One instruction.  m: the stack, the memory and the call's data.          *)
Exec(m, i) ==
    LET s == m.stack
        Replace(n, w) == [m EXCEPT !.stack = <<w>> \o SubSeq(s, n + 1, Len(s))]
    IN  CASE i.op = "push"   -> Replace(0, i.arg)
          [] i.op = "dup"    -> Replace(0, s[i.arg])
          [] i.op = "swap"   -> [m EXCEPT !.stack[1] = s[i.arg + 1], !.stack[i.arg + 1] = s[1]]
          [] i.op = "pop"    -> [m EXCEPT !.stack = Tail(s)]
          [] i.op = "addmod" -> Replace(3, Modulo(s[1] + s[2], s[3]))
          [] i.op = "mulmod" -> Replace(3, Modulo(s[1] * s[2], s[3]))
          [] i.op = "mload"  -> Replace(1, Load(m.memory, s[1]))
          [] i.op = "calldataload" -> Replace(1, Load(m.calldata, s[1]))
          [] i.op = "mstore" -> [m EXCEPT !.stack = SubSeq(s, 3, Len(s)),
                                          !.memory = Store(@, s[1], s[2])]
          [] OTHER           -> Replace(2, Binary(i.op, s[1], s[2]))

Run(m, code) ==
    LET after[k \in 0..Len(code)] == IF k = 0 THEN m ELSE Exec(after[k-1], code[k])
    IN  after[Len(code)]

-----------------------------------------------------------------------------
PUSH_PRIME == push(PRIME)

ADD_RC(rc) == <<push(rc), addmod>>

SBOX == <<dup(2), dup(1), dup(3), dup(1), mulmod, dup(1), mulmod, mulmod>>

SUM_FIRST_THREE ==
    <<PUSH_PRIME, dup(4), dup(4), dup(4), PUSH_PRIME, swap(2), addmod, addmod>>

INTERNAL_MDS ==
    SUM_FIRST_THREE
      \o <<PUSH_PRIME, dup(2), PUSH_PRIME, dup(7), dup(1), addmod, addmod, swap(4), pop,
           PUSH_PRIME, dup(2), dup(5), addmod, swap(3), pop,
           PUSH_PRIME, swap(2), addmod>>

EXTERNAL_MDS ==
    SUM_FIRST_THREE
      \o <<PUSH_PRIME, dup(2), dup(6), addmod, swap(4), pop,
           PUSH_PRIME, dup(2), dup(5), addmod, swap(3), pop,
           PUSH_PRIME, swap(2), addmod>>

\* A slip: the state's elements are taken from the top, which reverses them.
EXTERNAL_ROUND_reversed(rc) ==
    LET Element(n, c) ==
            <<PUSH_PRIME, dup(n)>> \o ADD_RC(c) \o <<PUSH_PRIME, swap(1)>> \o SBOX
    IN  Element(2, rc[1]) \o Element(4, rc[2]) \o Element(6, rc[3])
          \o <<swap(3), pop, swap(3), pop, swap(3), pop>> \o EXTERNAL_MDS

EXTERNAL_ROUND(rc) ==
    LET Element(n, c) ==
            <<PUSH_PRIME, dup(n)>> \o ADD_RC(c) \o <<PUSH_PRIME, swap(1)>> \o SBOX
    IN  Element(4, rc[3]) \o Element(4, rc[2]) \o Element(4, rc[1])
          \o <<swap(3), pop, swap(3), pop, swap(3), pop>> \o EXTERNAL_MDS

INTERNAL_ROUND(rc) ==
    <<PUSH_PRIME, swap(1)>> \o ADD_RC(rc) \o <<PUSH_PRIME, swap(1)>> \o SBOX \o INTERNAL_MDS

POSEIDON_TWO_TO_ONE == <<push(0)>>                  \* what precedes the permutation,
POSEIDON_TWO_TO_ONE_RESULT == <<pop, swap(1), pop>> \* and what follows

-----------------------------------------------------------------------------
(* The generated code of the permutation, macro by macro.                   *)
HALF_FULL == R_F \div 2

generate_full_round(i) == EXTERNAL_ROUND(FULL_ROUND_CONSTANTS[i])

generate_partial_round(i) == INTERNAL_ROUND(PARTIAL_ROUND_CONSTANTS[i])

generate_huff_code ==
    <<EXTERNAL_MDS>>
      \o [i \in 1..HALF_FULL |-> generate_full_round(i)]
      \o [i \in 1..R_P |-> generate_partial_round(i)]
      \o [i \in 1..R_F - HALF_FULL |-> generate_full_round(HALF_FULL + i)]
=============================================================================
