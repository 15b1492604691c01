------------------------ MODULE PoseidonHasher_proofs ------------------------
(***************************************************************************)
(* What a call of the hasher returns, for every modulus, every number of   *)
(* rounds, all round constants and arrays of any length. The macros are    *)
(* run symbolically: a lemma for each instruction says what it does to a   *)
(* stack of which the first words are known, and a macro is a chain of     *)
(* them. The three words at the top then follow the rounds of the          *)
(* reference (RoundRuns), and the two loops have invariants (MerkleInv,    *)
(* SpongeInv) that say what stands at each position of the stack and of    *)
(* the memory before and after every jump.                                 *)
(***************************************************************************)
EXTENDS PoseidonHasher, RunningTotals_proofs

(* A sequence of any elements; a word pushed on a stack; a machine.         *)
IsSeq(s) == \E S : s \in Seq(S)
Cons(x, s) == <<x>> \o s
Machine(s, mem, data) == [stack |-> s, memory |-> mem, calldata |-> data]

(* Its words, and those from any position on.                               *)
LEMMA ConsFacts ==
    ASSUME NEW s, IsSeq(s), NEW x
    PROVE  /\ IsSeq(Cons(x, s)) /\ Len(Cons(x, s)) = Len(s) + 1
           /\ Len(s) \in Nat
           /\ Cons(x, s)[1] = x
           /\ \A i \in 1..Len(s) : Cons(x, s)[i + 1] = s[i]
           /\ Tail(Cons(x, s)) = s
           /\ SubSeq(Cons(x, s), 1, Len(Cons(x, s))) = Cons(x, s)
           /\ SubSeq(s, 1, Len(s)) = s
           /\ \A i \in Nat : SubSeq(Cons(x, s), i + 2, Len(Cons(x, s))) = SubSeq(s, i + 1, Len(s))
<1>1. PICK S : s \in Seq(S)
  BY DEF IsSeq
<1> DEFINE T == S \cup {x}
<1>2. s \in Seq(T) /\ <<x>> \in Seq(T)
  BY <1>1
<1> HIDE DEF T
<1>3. Cons(x, s) \in Seq(T) /\ Len(Cons(x, s)) = Len(s) + 1 /\ Cons(x, s)[1] = x
  BY <1>2 DEF Cons
<1>4. \A i \in 1..Len(s) : Cons(x, s)[i + 1] = s[i]
  BY <1>2 DEF Cons
<1>5. Tail(Cons(x, s)) = s
  BY <1>2, <1>3, <1>4 DEF Cons
<1>6. SubSeq(Cons(x, s), 1, Len(Cons(x, s))) = Cons(x, s)
  BY <1>3
<1>7. SubSeq(s, 1, Len(s)) = s
  BY <1>2
<1>8. ASSUME NEW i \in Nat
      PROVE SubSeq(Cons(x, s), i + 2, Len(Cons(x, s))) = SubSeq(s, i + 1, Len(s))
  BY <1>2, <1>3, <1>4
<1> QED BY <1>2, <1>3, <1>4, <1>5, <1>6, <1>7, <1>8 DEF IsSeq

LEMMA ConsAt ==
    ASSUME NEW s, IsSeq(s), NEW x PROVE \A i \in 1..Len(s) : Cons(x, s)[i + 1] = s[i]
BY ConsFacts

(* A run is one machine after another: the recursive function exists.       *)
LEMMA RunsExist ==
    ASSUME NEW m0, NEW code, IsSeq(code)
    PROVE  \E after : /\ after = [k \in 0..Len(code) |->
                                    IF k = 0 THEN m0 ELSE Exec(after[k-1], code[k])]
                      /\ Run(m0, code) = after[Len(code)]
<1> DEFINE IsRec(g) == g = [k \in 0..Len(code) |-> IF k = 0 THEN m0 ELSE Exec(g[k-1], code[k])]
           IsRun(g, n) == g = [k \in 0..n |-> IF k = 0 THEN m0 ELSE Exec(g[k-1], code[k])]
           Without == {n \in 0..Len(code) : ~ \E g : IsRun(g, n)}
<1>0. Len(code) \in Nat
  BY DEF IsSeq
<1>1. \E g : IsRec(g)
  <2> SUFFICES ASSUME Without # {} PROVE FALSE
    BY <1>0
  <2>2. PICK n \in Without : \A k \in Without : n <= k
    <3>1. Without \in SUBSET Nat
      BY <1>0
    <3> HIDE DEF Without
    <3> QED BY <3>1, Least
  <2>3. CASE n = 0
    <3>1. IsRun([k \in 0..0 |-> m0], 0)
      OBVIOUS
    <3> QED BY <2>3, <3>1
  <2>4. CASE n # 0
    <3>1. n - 1 \in 0..Len(code) /\ n - 1 \notin Without
      BY <2>2, <2>4, <1>0
    <3>2. PICK g : IsRun(g, n - 1)
      BY <3>1
    <3> DEFINE h == [k \in 0..n |-> IF k = n THEN Exec(g[n-1], code[n]) ELSE g[k]]
    <3>3. IsRun(h, n)
      BY <1>0, <2>2, <2>4, <3>2
    <3> QED BY <3>3
  <2> QED BY <2>3, <2>4
<1>2. PICK h : IsRec(h) /\ Run(m0, code) = h[Len(code)]
  BY <1>1 DEF Run
<1> QED BY <1>2

LEMMA SeqConcat ==
    ASSUME NEW s, IsSeq(s), NEW t, IsSeq(t)
    PROVE  /\ IsSeq(s \o t) /\ Len(s \o t) = Len(s) + Len(t)
           /\ Len(s) \in Nat /\ Len(t) \in Nat
           /\ \A i \in 1..Len(s) : (s \o t)[i] = s[i]
           /\ \A i \in 1..Len(t) : (s \o t)[Len(s) + i] = t[i]
<1>1. PICK S : s \in Seq(S)
  BY DEF IsSeq
<1>2. PICK T : t \in Seq(T)
  BY DEF IsSeq
<1>3. s \in Seq(S \cup T) /\ t \in Seq(S \cup T)
  BY <1>1, <1>2
<1>4. s \o t \in Seq(S \cup T)
  BY <1>3
<1> QED BY <1>3, <1>4 DEF IsSeq

(* Code that follows other code.                                            *)
LEMMA RunConcat ==
    ASSUME NEW m0, NEW first, IsSeq(first), NEW second, IsSeq(second)
    PROVE  Run(m0, first \o second) = Run(Run(m0, first), second)
<1> DEFINE n == Len(first)
           l == Len(second)
           code == first \o second
<1>1. /\ n \in Nat /\ l \in Nat /\ IsSeq(code) /\ Len(code) = n + l
      /\ \A i \in 1..n : code[i] = first[i]
      /\ \A i \in 1..l : code[n + i] = second[i]
  BY SeqConcat
<1> HIDE DEF code
<1>2. PICK g : /\ g = [k \in 0..Len(code) |-> IF k = 0 THEN m0 ELSE Exec(g[k-1], code[k])]
               /\ Run(m0, code) = g[Len(code)]
  BY <1>1, RunsExist
<1>3. PICK f : /\ f = [k \in 0..n |-> IF k = 0 THEN m0 ELSE Exec(f[k-1], first[k])]
               /\ Run(m0, first) = f[n]
  BY RunsExist
<1>4. PICK h : /\ h = [k \in 0..l |-> IF k = 0 THEN Run(m0, first) ELSE Exec(h[k-1], second[k])]
               /\ Run(Run(m0, first), second) = h[l]
  BY RunsExist
<1> HIDE DEF n, l
<1> DEFINE Same == {k \in 0..n : g[k] = f[k]}
           Then == {k \in 0..l : g[n + k] = h[k]}
<1>5. \A k \in 0..n : k \in Same
  <2>1. 0 \in Same
    BY <1>1, <1>2, <1>3
  <2>2. ASSUME NEW k \in 0..n-1, k \in Same PROVE k + 1 \in Same
    <3>1. k + 1 \in 1..n /\ k + 1 \in 0..n + l /\ (k + 1) - 1 = k /\ k + 1 # 0
      BY <1>1
    <3>2. g[k + 1] = Exec(g[k], code[k + 1])
      BY <1>1, <1>2, <3>1
    <3>3. f[k + 1] = Exec(f[k], first[k + 1])
      BY <1>1, <1>3, <3>1
    <3> QED BY <1>1, <2>2, <3>1, <3>2, <3>3
  <2> HIDE DEF Same
  <2> QED BY <1>1, <2>1, <2>2, UpTo
<1>6. \A k \in 0..l : k \in Then
  <2>1. 0 \in Then
    <3>1. g[n] = f[n]
      BY <1>1, <1>5
    <3> QED BY <1>1, <1>3, <1>4, <3>1
  <2>2. ASSUME NEW k \in 0..l-1, k \in Then PROVE k + 1 \in Then
    <3>1. /\ k + 1 \in 1..l /\ n + (k + 1) \in 0..n + l /\ (k + 1) - 1 = k /\ k + 1 # 0
          /\ (n + (k + 1)) - 1 = n + k /\ n + (k + 1) # 0
      BY <1>1
    <3>2. g[n + (k + 1)] = Exec(g[n + k], code[n + (k + 1)])
      BY <1>1, <1>2, <3>1
    <3>3. h[k + 1] = Exec(h[k], second[k + 1])
      BY <1>1, <1>4, <3>1
    <3> QED BY <1>1, <2>2, <3>1, <3>2, <3>3
  <2> HIDE DEF Then
  <2> QED BY <1>1, <2>1, <2>2, UpTo
<1>7. g[n + l] = h[l]
  BY <1>1, <1>6
<1> QED BY <1>1, <1>2, <1>4, <1>7 DEF code

(* No code, and one instruction before more code.                           *)
LEMMA EmptyIsSeq == IsSeq(<<>>)
BY DEF IsSeq

LEMMA RunNothing ==
    ASSUME NEW m0 PROVE Run(m0, <<>>) = m0
<1>1. IsSeq(<<>>) /\ Len(<<>>) = 0
  BY DEF IsSeq
<1> QED BY <1>1, RunsExist

LEMMA RunCons ==
    ASSUME NEW m0, NEW i, NEW code, IsSeq(code)
    PROVE  Run(m0, Cons(i, code)) = Run(Exec(m0, i), code)
<1> DEFINE one == <<i>>
<1>1. IsSeq(one) /\ Len(one) = 1 /\ one[1] = i
  <2>1. one \in Seq({i})
    OBVIOUS
  <2> QED BY <2>1 DEF IsSeq
<1>2. Cons(i, code) = one \o code
  BY DEF Cons
<1> HIDE DEF one
<1>3. PICK f : /\ f = [k \in 0..Len(one) |-> IF k = 0 THEN m0 ELSE Exec(f[k-1], one[k])]
               /\ Run(m0, one) = f[Len(one)]
  BY <1>1, RunsExist
<1>4. Run(m0, one) = Exec(m0, i)
  BY <1>1, <1>3
<1> QED BY <1>1, <1>2, <1>4, RunConcat

(* A sequence from its k-th element.                                        *)
From(c, k) == SubSeq(c, k, Len(c))
LEMMA Unfold ==
    ASSUME NEW S, NEW c \in Seq(S)
    PROVE  /\ From(c, 1) = c
           /\ \A n \in Nat : n > Len(c) => From(c, n) = <<>>
           /\ \A k, n \in Nat : k \in 1..Len(c) /\ n = k + 1 =>
                                 From(c, k) = Cons(c[k], From(c, n))
<1>1. From(c, 1) = c /\ \A n \in Nat : n > Len(c) => From(c, n) = <<>>
  BY DEF From
<1>2. ASSUME NEW k \in 1..Len(c) PROVE From(c, k) = Cons(c[k], From(c, k + 1))
  <2>1. /\ From(c, k) \in Seq(S) /\ Len(From(c, k)) = Len(c) - k + 1
        /\ \A i \in 1..Len(c) - k + 1 : From(c, k)[i] = c[k + i - 1]
    BY DEF From
  <2>2. /\ From(c, k + 1) \in Seq(S) /\ Len(From(c, k + 1)) = Len(c) - k
        /\ \A i \in 1..Len(c) - k : From(c, k + 1)[i] = c[k + 1 + i - 1]
    BY DEF From
  <2> DEFINE t == From(c, k + 1)
  <2>3. IsSeq(t)
    BY <2>2 DEF IsSeq
  <2> HIDE DEF t, From
  <2>4. /\ Len(Cons(c[k], t)) = Len(t) + 1 /\ IsSeq(Cons(c[k], t))
        /\ Cons(c[k], t)[1] = c[k]
        /\ \A i \in 1..Len(t) : Cons(c[k], t)[i + 1] = t[i]
    BY <2>3, ConsFacts
  <2>5. Cons(c[k], t) \in Seq(S)
    <3>1. c[k] \in S
      OBVIOUS
    <3> QED BY <3>1, <2>2 DEF Cons, t
  <2>6. Len(t) = Len(c) - k /\ \A i \in 1..Len(t) : t[i] = c[k + i]
    BY <2>2 DEF t
  <2>7. ASSUME NEW i \in 1..Len(c) - k + 1 PROVE From(c, k)[i] = Cons(c[k], t)[i]
    <3>1. CASE i = 1
      BY <3>1, <2>1, <2>4
    <3>2. CASE i # 1
      <4>1. i - 1 \in 1..Len(t) /\ (i - 1) + 1 = i /\ k + (i - 1) = k + i - 1
        BY <3>2, <2>6
      <4>2. Cons(c[k], t)[i] = t[i - 1]
        BY <4>1, <2>4
      <4> QED BY <4>1, <4>2, <2>1, <2>6
    <3> QED BY <3>1, <3>2
  <2>8. Len(Cons(c[k], t)) = Len(c) - k + 1
    BY <2>4, <2>6
  <2> QED BY <2>1, <2>5, <2>7, <2>8 DEF t
<1> QED BY <1>1, <1>2

(* A code's instructions, the words that it pushes being in W.              *)
Instructions(W) ==
    {mstore, mload, calldataload, pop, addmod, mulmod, add, sub, mul, shr, eq, and}
      \cup {dup(n) : n \in 1..7} \cup {swap(n) : n \in 1..7} \cup {push(w) : w \in W}

LEMMA CodeFrom ==
    ASSUME NEW W, NEW c \in Seq(Instructions(W)), NEW l, Len(c) = l
    PROVE  /\ From(c, 1) = c
           /\ \A n \in Nat : n > l => From(c, n) = <<>>
           /\ \A k, n \in Nat : k \in 1..l /\ n = k + 1 => From(c, k) = Cons(c[k], From(c, n))
BY Unfold

LEMMA ConsIsSeq ==
    ASSUME NEW s, IsSeq(s), NEW x PROVE IsSeq(Cons(x, s))
BY ConsFacts

(* w is the n-th word of t, and r is what follows the n-th word.            *)
Nth(t, n, w)  == IsSeq(t) /\ n \in 1..Len(t) /\ t[n] = w
Rest(t, n, r) == IsSeq(t) /\ n \in 0..Len(t) /\ SubSeq(t, n + 1, Len(t)) = r

LEMMA NthFirst ==
    ASSUME NEW s, IsSeq(s), NEW x PROVE Nth(Cons(x, s), 1, x)
<1>1. Len(Cons(x, s)) \in Nat \ {0} /\ Cons(x, s)[1] = x /\ IsSeq(Cons(x, s))
  BY ConsFacts
<1> QED BY <1>1 DEF Nth

LEMMA NthDeeper ==
    ASSUME NEW s, NEW x, NEW w, NEW n \in Nat, Nth(s, n - 1, w) PROVE Nth(Cons(x, s), n, w)
<1>1. /\ n - 1 \in 1..Len(s) /\ (n - 1) + 1 = n
      /\ Len(Cons(x, s)) = Len(s) + 1 /\ IsSeq(Cons(x, s)) /\ Len(s) \in Nat
      /\ \A i \in 1..Len(s) : Cons(x, s)[i + 1] = s[i]
  BY ConsFacts DEF Nth
<1>2. n \in 1..Len(s) + 1 /\ Cons(x, s)[n] = s[n - 1]
  BY <1>1
<1> QED BY <1>1, <1>2 DEF Nth

LEMMA RestAll ==
    ASSUME NEW s, IsSeq(s) PROVE Rest(s, 0, s)
<1>1. Len(s) \in Nat /\ SubSeq(s, 1, Len(s)) = s
  BY ConsFacts
<1> QED BY <1>1 DEF Rest

LEMMA RestDeeper ==
    ASSUME NEW s, NEW x, NEW r, NEW n \in Nat, Rest(s, n - 1, r) PROVE Rest(Cons(x, s), n, r)
<1>1. /\ n - 1 \in 0..Len(s) /\ (n - 1) + 1 = n /\ (n - 1) + 2 = n + 1
      /\ Len(Cons(x, s)) = Len(s) + 1 /\ IsSeq(Cons(x, s)) /\ Len(s) \in Nat
      /\ \A i \in Nat : SubSeq(Cons(x, s), i + 2, Len(Cons(x, s))) = SubSeq(s, i + 1, Len(s))
  BY ConsFacts DEF Rest
<1>2. n \in 0..Len(s) + 1 /\ SubSeq(Cons(x, s), n + 1, Len(Cons(x, s))) = SubSeq(s, n, Len(s))
  <2>1. n - 1 \in Nat
    BY <1>1
  <2>2. SubSeq(Cons(x, s), (n - 1) + 2, Len(Cons(x, s))) = SubSeq(s, (n - 1) + 1, Len(s))
    BY <1>1, <2>1
  <2>3. n \in 0..Len(s) + 1
    BY <1>1
  <2> QED BY <1>1, <2>2, <2>3
<1> QED BY <1>1, <1>2 DEF Rest

-----------------------------------------------------------------------------
(* What an instruction does to a machine.                                   *)
AddMod(a, b, n) == Modulo(a + b, n)
MulMod(a, b, n) == Modulo(a * b, n)

LEMMA ExecPush ==
    ASSUME NEW s, IsSeq(s), NEW mem, NEW cd, NEW w
    PROVE  Exec(Machine(s, mem, cd), push(w)) = Machine(Cons(w, s), mem, cd)
<1>1. SubSeq(s, 1, Len(s)) = s
  BY ConsFacts
<1>2. Exec(Machine(s, mem, cd), push(w)) = Machine(Cons(w, SubSeq(s, 1, Len(s))), mem, cd)
  <2>1. push(w).op = "push" /\ push(w).arg = w
    BY DEF push
  <2>2. Machine(s, mem, cd).stack = s
    BY DEF Machine
  <2>3. Exec(Machine(s, mem, cd), push(w))
          = [Machine(s, mem, cd) EXCEPT !.stack = <<w>> \o SubSeq(s, 1, Len(s))]
    BY <2>1, <2>2 DEF Exec
  <2> QED BY <2>3 DEF Machine, Cons
<1> QED BY <1>1, <1>2

LEMMA ExecPop ==
    ASSUME NEW s, IsSeq(s), NEW mem, NEW cd, NEW a
    PROVE  Exec(Machine(Cons(a, s), mem, cd), pop) = Machine(s, mem, cd)
<1>1. Tail(Cons(a, s)) = s
  BY ConsFacts
<1> QED BY <1>1 DEF Exec, pop, Machine

LEMMA ExecDup ==
    ASSUME NEW t, NEW mem, NEW cd, NEW n, NEW w, Nth(t, n, w)
    PROVE  Exec(Machine(t, mem, cd), dup(n)) = Machine(Cons(w, t), mem, cd)
<1>1. SubSeq(t, 1, Len(t)) = t
  BY ConsFacts DEF Nth
<1>2. Exec(Machine(t, mem, cd), dup(n)) = Machine(Cons(t[n], SubSeq(t, 1, Len(t))), mem, cd)
  <2>1. dup(n).op = "dup" /\ dup(n).arg = n
    BY DEF dup
  <2>2. Machine(t, mem, cd).stack = t
    BY DEF Machine
  <2>3. Exec(Machine(t, mem, cd), dup(n))
          = [Machine(t, mem, cd) EXCEPT !.stack = <<t[n]>> \o SubSeq(t, 1, Len(t))]
    BY <2>1, <2>2 DEF Exec
  <2> QED BY <2>3 DEF Machine, Cons
<1> QED BY <1>1, <1>2 DEF Nth

LEMMA ExecDup1 ==
    ASSUME NEW s, IsSeq(s), NEW mem, NEW cd, NEW a
    PROVE  Exec(Machine(Cons(a, s), mem, cd), dup(1))
             = Machine(Cons(a, Cons(a, s)), mem, cd)
<1>1. Nth(Cons(a, s), 1, a)
  BY ConsIsSeq, NthFirst, NthDeeper
<1> QED BY <1>1, ExecDup

LEMMA ExecDup2 ==
    ASSUME NEW s, IsSeq(s), NEW mem, NEW cd, NEW a, NEW b
    PROVE  Exec(Machine(Cons(a, Cons(b, s)), mem, cd), dup(2))
             = Machine(Cons(b, Cons(a, Cons(b, s))), mem, cd)
<1>1. Nth(Cons(a, Cons(b, s)), 2, b)
  BY ConsIsSeq, NthFirst, NthDeeper
<1> QED BY <1>1, ExecDup

LEMMA ExecDup3 ==
    ASSUME NEW s, IsSeq(s), NEW mem, NEW cd, NEW a, NEW b, NEW c
    PROVE  Exec(Machine(Cons(a, Cons(b, Cons(c, s))), mem, cd), dup(3))
             = Machine(Cons(c, Cons(a, Cons(b, Cons(c, s)))), mem, cd)
<1>1. Nth(Cons(a, Cons(b, Cons(c, s))), 3, c)
  BY ConsIsSeq, NthFirst, NthDeeper
<1> QED BY <1>1, ExecDup

LEMMA ExecDup4 ==
    ASSUME NEW s, IsSeq(s), NEW mem, NEW cd, NEW a, NEW b, NEW c, NEW d
    PROVE  Exec(Machine(Cons(a, Cons(b, Cons(c, Cons(d, s)))), mem, cd), dup(4))
             = Machine(Cons(d, Cons(a, Cons(b, Cons(c, Cons(d, s))))), mem, cd)
<1>1. Nth(Cons(a, Cons(b, Cons(c, Cons(d, s)))), 4, d)
  BY ConsIsSeq, NthFirst, NthDeeper
<1> QED BY <1>1, ExecDup

LEMMA ExecDup5 ==
    ASSUME NEW s, IsSeq(s), NEW mem, NEW cd, NEW a, NEW b, NEW c, NEW d, NEW e
    PROVE  Exec(Machine(Cons(a, Cons(b, Cons(c, Cons(d, Cons(e, s))))), mem, cd), dup(5))
             = Machine(Cons(e, Cons(a, Cons(b, Cons(c, Cons(d, Cons(e, s)))))), mem, cd)
<1>1. Nth(Cons(a, Cons(b, Cons(c, Cons(d, Cons(e, s))))), 5, e)
  BY ConsIsSeq, NthFirst, NthDeeper
<1> QED BY <1>1, ExecDup

LEMMA ExecDup6 ==
    ASSUME NEW s, IsSeq(s), NEW mem, NEW cd, NEW a, NEW b, NEW c, NEW d, NEW e, NEW f
    PROVE  Exec(Machine(Cons(a, Cons(b, Cons(c, Cons(d, Cons(e, Cons(f, s)))))), mem, cd), dup(6))
             = Machine(Cons(f, Cons(a, Cons(b, Cons(c, Cons(d, Cons(e, Cons(f, s))))))), mem, cd)
<1>1. Nth(Cons(a, Cons(b, Cons(c, Cons(d, Cons(e, Cons(f, s)))))), 6, f)
  BY ConsIsSeq, NthFirst, NthDeeper
<1> QED BY <1>1, ExecDup

LEMMA ExecDup7 ==
    ASSUME NEW s, IsSeq(s), NEW mem, NEW cd, NEW a, NEW b, NEW c, NEW d, NEW e, NEW f, NEW g
    PROVE  Exec(Machine(Cons(a, Cons(b, Cons(c, Cons(d, Cons(e, Cons(f, Cons(g, s))))))), mem, cd), dup(7))
             = Machine(Cons(g, Cons(a, Cons(b, Cons(c, Cons(d, Cons(e, Cons(f, Cons(g, s)))))))), mem, cd)
<1>1. Nth(Cons(a, Cons(b, Cons(c, Cons(d, Cons(e, Cons(f, Cons(g, s))))))), 7, g)
  BY ConsIsSeq, NthFirst, NthDeeper
<1> QED BY <1>1, ExecDup

(* u is t with its first and its n+1-st word exchanged.                     *)
Swaps(t, u, n) ==
    /\ IsSeq(t) /\ IsSeq(u) /\ Len(u) = Len(t)
    /\ n + 1 \in 2..Len(t) /\ u[1] = t[n + 1] /\ u[n + 1] = t[1]
    /\ \A i \in 1..Len(t) : i # 1 /\ i # n + 1 => u[i] = t[i]

LEMMA Swapped ==
    ASSUME NEW t, NEW u, NEW n \in Nat, Swaps(t, u, n), NEW mem, NEW cd
    PROVE  Exec(Machine(t, mem, cd), swap(n)) = Machine(u, mem, cd)
<1>1. PICK S : t \in Seq(S)
  BY DEF IsSeq, Swaps
<1>2. PICK T : u \in Seq(T)
  BY DEF IsSeq, Swaps
<1>3. [t EXCEPT ![1] = t[n + 1], ![n + 1] = t[1]] = u
  <2> DEFINE v == [t EXCEPT ![1] = t[n + 1], ![n + 1] = t[1]]
  <2>0. t = [i \in DOMAIN t |-> t[i]] /\ DOMAIN t = 1..Len(t)
    BY <1>1
  <2>1. /\ v = [i \in DOMAIN v |-> v[i]] /\ DOMAIN v = 1..Len(t)
        /\ \A i \in 1..Len(t) : v[i] = IF i = n + 1 THEN t[1] ELSE IF i = 1 THEN t[n + 1] ELSE t[i]
    BY <2>0
  <2>2. u = [i \in DOMAIN u |-> u[i]] /\ DOMAIN u = 1..Len(t)
    BY <1>2 DEF Swaps
  <2> HIDE DEF v
  <2>3. \A i \in 1..Len(t) : v[i] = u[i]
    BY <2>1 DEF Swaps
  <2>4. v = u
    BY <2>1, <2>2, <2>3
  <2> QED BY <2>4 DEF v
<1>4. Exec(Machine(t, mem, cd), swap(n))
        = Machine([t EXCEPT ![1] = t[n + 1], ![n + 1] = t[1]], mem, cd)
  BY DEF Exec, swap, Machine
<1> QED BY <1>3, <1>4

LEMMA SwapNext ==
    ASSUME NEW s, IsSeq(s), NEW x, NEW y
    PROVE  Swaps(Cons(x, Cons(y, s)), Cons(y, Cons(x, s)), 1)
<1>1. IsSeq(Cons(x, s)) /\ IsSeq(Cons(y, s))
  BY ConsFacts
<1>2. ASSUME NEW i \in 1..Len(s)
      PROVE  /\ Cons(x, Cons(y, s))[(i + 1) + 1] = s[i]
             /\ Cons(y, Cons(x, s))[(i + 1) + 1] = s[i]
  <2>1. i + 1 \in 1..Len(Cons(x, s)) /\ i + 1 \in 1..Len(Cons(y, s))
    BY ConsFacts
  <2>2. Cons(x, s)[i + 1] = s[i] /\ Cons(y, s)[i + 1] = s[i]
    BY ConsFacts
  <2>3. Cons(x, Cons(y, s))[(i + 1) + 1] = Cons(y, s)[i + 1]
    BY <1>1, <2>1, ConsFacts
  <2>4. Cons(y, Cons(x, s))[(i + 1) + 1] = Cons(x, s)[i + 1]
    BY <1>1, <2>1, ConsFacts
  <2> QED BY <2>2, <2>3, <2>4
<1>3. ASSUME NEW i \in 1..Len(s) + 2, i # 1, i # 2 PROVE (i - 2) \in 1..Len(s) /\ ((i - 2) + 1) + 1 = i
  BY <1>3, ConsFacts
<1>4. 1 \in 1..Len(Cons(x, s)) /\ 1 \in 1..Len(Cons(y, s))
  BY ConsFacts
<1>5. /\ Cons(x, Cons(y, s))[1 + 1] = y /\ Cons(y, Cons(x, s))[1 + 1] = x
  BY <1>1, <1>4, ConsFacts
<1>6. Len(Cons(x, Cons(y, s))) = Len(s) + 2 /\ Len(Cons(y, Cons(x, s))) = Len(s) + 2 /\ Len(s) \in Nat
  BY <1>1, ConsFacts
<1>7. \A i \in 1..Len(s) + 2 : i # 1 /\ i # 2 => Cons(y, Cons(x, s))[i] = Cons(x, Cons(y, s))[i]
  BY <1>2, <1>3
<1>8. IsSeq(Cons(x, Cons(y, s))) /\ IsSeq(Cons(y, Cons(x, s)))
      /\ Cons(x, Cons(y, s))[1] = x /\ Cons(y, Cons(x, s))[1] = y
  BY <1>1, ConsFacts
<1> QED BY <1>5, <1>6, <1>7, <1>8 DEF Swaps

LEMMA SwapDeeper ==
    ASSUME NEW s, IsSeq(s), NEW u, IsSeq(u), NEW x, NEW y, NEW z,
           NEW d \in Nat, d >= 2, Swaps(Cons(x, s), Cons(y, u), d - 1)
    PROVE  Swaps(Cons(x, Cons(z, s)), Cons(y, Cons(z, u)), d)
<1> DEFINE n == d - 1
<1>0. n \in Nat /\ n + 1 = d /\ Swaps(Cons(x, s), Cons(y, u), n)
  OBVIOUS
<1> HIDE DEF n
<1> DEFINE k == Len(s)
<1>1. /\ k \in Nat /\ Len(u) = k /\ Len(Cons(x, s)) = k + 1 /\ Len(Cons(y, u)) = k + 1
      /\ IsSeq(Cons(z, s)) /\ IsSeq(Cons(z, u))
      /\ Len(Cons(z, s)) = k + 1 /\ Len(Cons(z, u)) = k + 1
  BY <1>0, ConsFacts DEF Swaps
<1>2. /\ IsSeq(Cons(x, Cons(z, s))) /\ IsSeq(Cons(y, Cons(z, u)))
      /\ Len(Cons(x, Cons(z, s))) = k + 2 /\ Len(Cons(y, Cons(z, u))) = k + 2
      /\ Cons(x, Cons(z, s))[1] = x /\ Cons(y, Cons(z, u))[1] = y
      /\ Cons(x, s)[1] = x /\ Cons(y, u)[1] = y
  BY <1>1, ConsFacts
<1>3. \A i \in 1..k + 1 : /\ Cons(x, Cons(z, s))[i + 1] = Cons(z, s)[i]
                          /\ Cons(y, Cons(z, u))[i + 1] = Cons(z, u)[i]
  <2>1. \A i \in 1..k + 1 : Cons(x, Cons(z, s))[i + 1] = Cons(z, s)[i]
    BY <1>1, ConsFacts
  <2>2. \A i \in 1..k + 1 : Cons(y, Cons(z, u))[i + 1] = Cons(z, u)[i]
    BY <1>1, ConsFacts
  <2> QED BY <2>1, <2>2
<1>4. \A i \in 1..k : /\ Cons(z, s)[i + 1] = s[i] /\ Cons(z, u)[i + 1] = u[i]
                      /\ Cons(x, s)[i + 1] = s[i] /\ Cons(y, u)[i + 1] = u[i]
  <2>1. \A i \in 1..k : Cons(z, s)[i + 1] = s[i]
    BY ConsAt
  <2>2. \A i \in 1..k : Cons(x, s)[i + 1] = s[i]
    BY ConsAt
  <2>3. \A i \in 1..k : Cons(z, u)[i + 1] = u[i]
    BY <1>1, ConsAt
  <2>4. \A i \in 1..k : Cons(y, u)[i + 1] = u[i]
    BY <1>1, ConsAt
  <2> QED BY <2>1, <2>2, <2>3, <2>4
<1>5. Cons(z, s)[1] = z /\ Cons(z, u)[1] = z
  BY ConsFacts
<1>6. n \in 1..k
  BY <1>0, <1>1 DEF Swaps
<1> HIDE DEF k
<1>7. n + 1 \in 1..k+1
  BY <1>1, <1>6
<1>8. y = s[n] /\ u[n] = x
  <2>1. y = Cons(x, s)[n + 1] /\ Cons(y, u)[n + 1] = x
    BY <1>0, <1>2 DEF Swaps
  <2> QED BY <1>4, <1>6, <2>1
<1>9. Cons(x, Cons(z, s))[(n + 1) + 1] = s[n] /\ Cons(y, Cons(z, u))[(n + 1) + 1] = u[n]
  BY <1>3, <1>4, <1>6, <1>7
<1>10. ASSUME NEW i \in 1..k + 2, i # 1, i # (n + 1) + 1
       PROVE  Cons(y, Cons(z, u))[i] = Cons(x, Cons(z, s))[i]
  <2>1. i - 1 \in 1..k + 1 /\ (i - 1) + 1 = i
    BY <1>1, <1>10
  <2>2. CASE i = 2
    BY <2>1, <2>2, <1>3, <1>5
  <2>3. CASE i # 2
    <3>1. i - 2 \in 1..k /\ (i - 2) + 1 = i - 1 /\ i - 1 \in 1..(k + 1) /\ i - 1 # 1 /\ i - 1 # n + 1
      BY <1>1, <1>6, <1>10, <2>3
    <3>2. Cons(y, u)[i - 1] = Cons(x, s)[i - 1]
      BY <1>0, <1>1, <3>1 DEF Swaps
    <3> QED BY <1>3, <1>4, <2>1, <3>1, <3>2
  <2> QED BY <2>2, <2>3
<1> QED BY <1>0, <1>1, <1>2, <1>6, <1>8, <1>9, <1>10 DEF Swaps

LEMMA ExecSwap1 ==
    ASSUME NEW s, IsSeq(s), NEW mem, NEW cd, NEW a, NEW b
    PROVE  Exec(Machine(Cons(a, Cons(b, s)), mem, cd), swap(1))
             = Machine(Cons(b, Cons(a, s)), mem, cd)
<1>1. Swaps(Cons(a, Cons(b, s)), Cons(b, Cons(a, s)), 1)
  BY ConsIsSeq, SwapNext, SwapDeeper
<1> QED BY <1>1, Swapped

LEMMA ExecSwap2 ==
    ASSUME NEW s, IsSeq(s), NEW mem, NEW cd, NEW a, NEW b, NEW c
    PROVE  Exec(Machine(Cons(a, Cons(b, Cons(c, s))), mem, cd), swap(2))
             = Machine(Cons(c, Cons(b, Cons(a, s))), mem, cd)
<1>1. Swaps(Cons(a, Cons(b, Cons(c, s))), Cons(c, Cons(b, Cons(a, s))), 2)
  BY ConsIsSeq, SwapNext, SwapDeeper
<1> QED BY <1>1, Swapped

LEMMA ExecSwap3 ==
    ASSUME NEW s, IsSeq(s), NEW mem, NEW cd, NEW a, NEW b, NEW c, NEW d
    PROVE  Exec(Machine(Cons(a, Cons(b, Cons(c, Cons(d, s)))), mem, cd), swap(3))
             = Machine(Cons(d, Cons(b, Cons(c, Cons(a, s)))), mem, cd)
<1>1. Swaps(Cons(a, Cons(b, Cons(c, Cons(d, s)))), Cons(d, Cons(b, Cons(c, Cons(a, s)))), 3)
  BY ConsIsSeq, SwapNext, SwapDeeper
<1> QED BY <1>1, Swapped

LEMMA ExecSwap4 ==
    ASSUME NEW s, IsSeq(s), NEW mem, NEW cd, NEW a, NEW b, NEW c, NEW d, NEW e
    PROVE  Exec(Machine(Cons(a, Cons(b, Cons(c, Cons(d, Cons(e, s))))), mem, cd), swap(4))
             = Machine(Cons(e, Cons(b, Cons(c, Cons(d, Cons(a, s))))), mem, cd)
<1>1. Swaps(Cons(a, Cons(b, Cons(c, Cons(d, Cons(e, s))))), Cons(e, Cons(b, Cons(c, Cons(d, Cons(a, s))))), 4)
  BY ConsIsSeq, SwapNext, SwapDeeper
<1> QED BY <1>1, Swapped

LEMMA ExecSwap7 ==
    ASSUME NEW s, IsSeq(s), NEW mem, NEW cd, NEW a, NEW b, NEW c, NEW d, NEW e, NEW f, NEW g, NEW h
    PROVE  Exec(Machine(Cons(a, Cons(b, Cons(c, Cons(d, Cons(e, Cons(f, Cons(g, Cons(h, s)))))))), mem, cd), swap(7))
             = Machine(Cons(h, Cons(b, Cons(c, Cons(d, Cons(e, Cons(f, Cons(g, Cons(a, s)))))))), mem, cd)
<1>1. Swaps(Cons(a, Cons(e, Cons(f, Cons(g, Cons(h, s))))), Cons(h, Cons(e, Cons(f, Cons(g, Cons(a, s))))), 4)
  BY ConsIsSeq, SwapNext, SwapDeeper
<1>2. Swaps(Cons(a, Cons(d, Cons(e, Cons(f, Cons(g, Cons(h, s)))))), Cons(h, Cons(d, Cons(e, Cons(f, Cons(g, Cons(a, s)))))), 5)
  <2>1. IsSeq(Cons(e, Cons(f, Cons(g, Cons(h, s))))) /\ IsSeq(Cons(e, Cons(f, Cons(g, Cons(a, s)))))
    BY ConsIsSeq
  <2> QED BY <1>1, <2>1, SwapDeeper
<1>3. Swaps(Cons(a, Cons(c, Cons(d, Cons(e, Cons(f, Cons(g, Cons(h, s))))))), Cons(h, Cons(c, Cons(d, Cons(e, Cons(f, Cons(g, Cons(a, s))))))), 6)
  <2>1. IsSeq(Cons(d, Cons(e, Cons(f, Cons(g, Cons(h, s)))))) /\ IsSeq(Cons(d, Cons(e, Cons(f, Cons(g, Cons(a, s))))))
    BY ConsIsSeq
  <2> QED BY <1>2, <2>1, SwapDeeper
<1>4. Swaps(Cons(a, Cons(b, Cons(c, Cons(d, Cons(e, Cons(f, Cons(g, Cons(h, s)))))))), Cons(h, Cons(b, Cons(c, Cons(d, Cons(e, Cons(f, Cons(g, Cons(a, s)))))))), 7)
  <2>1. IsSeq(Cons(c, Cons(d, Cons(e, Cons(f, Cons(g, Cons(h, s))))))) /\ IsSeq(Cons(c, Cons(d, Cons(e, Cons(f, Cons(g, Cons(a, s)))))))
    BY ConsIsSeq
  <2> QED BY <1>3, <2>1, SwapDeeper
<1> QED BY <1>4, Swapped

LEMMA ExecAddmod ==
    ASSUME NEW s, IsSeq(s), NEW mem, NEW cd, NEW a, NEW b, NEW c
    PROVE  Exec(Machine(Cons(a, Cons(b, Cons(c, s))), mem, cd), addmod) = Machine(Cons(AddMod(a, b, c), s), mem, cd)
<1> DEFINE t == Cons(a, Cons(b, Cons(c, s)))
<1>1. Nth(t, 1, a) /\ Nth(t, 2, b) /\ Nth(t, 3, c) /\ Rest(t, 3, s)
  BY ConsIsSeq, NthFirst, NthDeeper, RestAll, RestDeeper
<1> HIDE DEF t
<1>2. Exec(Machine(t, mem, cd), addmod)
        = Machine(Cons(AddMod(t[1], t[2], t[3]), SubSeq(t, 3 + 1, Len(t))), mem, cd)
  <2>1. addmod.op = "addmod"
    BY DEF addmod
  <2>2. Machine(t, mem, cd).stack = t 
    BY DEF Machine
  <2>3. Exec(Machine(t, mem, cd), addmod)
          = [Machine(t, mem, cd) EXCEPT !.stack = <<AddMod(t[1], t[2], t[3])>> \o SubSeq(t, 3 + 1, Len(t))]
    BY <2>1, <2>2 DEF Exec, AddMod
  <2> QED BY <2>3 DEF Machine, Cons
<1>3. SubSeq(t, 3 + 1, Len(t)) = s /\ t[1] = a /\ t[2] = b /\ t[3] = c
  BY <1>1 DEF Nth, Rest
<1> QED BY <1>2, <1>3 DEF t

LEMMA ExecMulmod ==
    ASSUME NEW s, IsSeq(s), NEW mem, NEW cd, NEW a, NEW b, NEW c
    PROVE  Exec(Machine(Cons(a, Cons(b, Cons(c, s))), mem, cd), mulmod) = Machine(Cons(MulMod(a, b, c), s), mem, cd)
<1> DEFINE t == Cons(a, Cons(b, Cons(c, s)))
<1>1. Nth(t, 1, a) /\ Nth(t, 2, b) /\ Nth(t, 3, c) /\ Rest(t, 3, s)
  BY ConsIsSeq, NthFirst, NthDeeper, RestAll, RestDeeper
<1> HIDE DEF t
<1>2. Exec(Machine(t, mem, cd), mulmod)
        = Machine(Cons(MulMod(t[1], t[2], t[3]), SubSeq(t, 3 + 1, Len(t))), mem, cd)
  <2>1. mulmod.op = "mulmod"
    BY DEF mulmod
  <2>2. Machine(t, mem, cd).stack = t 
    BY DEF Machine
  <2>3. Exec(Machine(t, mem, cd), mulmod)
          = [Machine(t, mem, cd) EXCEPT !.stack = <<MulMod(t[1], t[2], t[3])>> \o SubSeq(t, 3 + 1, Len(t))]
    BY <2>1, <2>2 DEF Exec, MulMod
  <2> QED BY <2>3 DEF Machine, Cons
<1>3. SubSeq(t, 3 + 1, Len(t)) = s /\ t[1] = a /\ t[2] = b /\ t[3] = c
  BY <1>1 DEF Nth, Rest
<1> QED BY <1>2, <1>3 DEF t

LEMMA ExecMload ==
    ASSUME NEW s, IsSeq(s), NEW mem, NEW cd, NEW a
    PROVE  Exec(Machine(Cons(a, s), mem, cd), mload) = Machine(Cons(Load(mem, a), s), mem, cd)
<1> DEFINE t == Cons(a, s)
<1>1. Nth(t, 1, a) /\ Rest(t, 1, s)
  BY ConsIsSeq, NthFirst, NthDeeper, RestAll, RestDeeper
<1> HIDE DEF t
<1>2. Exec(Machine(t, mem, cd), mload)
        = Machine(Cons(Load(mem, t[1]), SubSeq(t, 1 + 1, Len(t))), mem, cd)
  <2>1. mload.op = "mload"
    BY DEF mload
  <2>2. Machine(t, mem, cd).stack = t /\ Machine(t, mem, cd).memory = mem
    BY DEF Machine
  <2>3. Exec(Machine(t, mem, cd), mload)
          = [Machine(t, mem, cd) EXCEPT !.stack = <<Load(mem, t[1])>> \o SubSeq(t, 1 + 1, Len(t))]
    BY <2>1, <2>2 DEF Exec
  <2> QED BY <2>3 DEF Machine, Cons
<1>3. SubSeq(t, 1 + 1, Len(t)) = s /\ t[1] = a
  BY <1>1 DEF Nth, Rest
<1> QED BY <1>2, <1>3 DEF t

LEMMA ExecCalldataload ==
    ASSUME NEW s, IsSeq(s), NEW mem, NEW cd, NEW a
    PROVE  Exec(Machine(Cons(a, s), mem, cd), calldataload) = Machine(Cons(Load(cd, a), s), mem, cd)
<1> DEFINE t == Cons(a, s)
<1>1. Nth(t, 1, a) /\ Rest(t, 1, s)
  BY ConsIsSeq, NthFirst, NthDeeper, RestAll, RestDeeper
<1> HIDE DEF t
<1>2. Exec(Machine(t, mem, cd), calldataload)
        = Machine(Cons(Load(cd, t[1]), SubSeq(t, 1 + 1, Len(t))), mem, cd)
  <2>1. calldataload.op = "calldataload"
    BY DEF calldataload
  <2>2. Machine(t, mem, cd).stack = t /\ Machine(t, mem, cd).calldata = cd
    BY DEF Machine
  <2>3. Exec(Machine(t, mem, cd), calldataload)
          = [Machine(t, mem, cd) EXCEPT !.stack = <<Load(cd, t[1])>> \o SubSeq(t, 1 + 1, Len(t))]
    BY <2>1, <2>2 DEF Exec
  <2> QED BY <2>3 DEF Machine, Cons
<1>3. SubSeq(t, 1 + 1, Len(t)) = s /\ t[1] = a
  BY <1>1 DEF Nth, Rest
<1> QED BY <1>2, <1>3 DEF t

LEMMA ExecAdd ==
    ASSUME NEW s, IsSeq(s), NEW mem, NEW cd, NEW a, NEW b
    PROVE  Exec(Machine(Cons(a, Cons(b, s)), mem, cd), add) = Machine(Cons(Binary("add", a, b), s), mem, cd)
<1> DEFINE t == Cons(a, Cons(b, s))
<1>1. Nth(t, 1, a) /\ Nth(t, 2, b) /\ Rest(t, 2, s)
  BY ConsIsSeq, NthFirst, NthDeeper, RestAll, RestDeeper
<1> HIDE DEF t
<1>2. Exec(Machine(t, mem, cd), add)
        = Machine(Cons(Binary("add", t[1], t[2]), SubSeq(t, 2 + 1, Len(t))), mem, cd)
  <2>1. add.op = "add"
    BY DEF add
  <2>2. Machine(t, mem, cd).stack = t 
    BY DEF Machine
  <2>3. Exec(Machine(t, mem, cd), add)
          = [Machine(t, mem, cd) EXCEPT !.stack = <<Binary("add", t[1], t[2])>> \o SubSeq(t, 2 + 1, Len(t))]
    BY <2>1, <2>2 DEF Exec
  <2> QED BY <2>3 DEF Machine, Cons
<1>3. SubSeq(t, 2 + 1, Len(t)) = s /\ t[1] = a /\ t[2] = b
  BY <1>1 DEF Nth, Rest
<1> QED BY <1>2, <1>3 DEF t

LEMMA ExecSub ==
    ASSUME NEW s, IsSeq(s), NEW mem, NEW cd, NEW a, NEW b
    PROVE  Exec(Machine(Cons(a, Cons(b, s)), mem, cd), sub) = Machine(Cons(Binary("sub", a, b), s), mem, cd)
<1> DEFINE t == Cons(a, Cons(b, s))
<1>1. Nth(t, 1, a) /\ Nth(t, 2, b) /\ Rest(t, 2, s)
  BY ConsIsSeq, NthFirst, NthDeeper, RestAll, RestDeeper
<1> HIDE DEF t
<1>2. Exec(Machine(t, mem, cd), sub)
        = Machine(Cons(Binary("sub", t[1], t[2]), SubSeq(t, 2 + 1, Len(t))), mem, cd)
  <2>1. sub.op = "sub"
    BY DEF sub
  <2>2. Machine(t, mem, cd).stack = t 
    BY DEF Machine
  <2>3. Exec(Machine(t, mem, cd), sub)
          = [Machine(t, mem, cd) EXCEPT !.stack = <<Binary("sub", t[1], t[2])>> \o SubSeq(t, 2 + 1, Len(t))]
    BY <2>1, <2>2 DEF Exec
  <2> QED BY <2>3 DEF Machine, Cons
<1>3. SubSeq(t, 2 + 1, Len(t)) = s /\ t[1] = a /\ t[2] = b
  BY <1>1 DEF Nth, Rest
<1> QED BY <1>2, <1>3 DEF t

LEMMA ExecMul ==
    ASSUME NEW s, IsSeq(s), NEW mem, NEW cd, NEW a, NEW b
    PROVE  Exec(Machine(Cons(a, Cons(b, s)), mem, cd), mul) = Machine(Cons(Binary("mul", a, b), s), mem, cd)
<1> DEFINE t == Cons(a, Cons(b, s))
<1>1. Nth(t, 1, a) /\ Nth(t, 2, b) /\ Rest(t, 2, s)
  BY ConsIsSeq, NthFirst, NthDeeper, RestAll, RestDeeper
<1> HIDE DEF t
<1>2. Exec(Machine(t, mem, cd), mul)
        = Machine(Cons(Binary("mul", t[1], t[2]), SubSeq(t, 2 + 1, Len(t))), mem, cd)
  <2>1. mul.op = "mul"
    BY DEF mul
  <2>2. Machine(t, mem, cd).stack = t 
    BY DEF Machine
  <2>3. Exec(Machine(t, mem, cd), mul)
          = [Machine(t, mem, cd) EXCEPT !.stack = <<Binary("mul", t[1], t[2])>> \o SubSeq(t, 2 + 1, Len(t))]
    BY <2>1, <2>2 DEF Exec
  <2> QED BY <2>3 DEF Machine, Cons
<1>3. SubSeq(t, 2 + 1, Len(t)) = s /\ t[1] = a /\ t[2] = b
  BY <1>1 DEF Nth, Rest
<1> QED BY <1>2, <1>3 DEF t

LEMMA ExecShr ==
    ASSUME NEW s, IsSeq(s), NEW mem, NEW cd, NEW a, NEW b
    PROVE  Exec(Machine(Cons(a, Cons(b, s)), mem, cd), shr) = Machine(Cons(Binary("shr", a, b), s), mem, cd)
<1> DEFINE t == Cons(a, Cons(b, s))
<1>1. Nth(t, 1, a) /\ Nth(t, 2, b) /\ Rest(t, 2, s)
  BY ConsIsSeq, NthFirst, NthDeeper, RestAll, RestDeeper
<1> HIDE DEF t
<1>2. Exec(Machine(t, mem, cd), shr)
        = Machine(Cons(Binary("shr", t[1], t[2]), SubSeq(t, 2 + 1, Len(t))), mem, cd)
  <2>1. shr.op = "shr"
    BY DEF shr
  <2>2. Machine(t, mem, cd).stack = t 
    BY DEF Machine
  <2>3. Exec(Machine(t, mem, cd), shr)
          = [Machine(t, mem, cd) EXCEPT !.stack = <<Binary("shr", t[1], t[2])>> \o SubSeq(t, 2 + 1, Len(t))]
    BY <2>1, <2>2 DEF Exec
  <2> QED BY <2>3 DEF Machine, Cons
<1>3. SubSeq(t, 2 + 1, Len(t)) = s /\ t[1] = a /\ t[2] = b
  BY <1>1 DEF Nth, Rest
<1> QED BY <1>2, <1>3 DEF t

LEMMA ExecEq ==
    ASSUME NEW s, IsSeq(s), NEW mem, NEW cd, NEW a, NEW b
    PROVE  Exec(Machine(Cons(a, Cons(b, s)), mem, cd), eq) = Machine(Cons(Binary("eq", a, b), s), mem, cd)
<1> DEFINE t == Cons(a, Cons(b, s))
<1>1. Nth(t, 1, a) /\ Nth(t, 2, b) /\ Rest(t, 2, s)
  BY ConsIsSeq, NthFirst, NthDeeper, RestAll, RestDeeper
<1> HIDE DEF t
<1>2. Exec(Machine(t, mem, cd), eq)
        = Machine(Cons(Binary("eq", t[1], t[2]), SubSeq(t, 2 + 1, Len(t))), mem, cd)
  <2>1. eq.op = "eq"
    BY DEF eq
  <2>2. Machine(t, mem, cd).stack = t 
    BY DEF Machine
  <2>3. Exec(Machine(t, mem, cd), eq)
          = [Machine(t, mem, cd) EXCEPT !.stack = <<Binary("eq", t[1], t[2])>> \o SubSeq(t, 2 + 1, Len(t))]
    BY <2>1, <2>2 DEF Exec
  <2> QED BY <2>3 DEF Machine, Cons
<1>3. SubSeq(t, 2 + 1, Len(t)) = s /\ t[1] = a /\ t[2] = b
  BY <1>1 DEF Nth, Rest
<1> QED BY <1>2, <1>3 DEF t

LEMMA ExecAnd ==
    ASSUME NEW s, IsSeq(s), NEW mem, NEW cd, NEW a, NEW b
    PROVE  Exec(Machine(Cons(a, Cons(b, s)), mem, cd), and) = Machine(Cons(Binary("and", a, b), s), mem, cd)
<1> DEFINE t == Cons(a, Cons(b, s))
<1>1. Nth(t, 1, a) /\ Nth(t, 2, b) /\ Rest(t, 2, s)
  BY ConsIsSeq, NthFirst, NthDeeper, RestAll, RestDeeper
<1> HIDE DEF t
<1>2. Exec(Machine(t, mem, cd), and)
        = Machine(Cons(Binary("and", t[1], t[2]), SubSeq(t, 2 + 1, Len(t))), mem, cd)
  <2>1. and.op = "and"
    BY DEF and
  <2>2. Machine(t, mem, cd).stack = t 
    BY DEF Machine
  <2>3. Exec(Machine(t, mem, cd), and)
          = [Machine(t, mem, cd) EXCEPT !.stack = <<Binary("and", t[1], t[2])>> \o SubSeq(t, 2 + 1, Len(t))]
    BY <2>1, <2>2 DEF Exec
  <2> QED BY <2>3 DEF Machine, Cons
<1>3. SubSeq(t, 2 + 1, Len(t)) = s /\ t[1] = a /\ t[2] = b
  BY <1>1 DEF Nth, Rest
<1> QED BY <1>2, <1>3 DEF t

LEMMA ExecMstore ==
    ASSUME NEW s, IsSeq(s), NEW mem, NEW cd, NEW a, NEW b
    PROVE  Exec(Machine(Cons(a, Cons(b, s)), mem, cd), mstore) = Machine(s, Store(mem, a, b), cd)
<1> DEFINE t == Cons(a, Cons(b, s))
<1>1. Nth(t, 1, a) /\ Nth(t, 2, b) /\ Rest(t, 2, s)
  BY ConsIsSeq, NthFirst, NthDeeper, RestAll, RestDeeper
<1> HIDE DEF t
<1>2. Exec(Machine(t, mem, cd), mstore)
        = Machine(SubSeq(t, 3, Len(t)), Store(mem, t[1], t[2]), cd)
  BY DEF Exec, mstore, Machine
<1>3. SubSeq(t, 3, Len(t)) = s /\ t[1] = a /\ t[2] = b
  BY <1>1 DEF Nth, Rest
<1> QED BY <1>2, <1>3 DEF t

-----------------------------------------------------------------------------
(* The macros of the permutation.                                           *)
SPREAD_EXTERNAL ==
    <<PUSH_PRIME, dup(2), dup(6), addmod, swap(4), pop,
      PUSH_PRIME, dup(2), dup(5), addmod, swap(3), pop,
      PUSH_PRIME, swap(2), addmod>>

SPREAD_INTERNAL ==
    <<PUSH_PRIME, dup(2), PUSH_PRIME, dup(7), dup(1), addmod, addmod, swap(4), pop,
      PUSH_PRIME, dup(2), dup(5), addmod, swap(3), pop,
      PUSH_PRIME, swap(2), addmod>>

TAKE_ELEMENT(c) == <<PUSH_PRIME, dup(4), push(c), addmod, PUSH_PRIME, swap(1)>>

ADD_TO_FIRST(c) == <<PUSH_PRIME, swap(1), push(c), addmod, PUSH_PRIME, swap(1)>>

DROP_OLD_STATE == <<swap(3), pop, swap(3), pop, swap(3), pop>>

Power5(x) == MulMod(MulMod(MulMod(x, x, PRIME), MulMod(x, x, PRIME), PRIME), x, PRIME)

Sum3(a, b, c) == AddMod(AddMod(b, a, PRIME), c, PRIME)

LEMMA RunSBOX ==
    ASSUME NEW s, IsSeq(s), NEW mem, NEW cd, NEW x
    PROVE  /\ IsSeq(SBOX)
           /\ Run(Machine(Cons(x, Cons(PRIME, s)), mem, cd), SBOX)
                = Machine(Cons(MulMod(MulMod(MulMod(x, x, PRIME), MulMod(x, x, PRIME),
                    PRIME), x, PRIME), s), mem, cd)
<1> DEFINE c2 == Cons(mulmod, Cons(mulmod, <<>>))
           c1 == Cons(dup(1), Cons(mulmod, Cons(dup(1), c2)))
           c0 == Cons(dup(2), Cons(dup(1), Cons(dup(3), c1)))
<1>1. SBOX = c0
  <2> DEFINE code == SBOX
  <2>1. code \in Seq(Instructions({})) /\ Len(code) = 8
    BY DEF SBOX, Instructions
  <2>2. /\ code[1] = dup(2) /\ code[2] = dup(1) /\ code[3] = dup(3)
        /\ code[4] = dup(1) /\ code[5] = mulmod /\ code[6] = dup(1)
        /\ code[7] = mulmod /\ code[8] = mulmod
    BY DEF SBOX
  <2> HIDE DEF code
  <2>3. From(code, 1) = code /\ From(code, 9) = <<>>
    <3>1. From(code, 1) = code
      BY <2>1, CodeFrom
    <3>2. From(code, 9) = <<>>
      <4>1. Len(code) \in Nat /\ 9 > Len(code) /\ 9 \in Nat
        BY <2>1
      <4> QED BY <2>1, <4>1, Unfold
    <3> QED BY <3>1, <3>2
  <2>4. \A k, n \in Nat : k \in 1..8 /\ n = k + 1 => From(code, k) = Cons(code[k],
        From(code, n))
    BY <2>1, CodeFrom
  <2>5. From(code, 7) = c2
    <3>1. From(code, 7) = Cons(code[7], From(code, 8)) /\ From(code, 8) = Cons(code[8],
        From(code, 9))
      BY <2>4
    <3> QED BY <2>2, <2>3, <3>1
  <2>6. From(code, 4) = c1
    <3>1. From(code, 4) = Cons(code[4], From(code, 5)) /\ From(code, 5) = Cons(code[5],
        From(code, 6)) /\ From(code, 6) = Cons(code[6], From(code, 7))
      BY <2>4
    <3> QED BY <2>2, <2>3, <3>1, <2>5
  <2>7. From(code, 1) = c0
    <3>1. From(code, 1) = Cons(code[1], From(code, 2)) /\ From(code, 2) = Cons(code[2],
        From(code, 3)) /\ From(code, 3) = Cons(code[3], From(code, 4))
      BY <2>4
    <3> QED BY <2>2, <2>3, <3>1, <2>6
  <2> QED BY <2>3, <2>7 DEF code
<1>2. IsSeq(<<>>) /\ IsSeq(c2) /\ IsSeq(c1) /\ IsSeq(c0)
  BY ConsIsSeq, EmptyIsSeq
<1> HIDE DEF c0, c1, c2
<1>3. Run(Machine(Cons(x, Cons(PRIME, s)), mem, cd), c0)
        = Run(Machine(Cons(x, Cons(PRIME, Cons(PRIME, Cons(x, Cons(PRIME, s))))), mem, cd),
            c1)
  BY <1>2, RunCons, ConsIsSeq, ExecDup2, ExecDup1, ExecDup3 DEF c0
<1>4. @ = Run(Machine(Cons(MulMod(x, x, PRIME), Cons(MulMod(x, x, PRIME), Cons(PRIME,
        Cons(x, Cons(PRIME, s))))), mem, cd), c2)
  BY <1>2, RunCons, ConsIsSeq, ExecDup1, ExecMulmod DEF c1
<1>5. @ = Run(Machine(Cons(MulMod(MulMod(MulMod(x, x, PRIME), MulMod(x, x, PRIME), PRIME),
        x, PRIME), s), mem, cd), <<>>)
  BY <1>2, RunCons, ConsIsSeq, ExecMulmod DEF c2
<1> QED BY <1>1, <1>2, <1>3, <1>4, <1>5, RunNothing

LEMMA RunSum ==
    ASSUME NEW s, IsSeq(s), NEW mem, NEW cd, NEW a, NEW b, NEW c
    PROVE  /\ IsSeq(SUM_FIRST_THREE)
           /\ Run(Machine(Cons(a, Cons(b, Cons(c, s))), mem, cd), SUM_FIRST_THREE)
                = Machine(Cons(AddMod(AddMod(b, a, PRIME), c, PRIME), Cons(a, Cons(b,
                    Cons(c, s)))), mem, cd)
<1> DEFINE c2 == Cons(addmod, Cons(addmod, <<>>))
           c1 == Cons(dup(4), Cons(push(PRIME), Cons(swap(2), c2)))
           c0 == Cons(push(PRIME), Cons(dup(4), Cons(dup(4), c1)))
<1>1. SUM_FIRST_THREE = c0
  <2> DEFINE code == SUM_FIRST_THREE
  <2>1. code \in Seq(Instructions({PRIME})) /\ Len(code) = 8
    BY DEF SUM_FIRST_THREE, PUSH_PRIME, Instructions
  <2>2. /\ code[1] = push(PRIME) /\ code[2] = dup(4) /\ code[3] = dup(4)
        /\ code[4] = dup(4) /\ code[5] = push(PRIME) /\ code[6] = swap(2)
        /\ code[7] = addmod /\ code[8] = addmod
    BY DEF SUM_FIRST_THREE, PUSH_PRIME
  <2> HIDE DEF code
  <2>3. From(code, 1) = code /\ From(code, 9) = <<>>
    <3>1. From(code, 1) = code
      BY <2>1, CodeFrom
    <3>2. From(code, 9) = <<>>
      <4>1. Len(code) \in Nat /\ 9 > Len(code) /\ 9 \in Nat
        BY <2>1
      <4> QED BY <2>1, <4>1, Unfold
    <3> QED BY <3>1, <3>2
  <2>4. \A k, n \in Nat : k \in 1..8 /\ n = k + 1 => From(code, k) = Cons(code[k],
        From(code, n))
    BY <2>1, CodeFrom
  <2>5. From(code, 7) = c2
    <3>1. From(code, 7) = Cons(code[7], From(code, 8)) /\ From(code, 8) = Cons(code[8],
        From(code, 9))
      BY <2>4
    <3> QED BY <2>2, <2>3, <3>1
  <2>6. From(code, 4) = c1
    <3>1. From(code, 4) = Cons(code[4], From(code, 5)) /\ From(code, 5) = Cons(code[5],
        From(code, 6)) /\ From(code, 6) = Cons(code[6], From(code, 7))
      BY <2>4
    <3> QED BY <2>2, <2>3, <3>1, <2>5
  <2>7. From(code, 1) = c0
    <3>1. From(code, 1) = Cons(code[1], From(code, 2)) /\ From(code, 2) = Cons(code[2],
        From(code, 3)) /\ From(code, 3) = Cons(code[3], From(code, 4))
      BY <2>4
    <3> QED BY <2>2, <2>3, <3>1, <2>6
  <2> QED BY <2>3, <2>7 DEF code
<1>2. IsSeq(<<>>) /\ IsSeq(c2) /\ IsSeq(c1) /\ IsSeq(c0)
  BY ConsIsSeq, EmptyIsSeq
<1> HIDE DEF c0, c1, c2
<1>3. Run(Machine(Cons(a, Cons(b, Cons(c, s))), mem, cd), c0)
        = Run(Machine(Cons(b, Cons(c, Cons(PRIME, Cons(a, Cons(b, Cons(c, s)))))), mem,
            cd), c1)
  BY <1>2, RunCons, ConsIsSeq, ExecPush, ExecDup4 DEF c0
<1>4. @ = Run(Machine(Cons(b, Cons(a, Cons(PRIME, Cons(c, Cons(PRIME, Cons(a, Cons(b,
        Cons(c, s)))))))), mem, cd), c2)
  BY <1>2, RunCons, ConsIsSeq, ExecDup4, ExecPush, ExecSwap2 DEF c1
<1>5. @ = Run(Machine(Cons(AddMod(AddMod(b, a, PRIME), c, PRIME), Cons(a, Cons(b, Cons(c,
        s)))), mem, cd), <<>>)
  BY <1>2, RunCons, ConsIsSeq, ExecAddmod DEF c2
<1> QED BY <1>1, <1>2, <1>3, <1>4, <1>5, RunNothing

LEMMA RunSpreadExternal ==
    ASSUME NEW s, IsSeq(s), NEW mem, NEW cd, NEW a, NEW b, NEW c, NEW t
    PROVE  /\ IsSeq(SPREAD_EXTERNAL)
           /\ Run(Machine(Cons(t, Cons(a, Cons(b, Cons(c, s)))), mem, cd), SPREAD_EXTERNAL)
                = Machine(Cons(AddMod(a, t, PRIME), Cons(AddMod(b, t, PRIME),
                    Cons(AddMod(c, t, PRIME), s))), mem, cd)
<1> DEFINE c4 == Cons(push(PRIME), Cons(swap(2), Cons(addmod, <<>>)))
           c3 == Cons(addmod, Cons(swap(3), Cons(pop, c4)))
           c2 == Cons(push(PRIME), Cons(dup(2), Cons(dup(5), c3)))
           c1 == Cons(addmod, Cons(swap(4), Cons(pop, c2)))
           c0 == Cons(push(PRIME), Cons(dup(2), Cons(dup(6), c1)))
<1>1. SPREAD_EXTERNAL = c0
  <2> DEFINE code == SPREAD_EXTERNAL
  <2>1. code \in Seq(Instructions({PRIME})) /\ Len(code) = 15
    BY DEF SPREAD_EXTERNAL, PUSH_PRIME, Instructions
  <2>2. /\ code[1] = push(PRIME) /\ code[2] = dup(2) /\ code[3] = dup(6)
        /\ code[4] = addmod /\ code[5] = swap(4) /\ code[6] = pop
        /\ code[7] = push(PRIME) /\ code[8] = dup(2) /\ code[9] = dup(5)
        /\ code[10] = addmod /\ code[11] = swap(3) /\ code[12] = pop
        /\ code[13] = push(PRIME) /\ code[14] = swap(2) /\ code[15] = addmod
    BY DEF SPREAD_EXTERNAL, PUSH_PRIME
  <2> HIDE DEF code
  <2>3. From(code, 1) = code /\ From(code, 16) = <<>>
    <3>1. From(code, 1) = code
      BY <2>1, CodeFrom
    <3>2. From(code, 16) = <<>>
      <4>1. Len(code) \in Nat /\ 16 > Len(code) /\ 16 \in Nat
        BY <2>1
      <4> QED BY <2>1, <4>1, Unfold
    <3> QED BY <3>1, <3>2
  <2>4. \A k, n \in Nat : k \in 1..15 /\ n = k + 1 => From(code, k) = Cons(code[k],
        From(code, n))
    BY <2>1, CodeFrom
  <2>5. From(code, 13) = c4
    <3>1. From(code, 13) = Cons(code[13], From(code, 14)) /\ From(code, 14) =
        Cons(code[14], From(code, 15)) /\ From(code, 15) = Cons(code[15], From(code, 16))
      BY <2>4
    <3> QED BY <2>2, <2>3, <3>1
  <2>6. From(code, 10) = c3
    <3>1. From(code, 10) = Cons(code[10], From(code, 11)) /\ From(code, 11) =
        Cons(code[11], From(code, 12)) /\ From(code, 12) = Cons(code[12], From(code, 13))
      BY <2>4
    <3> QED BY <2>2, <2>3, <3>1, <2>5
  <2>7. From(code, 7) = c2
    <3>1. From(code, 7) = Cons(code[7], From(code, 8)) /\ From(code, 8) = Cons(code[8],
        From(code, 9)) /\ From(code, 9) = Cons(code[9], From(code, 10))
      BY <2>4
    <3> QED BY <2>2, <2>3, <3>1, <2>6
  <2>8. From(code, 4) = c1
    <3>1. From(code, 4) = Cons(code[4], From(code, 5)) /\ From(code, 5) = Cons(code[5],
        From(code, 6)) /\ From(code, 6) = Cons(code[6], From(code, 7))
      BY <2>4
    <3> QED BY <2>2, <2>3, <3>1, <2>7
  <2>9. From(code, 1) = c0
    <3>1. From(code, 1) = Cons(code[1], From(code, 2)) /\ From(code, 2) = Cons(code[2],
        From(code, 3)) /\ From(code, 3) = Cons(code[3], From(code, 4))
      BY <2>4
    <3> QED BY <2>2, <2>3, <3>1, <2>8
  <2> QED BY <2>3, <2>9 DEF code
<1>2. IsSeq(<<>>) /\ IsSeq(c4) /\ IsSeq(c3) /\ IsSeq(c2) /\ IsSeq(c1) /\ IsSeq(c0)
  BY ConsIsSeq, EmptyIsSeq
<1> HIDE DEF c0, c1, c2, c3, c4
<1>3. Run(Machine(Cons(t, Cons(a, Cons(b, Cons(c, s)))), mem, cd), c0)
        = Run(Machine(Cons(c, Cons(t, Cons(PRIME, Cons(t, Cons(a, Cons(b, Cons(c, s))))))),
            mem, cd), c1)
  BY <1>2, RunCons, ConsIsSeq, ExecPush, ExecDup2, ExecDup6 DEF c0
<1>4. @ = Run(Machine(Cons(t, Cons(a, Cons(b, Cons(AddMod(c, t, PRIME), s)))), mem, cd), c2)
  BY <1>2, RunCons, ConsIsSeq, ExecAddmod, ExecSwap4, ExecPop DEF c1
<1>5. @ = Run(Machine(Cons(b, Cons(t, Cons(PRIME, Cons(t, Cons(a, Cons(b, Cons(AddMod(c, t,
        PRIME), s))))))), mem, cd), c3)
  BY <1>2, RunCons, ConsIsSeq, ExecPush, ExecDup2, ExecDup5 DEF c2
<1>6. @ = Run(Machine(Cons(t, Cons(a, Cons(AddMod(b, t, PRIME), Cons(AddMod(c, t, PRIME),
        s)))), mem, cd), c4)
  BY <1>2, RunCons, ConsIsSeq, ExecAddmod, ExecSwap3, ExecPop DEF c3
<1>7. @ = Run(Machine(Cons(AddMod(a, t, PRIME), Cons(AddMod(b, t, PRIME), Cons(AddMod(c, t,
        PRIME), s))), mem, cd), <<>>)
  BY <1>2, RunCons, ConsIsSeq, ExecPush, ExecSwap2, ExecAddmod DEF c4
<1> QED BY <1>1, <1>2, <1>3, <1>4, <1>5, <1>6, <1>7, RunNothing

LEMMA RunSpreadInternal ==
    ASSUME NEW s, IsSeq(s), NEW mem, NEW cd, NEW a, NEW b, NEW c, NEW t
    PROVE  /\ IsSeq(SPREAD_INTERNAL)
           /\ Run(Machine(Cons(t, Cons(a, Cons(b, Cons(c, s)))), mem, cd), SPREAD_INTERNAL)
                = Machine(Cons(AddMod(a, t, PRIME), Cons(AddMod(b, t, PRIME),
                    Cons(AddMod(AddMod(c, c, PRIME), t, PRIME), s))), mem, cd)
<1> DEFINE c5 == Cons(push(PRIME), Cons(swap(2), Cons(addmod, <<>>)))
           c4 == Cons(addmod, Cons(swap(3), Cons(pop, c5)))
           c3 == Cons(push(PRIME), Cons(dup(2), Cons(dup(5), c4)))
           c2 == Cons(addmod, Cons(swap(4), Cons(pop, c3)))
           c1 == Cons(dup(7), Cons(dup(1), Cons(addmod, c2)))
           c0 == Cons(push(PRIME), Cons(dup(2), Cons(push(PRIME), c1)))
<1>1. SPREAD_INTERNAL = c0
  <2> DEFINE code == SPREAD_INTERNAL
  <2>1. code \in Seq(Instructions({PRIME})) /\ Len(code) = 18
    BY DEF SPREAD_INTERNAL, PUSH_PRIME, Instructions
  <2>2. /\ code[1] = push(PRIME) /\ code[2] = dup(2) /\ code[3] = push(PRIME)
        /\ code[4] = dup(7) /\ code[5] = dup(1) /\ code[6] = addmod
        /\ code[7] = addmod /\ code[8] = swap(4) /\ code[9] = pop
        /\ code[10] = push(PRIME) /\ code[11] = dup(2) /\ code[12] = dup(5)
        /\ code[13] = addmod /\ code[14] = swap(3) /\ code[15] = pop
        /\ code[16] = push(PRIME) /\ code[17] = swap(2) /\ code[18] = addmod
    BY DEF SPREAD_INTERNAL, PUSH_PRIME
  <2> HIDE DEF code
  <2>3. From(code, 1) = code /\ From(code, 19) = <<>>
    <3>1. From(code, 1) = code
      BY <2>1, CodeFrom
    <3>2. From(code, 19) = <<>>
      <4>1. Len(code) \in Nat /\ 19 > Len(code) /\ 19 \in Nat
        BY <2>1
      <4> QED BY <2>1, <4>1, Unfold
    <3> QED BY <3>1, <3>2
  <2>4. \A k, n \in Nat : k \in 1..18 /\ n = k + 1 => From(code, k) = Cons(code[k],
        From(code, n))
    BY <2>1, CodeFrom
  <2>5. From(code, 16) = c5
    <3>1. From(code, 16) = Cons(code[16], From(code, 17)) /\ From(code, 17) =
        Cons(code[17], From(code, 18)) /\ From(code, 18) = Cons(code[18], From(code, 19))
      BY <2>4
    <3> QED BY <2>2, <2>3, <3>1
  <2>6. From(code, 13) = c4
    <3>1. From(code, 13) = Cons(code[13], From(code, 14)) /\ From(code, 14) =
        Cons(code[14], From(code, 15)) /\ From(code, 15) = Cons(code[15], From(code, 16))
      BY <2>4
    <3> QED BY <2>2, <2>3, <3>1, <2>5
  <2>7. From(code, 10) = c3
    <3>1. From(code, 10) = Cons(code[10], From(code, 11)) /\ From(code, 11) =
        Cons(code[11], From(code, 12)) /\ From(code, 12) = Cons(code[12], From(code, 13))
      BY <2>4
    <3> QED BY <2>2, <2>3, <3>1, <2>6
  <2>8. From(code, 7) = c2
    <3>1. From(code, 7) = Cons(code[7], From(code, 8)) /\ From(code, 8) = Cons(code[8],
        From(code, 9)) /\ From(code, 9) = Cons(code[9], From(code, 10))
      BY <2>4
    <3> QED BY <2>2, <2>3, <3>1, <2>7
  <2>9. From(code, 4) = c1
    <3>1. From(code, 4) = Cons(code[4], From(code, 5)) /\ From(code, 5) = Cons(code[5],
        From(code, 6)) /\ From(code, 6) = Cons(code[6], From(code, 7))
      BY <2>4
    <3> QED BY <2>2, <2>3, <3>1, <2>8
  <2>10. From(code, 1) = c0
    <3>1. From(code, 1) = Cons(code[1], From(code, 2)) /\ From(code, 2) = Cons(code[2],
        From(code, 3)) /\ From(code, 3) = Cons(code[3], From(code, 4))
      BY <2>4
    <3> QED BY <2>2, <2>3, <3>1, <2>9
  <2> QED BY <2>3, <2>10 DEF code
<1>2. IsSeq(<<>>) /\ IsSeq(c5) /\ IsSeq(c4) /\ IsSeq(c3) /\ IsSeq(c2) /\ IsSeq(c1) /\
        IsSeq(c0)
  BY ConsIsSeq, EmptyIsSeq
<1> HIDE DEF c0, c1, c2, c3, c4, c5
<1>3. Run(Machine(Cons(t, Cons(a, Cons(b, Cons(c, s)))), mem, cd), c0)
        = Run(Machine(Cons(PRIME, Cons(t, Cons(PRIME, Cons(t, Cons(a, Cons(b, Cons(c,
            s))))))), mem, cd), c1)
  BY <1>2, RunCons, ConsIsSeq, ExecPush, ExecDup2 DEF c0
<1>4. @ = Run(Machine(Cons(AddMod(c, c, PRIME), Cons(t, Cons(PRIME, Cons(t, Cons(a, Cons(b,
        Cons(c, s))))))), mem, cd), c2)
  BY <1>2, RunCons, ConsIsSeq, ExecDup7, ExecDup1, ExecAddmod DEF c1
<1>5. @ = Run(Machine(Cons(t, Cons(a, Cons(b, Cons(AddMod(AddMod(c, c, PRIME), t, PRIME),
        s)))), mem, cd), c3)
  BY <1>2, RunCons, ConsIsSeq, ExecAddmod, ExecSwap4, ExecPop DEF c2
<1>6. @ = Run(Machine(Cons(b, Cons(t, Cons(PRIME, Cons(t, Cons(a, Cons(b,
        Cons(AddMod(AddMod(c, c, PRIME), t, PRIME), s))))))), mem, cd), c4)
  BY <1>2, RunCons, ConsIsSeq, ExecPush, ExecDup2, ExecDup5 DEF c3
<1>7. @ = Run(Machine(Cons(t, Cons(a, Cons(AddMod(b, t, PRIME), Cons(AddMod(AddMod(c, c,
        PRIME), t, PRIME), s)))), mem, cd), c5)
  BY <1>2, RunCons, ConsIsSeq, ExecAddmod, ExecSwap3, ExecPop DEF c4
<1>8. @ = Run(Machine(Cons(AddMod(a, t, PRIME), Cons(AddMod(b, t, PRIME),
        Cons(AddMod(AddMod(c, c, PRIME), t, PRIME), s))), mem, cd), <<>>)
  BY <1>2, RunCons, ConsIsSeq, ExecPush, ExecSwap2, ExecAddmod DEF c5
<1> QED BY <1>1, <1>2, <1>3, <1>4, <1>5, <1>6, <1>7, <1>8, RunNothing

LEMMA RunTakeElement ==
    ASSUME NEW s, IsSeq(s), NEW mem, NEW cd, NEW a, NEW b, NEW c, NEW w
    PROVE  /\ IsSeq(TAKE_ELEMENT(w))
           /\ Run(Machine(Cons(a, Cons(b, Cons(c, s))), mem, cd), TAKE_ELEMENT(w))
                = Machine(Cons(AddMod(w, c, PRIME), Cons(PRIME, Cons(a, Cons(b, Cons(c,
                    s))))), mem, cd)
<1> DEFINE c1 == Cons(addmod, Cons(push(PRIME), Cons(swap(1), <<>>)))
           c0 == Cons(push(PRIME), Cons(dup(4), Cons(push(w), c1)))
<1>1. TAKE_ELEMENT(w) = c0
  <2> DEFINE code == TAKE_ELEMENT(w)
  <2>1. code \in Seq(Instructions({PRIME, w})) /\ Len(code) = 6
    BY DEF TAKE_ELEMENT, PUSH_PRIME, Instructions
  <2>2. /\ code[1] = push(PRIME) /\ code[2] = dup(4) /\ code[3] = push(w)
        /\ code[4] = addmod /\ code[5] = push(PRIME) /\ code[6] = swap(1)
    BY DEF TAKE_ELEMENT, PUSH_PRIME
  <2> HIDE DEF code
  <2>3. From(code, 1) = code /\ From(code, 7) = <<>>
    <3>1. From(code, 1) = code
      BY <2>1, CodeFrom
    <3>2. From(code, 7) = <<>>
      <4>1. Len(code) \in Nat /\ 7 > Len(code) /\ 7 \in Nat
        BY <2>1
      <4> QED BY <2>1, <4>1, Unfold
    <3> QED BY <3>1, <3>2
  <2>4. \A k, n \in Nat : k \in 1..6 /\ n = k + 1 => From(code, k) = Cons(code[k],
        From(code, n))
    BY <2>1, CodeFrom
  <2>5. From(code, 4) = c1
    <3>1. From(code, 4) = Cons(code[4], From(code, 5)) /\ From(code, 5) = Cons(code[5],
        From(code, 6)) /\ From(code, 6) = Cons(code[6], From(code, 7))
      BY <2>4
    <3> QED BY <2>2, <2>3, <3>1
  <2>6. From(code, 1) = c0
    <3>1. From(code, 1) = Cons(code[1], From(code, 2)) /\ From(code, 2) = Cons(code[2],
        From(code, 3)) /\ From(code, 3) = Cons(code[3], From(code, 4))
      BY <2>4
    <3> QED BY <2>2, <2>3, <3>1, <2>5
  <2> QED BY <2>3, <2>6 DEF code
<1>2. IsSeq(<<>>) /\ IsSeq(c1) /\ IsSeq(c0)
  BY ConsIsSeq, EmptyIsSeq
<1> HIDE DEF c0, c1
<1>3. Run(Machine(Cons(a, Cons(b, Cons(c, s))), mem, cd), c0)
        = Run(Machine(Cons(w, Cons(c, Cons(PRIME, Cons(a, Cons(b, Cons(c, s)))))), mem,
            cd), c1)
  BY <1>2, RunCons, ConsIsSeq, ExecPush, ExecDup4 DEF c0
<1>4. @ = Run(Machine(Cons(AddMod(w, c, PRIME), Cons(PRIME, Cons(a, Cons(b, Cons(c, s))))),
        mem, cd), <<>>)
  BY <1>2, RunCons, ConsIsSeq, ExecAddmod, ExecPush, ExecSwap1 DEF c1
<1> QED BY <1>1, <1>2, <1>3, <1>4, RunNothing

LEMMA RunAddToFirst ==
    ASSUME NEW s, IsSeq(s), NEW mem, NEW cd, NEW a, NEW w
    PROVE  /\ IsSeq(ADD_TO_FIRST(w))
           /\ Run(Machine(Cons(a, s), mem, cd), ADD_TO_FIRST(w))
                = Machine(Cons(AddMod(w, a, PRIME), Cons(PRIME, s)), mem, cd)
<1> DEFINE c1 == Cons(addmod, Cons(push(PRIME), Cons(swap(1), <<>>)))
           c0 == Cons(push(PRIME), Cons(swap(1), Cons(push(w), c1)))
<1>1. ADD_TO_FIRST(w) = c0
  <2> DEFINE code == ADD_TO_FIRST(w)
  <2>1. code \in Seq(Instructions({PRIME, w})) /\ Len(code) = 6
    BY DEF ADD_TO_FIRST, PUSH_PRIME, Instructions
  <2>2. /\ code[1] = push(PRIME) /\ code[2] = swap(1) /\ code[3] = push(w)
        /\ code[4] = addmod /\ code[5] = push(PRIME) /\ code[6] = swap(1)
    BY DEF ADD_TO_FIRST, PUSH_PRIME
  <2> HIDE DEF code
  <2>3. From(code, 1) = code /\ From(code, 7) = <<>>
    <3>1. From(code, 1) = code
      BY <2>1, CodeFrom
    <3>2. From(code, 7) = <<>>
      <4>1. Len(code) \in Nat /\ 7 > Len(code) /\ 7 \in Nat
        BY <2>1
      <4> QED BY <2>1, <4>1, Unfold
    <3> QED BY <3>1, <3>2
  <2>4. \A k, n \in Nat : k \in 1..6 /\ n = k + 1 => From(code, k) = Cons(code[k],
        From(code, n))
    BY <2>1, CodeFrom
  <2>5. From(code, 4) = c1
    <3>1. From(code, 4) = Cons(code[4], From(code, 5)) /\ From(code, 5) = Cons(code[5],
        From(code, 6)) /\ From(code, 6) = Cons(code[6], From(code, 7))
      BY <2>4
    <3> QED BY <2>2, <2>3, <3>1
  <2>6. From(code, 1) = c0
    <3>1. From(code, 1) = Cons(code[1], From(code, 2)) /\ From(code, 2) = Cons(code[2],
        From(code, 3)) /\ From(code, 3) = Cons(code[3], From(code, 4))
      BY <2>4
    <3> QED BY <2>2, <2>3, <3>1, <2>5
  <2> QED BY <2>3, <2>6 DEF code
<1>2. IsSeq(<<>>) /\ IsSeq(c1) /\ IsSeq(c0)
  BY ConsIsSeq, EmptyIsSeq
<1> HIDE DEF c0, c1
<1>3. Run(Machine(Cons(a, s), mem, cd), c0)
        = Run(Machine(Cons(w, Cons(a, Cons(PRIME, s))), mem, cd), c1)
  BY <1>2, RunCons, ConsIsSeq, ExecPush, ExecSwap1 DEF c0
<1>4. @ = Run(Machine(Cons(AddMod(w, a, PRIME), Cons(PRIME, s)), mem, cd), <<>>)
  BY <1>2, RunCons, ConsIsSeq, ExecAddmod, ExecPush, ExecSwap1 DEF c1
<1> QED BY <1>1, <1>2, <1>3, <1>4, RunNothing

LEMMA RunDropOldState ==
    ASSUME NEW s, IsSeq(s), NEW mem, NEW cd, NEW a, NEW b, NEW c, NEW x, NEW y, NEW z
    PROVE  /\ IsSeq(DROP_OLD_STATE)
           /\ Run(Machine(Cons(x, Cons(y, Cons(z, Cons(a, Cons(b, Cons(c, s)))))), mem,
               cd), DROP_OLD_STATE)
                = Machine(Cons(x, Cons(y, Cons(z, s))), mem, cd)
<1> DEFINE c1 == Cons(pop, Cons(swap(3), Cons(pop, <<>>)))
           c0 == Cons(swap(3), Cons(pop, Cons(swap(3), c1)))
<1>1. DROP_OLD_STATE = c0
  <2> DEFINE code == DROP_OLD_STATE
  <2>1. code \in Seq(Instructions({})) /\ Len(code) = 6
    BY DEF DROP_OLD_STATE, Instructions
  <2>2. /\ code[1] = swap(3) /\ code[2] = pop /\ code[3] = swap(3)
        /\ code[4] = pop /\ code[5] = swap(3) /\ code[6] = pop
    BY DEF DROP_OLD_STATE
  <2> HIDE DEF code
  <2>3. From(code, 1) = code /\ From(code, 7) = <<>>
    <3>1. From(code, 1) = code
      BY <2>1, CodeFrom
    <3>2. From(code, 7) = <<>>
      <4>1. Len(code) \in Nat /\ 7 > Len(code) /\ 7 \in Nat
        BY <2>1
      <4> QED BY <2>1, <4>1, Unfold
    <3> QED BY <3>1, <3>2
  <2>4. \A k, n \in Nat : k \in 1..6 /\ n = k + 1 => From(code, k) = Cons(code[k],
        From(code, n))
    BY <2>1, CodeFrom
  <2>5. From(code, 4) = c1
    <3>1. From(code, 4) = Cons(code[4], From(code, 5)) /\ From(code, 5) = Cons(code[5],
        From(code, 6)) /\ From(code, 6) = Cons(code[6], From(code, 7))
      BY <2>4
    <3> QED BY <2>2, <2>3, <3>1
  <2>6. From(code, 1) = c0
    <3>1. From(code, 1) = Cons(code[1], From(code, 2)) /\ From(code, 2) = Cons(code[2],
        From(code, 3)) /\ From(code, 3) = Cons(code[3], From(code, 4))
      BY <2>4
    <3> QED BY <2>2, <2>3, <3>1, <2>5
  <2> QED BY <2>3, <2>6 DEF code
<1>2. IsSeq(<<>>) /\ IsSeq(c1) /\ IsSeq(c0)
  BY ConsIsSeq, EmptyIsSeq
<1> HIDE DEF c0, c1
<1>3. Run(Machine(Cons(x, Cons(y, Cons(z, Cons(a, Cons(b, Cons(c, s)))))), mem, cd), c0)
        = Run(Machine(Cons(b, Cons(z, Cons(x, Cons(y, Cons(c, s))))), mem, cd), c1)
  BY <1>2, RunCons, ConsIsSeq, ExecSwap3, ExecPop DEF c0
<1>4. @ = Run(Machine(Cons(x, Cons(y, Cons(z, s))), mem, cd), <<>>)
  BY <1>2, RunCons, ConsIsSeq, ExecPop, ExecSwap3 DEF c1
<1> QED BY <1>1, <1>2, <1>3, <1>4, RunNothing

(* The two linear layers.                                                   *)
LEMMA RunExternalMDS ==
    ASSUME NEW s, IsSeq(s), NEW mem, NEW cd, NEW a, NEW b, NEW c
    PROVE  /\ IsSeq(EXTERNAL_MDS)
           /\ Run(Machine(Cons(a, Cons(b, Cons(c, s))), mem, cd), EXTERNAL_MDS)
                = Machine(Cons(AddMod(a, Sum3(a, b, c), PRIME),
                            Cons(AddMod(b, Sum3(a, b, c), PRIME),
                              Cons(AddMod(c, Sum3(a, b, c), PRIME), s))), mem, cd)
<1>1. EXTERNAL_MDS = SUM_FIRST_THREE \o SPREAD_EXTERNAL
  BY DEF EXTERNAL_MDS, SPREAD_EXTERNAL
<1>2. Run(Machine(Cons(a, Cons(b, Cons(c, s))), mem, cd), SUM_FIRST_THREE)
        = Machine(Cons(Sum3(a, b, c), Cons(a, Cons(b, Cons(c, s)))), mem, cd)
  BY RunSum DEF Sum3
<1> QED BY <1>1, <1>2, RunSum, RunSpreadExternal, RunConcat, SeqConcat

LEMMA RunInternalMDS ==
    ASSUME NEW s, IsSeq(s), NEW mem, NEW cd, NEW a, NEW b, NEW c
    PROVE  /\ IsSeq(INTERNAL_MDS)
           /\ Run(Machine(Cons(a, Cons(b, Cons(c, s))), mem, cd), INTERNAL_MDS)
                = Machine(Cons(AddMod(a, Sum3(a, b, c), PRIME),
                            Cons(AddMod(b, Sum3(a, b, c), PRIME),
                              Cons(AddMod(AddMod(c, c, PRIME), Sum3(a, b, c), PRIME), s))), mem, cd)
<1>1. INTERNAL_MDS = SUM_FIRST_THREE \o SPREAD_INTERNAL
  BY DEF INTERNAL_MDS, SPREAD_INTERNAL
<1>2. Run(Machine(Cons(a, Cons(b, Cons(c, s))), mem, cd), SUM_FIRST_THREE)
        = Machine(Cons(Sum3(a, b, c), Cons(a, Cons(b, Cons(c, s)))), mem, cd)
  BY RunSum DEF Sum3
<1> QED BY <1>1, <1>2, RunSum, RunSpreadInternal, RunConcat, SeqConcat

(* An element is taken from below the others, and its fifth power pushed.   *)
LEMMA RunElement ==
    ASSUME NEW s, IsSeq(s), NEW mem, NEW cd, NEW a, NEW b, NEW c, NEW k
    PROVE  /\ IsSeq(TAKE_ELEMENT(k) \o SBOX)
           /\ Run(Machine(Cons(a, Cons(b, Cons(c, s))), mem, cd), TAKE_ELEMENT(k) \o SBOX)
                = Machine(Cons(Power5(AddMod(k, c, PRIME)), Cons(a, Cons(b, Cons(c, s)))), mem, cd)
<1>1. IsSeq(Cons(a, Cons(b, Cons(c, s))))
  BY ConsIsSeq
<1>2. IsSeq(TAKE_ELEMENT(k)) /\ IsSeq(SBOX)
  BY RunTakeElement, RunSBOX
<1>3. Run(Machine(Cons(a, Cons(b, Cons(c, s))), mem, cd), TAKE_ELEMENT(k))
        = Machine(Cons(AddMod(k, c, PRIME), Cons(PRIME, Cons(a, Cons(b, Cons(c, s))))), mem, cd)
  BY RunTakeElement
<1>4. Run(Machine(Cons(AddMod(k, c, PRIME), Cons(PRIME, Cons(a, Cons(b, Cons(c, s))))), mem, cd), SBOX)
        = Machine(Cons(Power5(AddMod(k, c, PRIME)), Cons(a, Cons(b, Cons(c, s)))), mem, cd)
  BY <1>1, RunSBOX DEF Power5
<1> QED BY <1>2, <1>3, <1>4, RunConcat, SeqConcat

LEMMA TakeElementCode ==
    ASSUME NEW k
    PROVE  <<PUSH_PRIME, dup(4)>> \o ADD_RC(k) \o <<PUSH_PRIME, swap(1)>> = TAKE_ELEMENT(k)
<1> DEFINE t == <<PUSH_PRIME, dup(4)>> \o ADD_RC(k) \o <<PUSH_PRIME, swap(1)>>
           u == TAKE_ELEMENT(k)
<1>1. /\ t \in Seq(Instructions({PRIME, k})) /\ Len(t) = 6
      /\ t[1] = PUSH_PRIME /\ t[2] = dup(4) /\ t[3] = push(k) /\ t[4] = addmod
      /\ t[5] = PUSH_PRIME /\ t[6] = swap(1)
  BY DEF ADD_RC, Instructions, PUSH_PRIME
<1>2. /\ u \in Seq(Instructions({PRIME, k})) /\ Len(u) = 6
      /\ u[1] = PUSH_PRIME /\ u[2] = dup(4) /\ u[3] = push(k) /\ u[4] = addmod
      /\ u[5] = PUSH_PRIME /\ u[6] = swap(1)
  BY DEF TAKE_ELEMENT, Instructions, PUSH_PRIME
<1> HIDE DEF t, u
<1>3. \A i \in 1..Len(t) : t[i] = u[i]
  BY <1>1, <1>2
<1>4. t = u
  BY <1>1, <1>2, <1>3
<1> QED BY <1>4 DEF t, u

LEMMA AddToFirstCode ==
    ASSUME NEW k
    PROVE  <<PUSH_PRIME, swap(1)>> \o ADD_RC(k) \o <<PUSH_PRIME, swap(1)>> = ADD_TO_FIRST(k)
<1> DEFINE t == <<PUSH_PRIME, swap(1)>> \o ADD_RC(k) \o <<PUSH_PRIME, swap(1)>>
           u == ADD_TO_FIRST(k)
<1>1. /\ t \in Seq(Instructions({PRIME, k})) /\ Len(t) = 6
      /\ t[1] = PUSH_PRIME /\ t[2] = swap(1) /\ t[3] = push(k) /\ t[4] = addmod
      /\ t[5] = PUSH_PRIME /\ t[6] = swap(1)
  BY DEF ADD_RC, Instructions, PUSH_PRIME
<1>2. /\ u \in Seq(Instructions({PRIME, k})) /\ Len(u) = 6
      /\ u[1] = PUSH_PRIME /\ u[2] = swap(1) /\ u[3] = push(k) /\ u[4] = addmod
      /\ u[5] = PUSH_PRIME /\ u[6] = swap(1)
  BY DEF ADD_TO_FIRST, Instructions, PUSH_PRIME
<1> HIDE DEF t, u
<1>3. \A i \in 1..Len(t) : t[i] = u[i]
  BY <1>1, <1>2
<1>4. t = u
  BY <1>1, <1>2, <1>3
<1> QED BY <1>4 DEF t, u

(* A full round.                                                            *)
LEMMA RunExternalRound ==
    ASSUME NEW s, IsSeq(s), NEW mem, NEW cd, NEW a, NEW b, NEW c, NEW rc
    PROVE  Run(Machine(Cons(a, Cons(b, Cons(c, s))), mem, cd), EXTERNAL_ROUND(rc))
             = Run(Machine(Cons(Power5(AddMod(rc[1], a, PRIME)),
                             Cons(Power5(AddMod(rc[2], b, PRIME)),
                               Cons(Power5(AddMod(rc[3], c, PRIME)), s))), mem, cd), EXTERNAL_MDS)
<1> DEFINE E(k) == TAKE_ELEMENT(k) \o SBOX
           x == Power5(AddMod(rc[1], a, PRIME))
           y == Power5(AddMod(rc[2], b, PRIME))
           z == Power5(AddMod(rc[3], c, PRIME))
           old == Cons(a, Cons(b, Cons(c, s)))
<1>1. EXTERNAL_ROUND(rc) = E(rc[3]) \o E(rc[2]) \o E(rc[1]) \o DROP_OLD_STATE \o EXTERNAL_MDS
  <2>1. TAKE_ELEMENT(rc[3]) = <<PUSH_PRIME, dup(4)>> \o ADD_RC(rc[3]) \o <<PUSH_PRIME, swap(1)>>
    BY TakeElementCode
  <2>2. TAKE_ELEMENT(rc[2]) = <<PUSH_PRIME, dup(4)>> \o ADD_RC(rc[2]) \o <<PUSH_PRIME, swap(1)>>
    BY TakeElementCode
  <2>3. TAKE_ELEMENT(rc[1]) = <<PUSH_PRIME, dup(4)>> \o ADD_RC(rc[1]) \o <<PUSH_PRIME, swap(1)>>
    BY TakeElementCode
  <2> QED BY <2>1, <2>2, <2>3 DEF EXTERNAL_ROUND, DROP_OLD_STATE
<1>2. /\ IsSeq(E(rc[3])) /\ IsSeq(E(rc[2])) /\ IsSeq(E(rc[1]))
      /\ IsSeq(DROP_OLD_STATE) /\ IsSeq(EXTERNAL_MDS)
  BY RunElement, RunDropOldState, RunExternalMDS
<1>3. /\ Run(Machine(old, mem, cd), E(rc[3])) = Machine(Cons(z, old), mem, cd)
      /\ Run(Machine(Cons(z, old), mem, cd), E(rc[2])) = Machine(Cons(y, Cons(z, old)), mem, cd)
      /\ Run(Machine(Cons(y, Cons(z, old)), mem, cd), E(rc[1])) = Machine(Cons(x, Cons(y, Cons(z, old))), mem, cd)
  BY RunElement, ConsIsSeq
<1>4. Run(Machine(Cons(x, Cons(y, Cons(z, old))), mem, cd), DROP_OLD_STATE)
        = Machine(Cons(x, Cons(y, Cons(z, s))), mem, cd)
  BY RunDropOldState
<1> HIDE DEF E, x, y, z, old
<1>5. /\ IsSeq(E(rc[3]) \o E(rc[2])) /\ IsSeq(E(rc[3]) \o E(rc[2]) \o E(rc[1]))
      /\ IsSeq(E(rc[3]) \o E(rc[2]) \o E(rc[1]) \o DROP_OLD_STATE)
  BY <1>2, SeqConcat
<1>6. Run(Machine(old, mem, cd), EXTERNAL_ROUND(rc))
        = Run(Machine(Cons(x, Cons(y, Cons(z, s))), mem, cd), EXTERNAL_MDS)
  BY <1>1, <1>2, <1>3, <1>4, <1>5, RunConcat
<1> QED BY <1>6 DEF x, y, z, old

(* A partial round.                                                         *)
LEMMA RunInternalRound ==
    ASSUME NEW s, IsSeq(s), NEW mem, NEW cd, NEW a, NEW b, NEW c, NEW rc
    PROVE  Run(Machine(Cons(a, Cons(b, Cons(c, s))), mem, cd), INTERNAL_ROUND(rc))
             = Run(Machine(Cons(Power5(AddMod(rc, a, PRIME)), Cons(b, Cons(c, s))), mem, cd), INTERNAL_MDS)
<1>1. INTERNAL_ROUND(rc) = ADD_TO_FIRST(rc) \o SBOX \o INTERNAL_MDS
  BY AddToFirstCode DEF INTERNAL_ROUND
<1>2. IsSeq(ADD_TO_FIRST(rc)) /\ IsSeq(SBOX) /\ IsSeq(INTERNAL_MDS)
  BY RunAddToFirst, RunSBOX, RunInternalMDS
<1>3. IsSeq(Cons(b, Cons(c, s)))
  BY ConsIsSeq
<1>4. Run(Machine(Cons(a, Cons(b, Cons(c, s))), mem, cd), ADD_TO_FIRST(rc))
        = Machine(Cons(AddMod(rc, a, PRIME), Cons(PRIME, Cons(b, Cons(c, s)))), mem, cd)
  BY <1>3, RunAddToFirst
<1>5. Run(Machine(Cons(AddMod(rc, a, PRIME), Cons(PRIME, Cons(b, Cons(c, s)))), mem, cd), SBOX)
        = Machine(Cons(Power5(AddMod(rc, a, PRIME)), Cons(b, Cons(c, s))), mem, cd)
  BY <1>3, RunSBOX DEF Power5
<1>6. IsSeq(ADD_TO_FIRST(rc) \o SBOX)
  BY <1>2, SeqConcat
<1> QED BY <1>1, <1>2, <1>4, <1>5, <1>6, RunConcat

-----------------------------------------------------------------------------
(* Sums and powers modulo the prime.                                        *)
LEMMA ModRange ==
    ASSUME NEW p \in Nat \ {0}, NEW x \in Nat
    PROVE  x % p \in 0..p-1 /\ x \div p \in Nat /\ x = p * (x \div p) + (x % p)
BY SMT

LEMMA ModUnique ==
    ASSUME NEW p \in Nat \ {0}, NEW q \in Nat, NEW r \in 0..p-1
    PROVE  (p * q + r) % p = r
BY SMT

LEMMA ModMultiple ==
    ASSUME NEW p \in Nat \ {0}, NEW x \in Nat, NEW q \in Nat
    PROVE  (x + p * q) % p = x % p
<1> DEFINE r == x % p
           d == x \div p
<1>1. r \in 0..p-1 /\ x = p * d + r /\ d \in Nat
  BY ModRange
<1> HIDE DEF r, d
<1>2. x + p * q = p * (d + q) + r
  <2>1. p * (d + q) = p * d + p * q
    BY <1>1
  <2>2. p * d \in Nat /\ p * q \in Nat
    BY <1>1
  <2> QED BY <1>1, <2>1, <2>2
<1>3. (p * (d + q) + r) % p = r
  BY <1>1, ModUnique
<1> QED BY <1>2, <1>3 DEF r

LEMMA ModAdd ==
    ASSUME NEW p \in Nat \ {0}, NEW x \in Nat, NEW y \in Nat
    PROVE  ((x % p) + y) % p = (x + y) % p
<1> DEFINE r == x % p
           d == x \div p
<1>1. r \in 0..p-1 /\ x = p * d + r /\ d \in Nat
  BY ModRange
<1> HIDE DEF r, d
<1>2. x + y = (r + y) + p * d
  <2>1. ASSUME NEW e, e \in Nat, x = e + r PROVE x + y = (r + y) + e
    BY <1>1, <2>1
  <2>2. p * d \in Nat
    BY <1>1
  <2> QED BY <1>1, <2>1, <2>2
<1>3. ((r + y) + p * d) % p = (r + y) % p
  <2>1. r + y \in Nat
    BY <1>1
  <2> QED BY <1>1, <2>1, ModMultiple
<1> QED BY <1>2, <1>3 DEF r

LEMMA AddModIs ==
    ASSUME NEW a \in Nat, NEW b \in Nat
    PROVE  AddMod(a, b, PRIME) = (a + b) % PRIME /\ AddMod(a, b, PRIME) \in Nat
<1>1. PRIME \in Nat \ {0} /\ a + b \in Nat
  BY PoseidonAssumption
<1>2. (a + b) % PRIME \in Nat
  BY <1>1, ModRange
<1> QED BY <1>1, <1>2 DEF AddMod, Modulo

LEMMA MulModIs ==
    ASSUME NEW a \in Nat, NEW b \in Nat
    PROVE  MulMod(a, b, PRIME) = Times(a, b) /\ MulMod(a, b, PRIME) \in Nat
           /\ Times(a, b) = Times(b, a)
<1>1. PRIME \in Nat \ {0} /\ a * b \in Nat /\ a * b = b * a
  BY PoseidonAssumption
<1>2. (a * b) % PRIME \in Nat
  BY <1>1, ModRange
<1> QED BY <1>1, <1>2 DEF MulMod, Modulo, Times

(* The rows of the two linear layers.                                       *)
LEMMA LayersAre ==
    ASSUME NEW a \in Nat, NEW b \in Nat, NEW c \in Nat
    PROVE  /\ External(<<a, b, c>>)
                = <<AddMod(a, Sum3(a, b, c), PRIME), AddMod(b, Sum3(a, b, c), PRIME),
                    AddMod(c, Sum3(a, b, c), PRIME)>>
           /\ Internal(<<a, b, c>>)
                = <<AddMod(a, Sum3(a, b, c), PRIME), AddMod(b, Sum3(a, b, c), PRIME),
                    AddMod(AddMod(c, c, PRIME), Sum3(a, b, c), PRIME)>>
<1> DEFINE u == a + b + c
           t == Sum3(a, b, c)
<1>1. PRIME \in Nat \ {0} /\ u \in Nat
  BY PoseidonAssumption
<1>2. t = u % PRIME /\ t \in Nat
  <2>1. AddMod(b, a, PRIME) = (b + a) % PRIME /\ AddMod(b, a, PRIME) \in Nat
    BY AddModIs
  <2>2. t = (((b + a) % PRIME) + c) % PRIME /\ t \in Nat
    BY <2>1, AddModIs DEF Sum3
  <2>3. b + a \in Nat /\ (b + a) + c = u
    OBVIOUS
  <2>4. (((b + a) % PRIME) + c) % PRIME = ((b + a) + c) % PRIME
    BY <1>1, <2>3, ModAdd
  <2> QED BY <2>2, <2>3, <2>4
<1> HIDE DEF t
<1>3. ASSUME NEW x \in Nat PROVE AddMod(x, t, PRIME) = (x + u) % PRIME
  <2>1. AddMod(x, t, PRIME) = (x + t) % PRIME /\ x + t = t + x /\ x + u = u + x
    BY <1>1, <1>2, AddModIs
  <2>2. (t + x) % PRIME = (u + x) % PRIME
    BY <1>1, <1>2, ModAdd
  <2> QED BY <2>1, <2>2
<1>4. AddMod(AddMod(c, c, PRIME), t, PRIME) = ((c + c) + u) % PRIME
  <2>1. AddMod(c, c, PRIME) = (c + c) % PRIME /\ AddMod(c, c, PRIME) \in Nat
    BY AddModIs
  <2>2. AddMod(AddMod(c, c, PRIME), t, PRIME) = (((c + c) % PRIME) + u) % PRIME
    BY <1>3, <2>1
  <2>3. c + c \in Nat
    OBVIOUS
  <2> QED BY <1>1, <2>2, <2>3, ModAdd
<1>5. /\ a + u = 2 * a + 1 * b + 1 * c /\ b + u = 1 * a + 2 * b + 1 * c
      /\ c + u = 1 * a + 1 * b + 2 * c /\ (c + c) + u = 1 * a + 1 * b + 3 * c
  OBVIOUS
<1> HIDE DEF u
<1>6. /\ AddMod(a, t, PRIME) = (2 * a + 1 * b + 1 * c) % PRIME
      /\ AddMod(b, t, PRIME) = (1 * a + 2 * b + 1 * c) % PRIME
      /\ AddMod(c, t, PRIME) = (1 * a + 1 * b + 2 * c) % PRIME
      /\ AddMod(AddMod(c, c, PRIME), t, PRIME) = (1 * a + 1 * b + 3 * c) % PRIME
  BY <1>3, <1>4, <1>5
<1>7. /\ Dot(<<2, 1, 1>>, <<a, b, c>>) = (2 * a + 1 * b + 1 * c) % PRIME
      /\ Dot(<<1, 2, 1>>, <<a, b, c>>) = (1 * a + 2 * b + 1 * c) % PRIME
      /\ Dot(<<1, 1, 2>>, <<a, b, c>>) = (1 * a + 1 * b + 2 * c) % PRIME
      /\ Dot(<<1, 1, 3>>, <<a, b, c>>) = (1 * a + 1 * b + 3 * c) % PRIME
  BY DEF Dot
<1>8. /\ External(<<a, b, c>>) = <<Dot(<<2, 1, 1>>, <<a, b, c>>), Dot(<<1, 2, 1>>, <<a, b, c>>),
                                   Dot(<<1, 1, 2>>, <<a, b, c>>)>>
      /\ Internal(<<a, b, c>>) = <<Dot(<<2, 1, 1>>, <<a, b, c>>), Dot(<<1, 2, 1>>, <<a, b, c>>),
                                   Dot(<<1, 1, 3>>, <<a, b, c>>)>>
  BY DEF External, Internal, Matrix
<1>9. /\ External(<<a, b, c>>) = <<AddMod(a, t, PRIME), AddMod(b, t, PRIME), AddMod(c, t, PRIME)>>
      /\ Internal(<<a, b, c>>) = <<AddMod(a, t, PRIME), AddMod(b, t, PRIME),
                                   AddMod(AddMod(c, c, PRIME), t, PRIME)>>
  BY <1>6, <1>7, <1>8
<1> QED BY <1>9 DEF t

LEMMA LayersAreNat ==
    ASSUME NEW a \in Nat, NEW b \in Nat, NEW c \in Nat
    PROVE  /\ Sum3(a, b, c) \in Nat
           /\ AddMod(a, Sum3(a, b, c), PRIME) \in Nat /\ AddMod(b, Sum3(a, b, c), PRIME) \in Nat
           /\ AddMod(c, Sum3(a, b, c), PRIME) \in Nat
           /\ AddMod(AddMod(c, c, PRIME), Sum3(a, b, c), PRIME) \in Nat
<1>1. Sum3(a, b, c) \in Nat
  BY AddModIs DEF Sum3
<1> QED BY <1>1, AddModIs

LEMMA FifthIs ==
    ASSUME NEW x \in Nat, NEW rc \in Nat
    PROVE  Power5(AddMod(rc, x, PRIME)) = Fifth(x + rc) /\ Fifth(x + rc) \in Nat
<1> DEFINE y == (x + rc) % PRIME
<1>1. AddMod(rc, x, PRIME) = y /\ y \in Nat
  <2>1. rc + x = x + rc
    OBVIOUS
  <2> QED BY <2>1, AddModIs
<1>2. Fifth(x + rc) = Times(y, Times(Times(y, y), Times(y, y)))
  BY DEF Fifth
<1> HIDE DEF y
<1> DEFINE v == Times(y, y)
           w == Times(v, v)
<1>3. MulMod(y, y, PRIME) = v /\ v \in Nat
  BY <1>1, MulModIs
<1>4. MulMod(v, v, PRIME) = w /\ w \in Nat
  <2> HIDE DEF v
  <2> QED BY <1>3, MulModIs
<1>5. MulMod(w, y, PRIME) = Times(y, w) /\ Times(y, w) \in Nat
  <2> HIDE DEF w
  <2>1. MulMod(w, y, PRIME) = Times(w, y) /\ MulMod(w, y, PRIME) \in Nat /\ Times(w, y) = Times(y, w)
    BY <1>1, <1>4, MulModIs
  <2> QED BY <2>1
<1>6. Power5(y) = MulMod(w, y, PRIME)
  BY <1>3, <1>4 DEF Power5
<1> QED BY <1>1, <1>2, <1>5, <1>6

-----------------------------------------------------------------------------
(* Each macro of the permutation is a step of the reference's.              *)
OnTop(s, t) == Cons(s[1], Cons(s[2], Cons(s[3], t)))

Field == {<<a, b, c>> : a \in Nat, b \in Nat, c \in Nat}

LEMMA InField ==
    ASSUME NEW s
    PROVE  s \in Field <=> /\ s = <<s[1], s[2], s[3]>>
                           /\ s[1] \in Nat /\ s[2] \in Nat /\ s[3] \in Nat
BY DEF Field

LEMMA ExternalRuns ==
    ASSUME NEW t, IsSeq(t), NEW mem, NEW cd, NEW s \in Field
    PROVE  /\ External(s) \in Field
           /\ Run(Machine(OnTop(s, t), mem, cd), EXTERNAL_MDS) = Machine(OnTop(External(s), t), mem, cd)
<1>1. PICK a \in Nat, b \in Nat, c \in Nat : s = <<a, b, c>>
  BY DEF Field
<1> DEFINE x == AddMod(a, Sum3(a, b, c), PRIME)
           y == AddMod(b, Sum3(a, b, c), PRIME)
           z == AddMod(c, Sum3(a, b, c), PRIME)
<1>2. External(s) = <<x, y, z>> /\ x \in Nat /\ y \in Nat /\ z \in Nat
  BY <1>1, LayersAre, LayersAreNat
<1>3. Run(Machine(Cons(a, Cons(b, Cons(c, t))), mem, cd), EXTERNAL_MDS)
        = Machine(Cons(x, Cons(y, Cons(z, t))), mem, cd)
  BY RunExternalMDS
<1> HIDE DEF x, y, z
<1>4. OnTop(s, t) = Cons(a, Cons(b, Cons(c, t)))
  BY <1>1 DEF OnTop
<1>5. OnTop(External(s), t) = Cons(x, Cons(y, Cons(z, t))) /\ External(s) \in Field
  BY <1>2 DEF OnTop, Field
<1> QED BY <1>3, <1>4, <1>5

LEMMA InternalRuns ==
    ASSUME NEW t, IsSeq(t), NEW mem, NEW cd, NEW s \in Field
    PROVE  /\ Internal(s) \in Field
           /\ Run(Machine(OnTop(s, t), mem, cd), INTERNAL_MDS) = Machine(OnTop(Internal(s), t), mem, cd)
<1>1. PICK a \in Nat, b \in Nat, c \in Nat : s = <<a, b, c>>
  BY DEF Field
<1> DEFINE x == AddMod(a, Sum3(a, b, c), PRIME)
           y == AddMod(b, Sum3(a, b, c), PRIME)
           z == AddMod(AddMod(c, c, PRIME), Sum3(a, b, c), PRIME)
<1>2. Internal(s) = <<x, y, z>> /\ x \in Nat /\ y \in Nat /\ z \in Nat
  BY <1>1, LayersAre, LayersAreNat
<1>3. Run(Machine(Cons(a, Cons(b, Cons(c, t))), mem, cd), INTERNAL_MDS)
        = Machine(Cons(x, Cons(y, Cons(z, t))), mem, cd)
  BY RunInternalMDS
<1> HIDE DEF x, y, z
<1>4. OnTop(s, t) = Cons(a, Cons(b, Cons(c, t)))
  BY <1>1 DEF OnTop
<1>5. OnTop(Internal(s), t) = Cons(x, Cons(y, Cons(z, t))) /\ Internal(s) \in Field
  BY <1>2 DEF OnTop, Field
<1> QED BY <1>3, <1>4, <1>5

LEMMA FullRoundRuns ==
    ASSUME NEW t, IsSeq(t), NEW mem, NEW cd, NEW s \in Field,
           NEW rc, rc[1] \in Nat, rc[2] \in Nat, rc[3] \in Nat
    PROVE  /\ FullRound(rc, s) \in Field
           /\ Run(Machine(OnTop(s, t), mem, cd), EXTERNAL_ROUND(rc))
                = Machine(OnTop(FullRound(rc, s), t), mem, cd)
<1>1. PICK a \in Nat, b \in Nat, c \in Nat : s = <<a, b, c>>
  BY DEF Field
<1> DEFINE x == Fifth(a + rc[1])
           y == Fifth(b + rc[2])
           z == Fifth(c + rc[3])
           u == <<x, y, z>>
<1>2. /\ Power5(AddMod(rc[1], a, PRIME)) = x /\ Power5(AddMod(rc[2], b, PRIME)) = y
      /\ Power5(AddMod(rc[3], c, PRIME)) = z /\ x \in Nat /\ y \in Nat /\ z \in Nat
  BY FifthIs
<1>3. FullRound(rc, s) = External(u)
  BY <1>1 DEF FullRound
<1> HIDE DEF x, y, z
<1>4. u \in Field /\ OnTop(u, t) = Cons(x, Cons(y, Cons(z, t)))
  BY <1>2 DEF Field, OnTop
<1>5. OnTop(s, t) = Cons(a, Cons(b, Cons(c, t)))
  BY <1>1 DEF OnTop
<1>6. Run(Machine(Cons(a, Cons(b, Cons(c, t))), mem, cd), EXTERNAL_ROUND(rc))
        = Run(Machine(Cons(x, Cons(y, Cons(z, t))), mem, cd), EXTERNAL_MDS)
  BY <1>2, RunExternalRound
<1> HIDE DEF u
<1> QED BY <1>3, <1>4, <1>5, <1>6, ExternalRuns

LEMMA PartialRoundRuns ==
    ASSUME NEW t, IsSeq(t), NEW mem, NEW cd, NEW s \in Field, NEW rc \in Nat
    PROVE  /\ PartialRound(rc, s) \in Field
           /\ Run(Machine(OnTop(s, t), mem, cd), INTERNAL_ROUND(rc))
                = Machine(OnTop(PartialRound(rc, s), t), mem, cd)
<1>1. PICK a \in Nat, b \in Nat, c \in Nat : s = <<a, b, c>>
  BY DEF Field
<1> DEFINE x == Fifth(a + rc)
           u == <<x, b, c>>
<1>2. Power5(AddMod(rc, a, PRIME)) = x /\ x \in Nat
  BY FifthIs
<1>3. PartialRound(rc, s) = Internal(u)
  BY <1>1 DEF PartialRound
<1> HIDE DEF x
<1>4. u \in Field /\ OnTop(u, t) = Cons(x, Cons(b, Cons(c, t)))
  BY <1>2 DEF Field, OnTop
<1>5. OnTop(s, t) = Cons(a, Cons(b, Cons(c, t)))
  BY <1>1 DEF OnTop
<1>6. Run(Machine(Cons(a, Cons(b, Cons(c, t))), mem, cd), INTERNAL_ROUND(rc))
        = Run(Machine(Cons(x, Cons(b, Cons(c, t))), mem, cd), INTERNAL_MDS)
  BY <1>2, RunInternalRound
<1> HIDE DEF u
<1> QED BY <1>3, <1>4, <1>5, <1>6, InternalRuns

LEMMA HalfIs == HALF_FULL \in Nat /\ HALF_FULL <= R_F /\ R_F \in Nat /\ R_P \in Nat
<1>1. R_F \in Nat /\ R_P \in Nat
  BY PoseidonAssumption
<1> QED BY <1>1 DEF HALF_FULL

LEMMA GeneratedCode ==
    /\ Len(generate_huff_code) = R_F + R_P + 1
    /\ generate_huff_code[1] = EXTERNAL_MDS
    /\ \A i \in 1..HALF_FULL : generate_huff_code[1 + i] = generate_full_round(i)
    /\ \A i \in 1..R_P : generate_huff_code[1 + HALF_FULL + i] = generate_partial_round(i)
    /\ \A i \in 1..R_F - HALF_FULL :
         generate_huff_code[1 + HALF_FULL + R_P + i] = generate_full_round(HALF_FULL + i)
<1> DEFINE first  == <<EXTERNAL_MDS>>
           begin  == [i \in 1..HALF_FULL |-> generate_full_round(i)]
           middle == [i \in 1..R_P |-> generate_partial_round(i)]
           end    == [i \in 1..R_F - HALF_FULL |-> generate_full_round(HALF_FULL + i)]
           h      == HALF_FULL
           l      == R_F - HALF_FULL
<1>1. h \in Nat /\ l \in Nat /\ R_P \in Nat /\ h + l = R_F
  BY HalfIs
<1>2. IsSeq(first) /\ Len(first) = 1 /\ first[1] = EXTERNAL_MDS
  <2>1. first \in Seq({EXTERNAL_MDS})
    OBVIOUS
  <2> QED BY <2>1 DEF IsSeq
<1>3. IsSeq(begin) /\ Len(begin) = h /\ \A i \in 1..h : begin[i] = generate_full_round(i)
  <2>1. begin \in Seq({generate_full_round(i) : i \in 1..h}) /\ Len(begin) = h
    BY <1>1
  <2> QED BY <2>1 DEF IsSeq
<1>4. IsSeq(middle) /\ Len(middle) = R_P /\ \A i \in 1..R_P : middle[i] = generate_partial_round(i)
  <2>1. middle \in Seq({generate_partial_round(i) : i \in 1..R_P}) /\ Len(middle) = R_P
    BY <1>1
  <2> QED BY <2>1 DEF IsSeq
<1>5. IsSeq(end) /\ Len(end) = l /\ \A i \in 1..l : end[i] = generate_full_round(h + i)
  <2>1. end \in Seq({generate_full_round(HALF_FULL + i) : i \in 1..R_F - HALF_FULL}) /\ Len(end) = l
    BY <1>1
  <2> QED BY <2>1 DEF IsSeq
<1>6. generate_huff_code = first \o begin \o middle \o end
  BY DEF generate_huff_code
<1> HIDE DEF first, begin, middle, end, h, l
<1> DEFINE fb == first \o begin
           fbm == fb \o middle
<1>7. IsSeq(fb) /\ Len(fb) = 1 + h /\ fb[1] = EXTERNAL_MDS
      /\ \A i \in 1..h : fb[1 + i] = generate_full_round(i)
  <2>1. /\ IsSeq(fb) /\ Len(fb) = Len(first) + Len(begin)
        /\ \A i \in 1..Len(first) : fb[i] = first[i]
        /\ \A i \in 1..Len(begin) : fb[Len(first) + i] = begin[i]
    <3>1. IsSeq(first) /\ IsSeq(begin)
      BY <1>2, <1>3
    <3> QED BY <3>1, SeqConcat
  <2> HIDE DEF fb
  <2> QED BY <1>1, <1>2, <1>3, <2>1
<1> HIDE DEF fb
<1>8. IsSeq(fbm) /\ Len(fbm) = 1 + h + R_P
      /\ (\A i \in 1..1 + h : fbm[i] = fb[i])
      /\ \A i \in 1..R_P : fbm[1 + h + i] = generate_partial_round(i)
  <2>1. /\ IsSeq(fbm) /\ Len(fbm) = Len(fb) + Len(middle)
        /\ \A i \in 1..Len(fb) : fbm[i] = fb[i]
        /\ \A i \in 1..Len(middle) : fbm[Len(fb) + i] = middle[i]
    <3>1. IsSeq(fb) /\ IsSeq(middle)
      BY <1>4, <1>7
    <3> QED BY <3>1, SeqConcat
  <2> HIDE DEF fbm
  <2> QED BY <1>1, <1>4, <1>7, <2>1
<1> HIDE DEF fbm
<1>9. Len(fbm \o end) = 1 + h + R_P + l
      /\ (\A i \in 1..1 + h + R_P : (fbm \o end)[i] = fbm[i])
      /\ \A i \in 1..l : (fbm \o end)[1 + h + R_P + i] = generate_full_round(h + i)
  <2>1. /\ Len(fbm \o end) = Len(fbm) + Len(end)
        /\ \A i \in 1..Len(fbm) : (fbm \o end)[i] = fbm[i]
        /\ \A i \in 1..Len(end) : (fbm \o end)[Len(fbm) + i] = end[i]
    <3>1. IsSeq(fbm) /\ IsSeq(end)
      BY <1>5, <1>8
    <3> QED BY <3>1, SeqConcat
  <2> QED BY <1>1, <1>5, <1>8, <2>1
<1>10. generate_huff_code = fbm \o end
  BY <1>6 DEF fbm, fb
<1> HIDE DEF fbm, fb
<1> DEFINE g == generate_huff_code
<1>11. /\ Len(g) = 1 + h + R_P + l
       /\ (\A i \in 1..1 + h + R_P : g[i] = fbm[i])
       /\ \A i \in 1..l : g[1 + h + R_P + i] = generate_full_round(h + i)
  BY <1>9, <1>10
<1> HIDE DEF g
<1>12. Len(g) = R_F + R_P + 1
  BY <1>1, <1>11
<1>13. g[1] = EXTERNAL_MDS
  BY <1>1, <1>7, <1>8, <1>11
<1>14. ASSUME NEW i \in 1..h PROVE g[1 + i] = generate_full_round(i)
  <2>1. 1 + i \in 1..1 + h /\ 1 + i \in 1..1 + h + R_P
    BY <1>1
  <2> QED BY <2>1, <1>7, <1>8, <1>11
<1>15. ASSUME NEW i \in 1..R_P PROVE g[1 + h + i] = generate_partial_round(i)
  <2>1. 1 + h + i \in 1..1 + h + R_P
    BY <1>1
  <2> QED BY <2>1, <1>8, <1>11
<1> QED BY <1>11, <1>12, <1>13, <1>14, <1>15 DEF g, h, l

LEMMA RoundRuns ==
    ASSUME NEW k \in 1..R_F + R_P + 1, NEW t, IsSeq(t), NEW mem, NEW cd, NEW s \in Field
    PROVE  /\ Round(k, s) \in Field
           /\ Run(Machine(OnTop(s, t), mem, cd), generate_huff_code[k])
                = Machine(OnTop(Round(k, s), t), mem, cd)
<1> DEFINE r == k - 1
           h == HALF_FULL
<1>1. /\ h \in Nat /\ h <= R_F /\ R_F \in Nat /\ R_P \in Nat /\ r \in 0..R_F + R_P
      /\ k = 1 + r /\ k \in Nat
  BY HalfIs
<1>2. Round(k, s) = CASE r = 0 -> External(s)
                      [] r \in 1..h -> FullRound(FULL_ROUND_CONSTANTS[r], s)
                      [] r \in h + 1..h + R_P -> PartialRound(PARTIAL_ROUND_CONSTANTS[r - h], s)
                      [] OTHER -> FullRound(FULL_ROUND_CONSTANTS[r - R_P], s)
  BY DEF Round, HALF_FULL
<1> HIDE DEF r, h
<1>3. CASE r = 0
  <2>1. generate_huff_code[k] = EXTERNAL_MDS
    BY <1>1, <1>3, GeneratedCode
  <2>2. Round(k, s) = External(s)
    <3>1. r \notin 1..h /\ r \notin h + 1..h + R_P
      BY <1>1, <1>3
    <3> QED BY <1>2, <1>3, <3>1
  <2> QED BY <2>1, <2>2, ExternalRuns
<1>4. CASE r \in 1..h
  <2>1. generate_huff_code[k] = EXTERNAL_ROUND(FULL_ROUND_CONSTANTS[r])
    BY <1>1, <1>4, GeneratedCode DEF generate_full_round, h
  <2>2. Round(k, s) = FullRound(FULL_ROUND_CONSTANTS[r], s)
    <3>1. r # 0
      BY <1>1, <1>4
    <3>2. r \notin h + 1..h + R_P
      BY <1>1, <1>4
    <3> QED BY <1>2, <1>4, <3>1, <3>2
  <2> DEFINE rc == FULL_ROUND_CONSTANTS[r]
  <2>3. rc[1] \in Nat /\ rc[2] \in Nat /\ rc[3] \in Nat
    BY <1>1, <1>4, HasherAssumption
  <2> HIDE DEF rc
  <2> QED BY <2>1, <2>2, <2>3, FullRoundRuns DEF rc
<1>5. CASE r \in h + 1..h + R_P
  <2>1. r - h \in 1..R_P /\ k = 1 + h + (r - h)
    BY <1>1, <1>5
  <2>2. generate_huff_code[k] = INTERNAL_ROUND(PARTIAL_ROUND_CONSTANTS[r - h])
    BY <2>1, GeneratedCode DEF generate_partial_round, h
  <2>3. Round(k, s) = PartialRound(PARTIAL_ROUND_CONSTANTS[r - h], s)
    <3>1. r # 0
      BY <1>1, <1>5
    <3>2. r \notin 1..h
      BY <1>1, <1>5
    <3> QED BY <1>2, <1>5, <3>1, <3>2
  <2> DEFINE rc == PARTIAL_ROUND_CONSTANTS[r - h]
  <2>4. rc \in Nat
    BY <2>1, HasherAssumption
  <2> HIDE DEF rc
  <2>5. /\ PartialRound(rc, s) \in Field
        /\ Run(Machine(OnTop(s, t), mem, cd), INTERNAL_ROUND(rc))
             = Machine(OnTop(PartialRound(rc, s), t), mem, cd)
    BY <2>4, PartialRoundRuns
  <2> QED BY <2>2, <2>3, <2>5 DEF rc
<1>6. CASE r \in h + R_P + 1..R_F + R_P
  <2> DEFINE i == r - R_P - h
  <2>1. i \in 1..R_F - h /\ k = 1 + h + R_P + i /\ h + i = r - R_P /\ r - R_P \in 1..R_F
    BY <1>1, <1>6
  <2> HIDE DEF i
  <2>2. generate_huff_code[k] = EXTERNAL_ROUND(FULL_ROUND_CONSTANTS[r - R_P])
    <3>1. generate_huff_code[1 + h + R_P + i] = generate_full_round(h + i)
      BY <2>1, GeneratedCode DEF h
    <3> QED BY <3>1, <2>1 DEF generate_full_round
  <2>3. Round(k, s) = FullRound(FULL_ROUND_CONSTANTS[r - R_P], s)
    <3>1. r # 0
      BY <1>1, <1>6
    <3>2. r \notin 1..h
      BY <1>1, <1>6
    <3>3. r \notin h + 1..h + R_P
      BY <1>1, <1>6
    <3> QED BY <1>2, <3>1, <3>2, <3>3
  <2> DEFINE rc == FULL_ROUND_CONSTANTS[r - R_P]
  <2>4. rc[1] \in Nat /\ rc[2] \in Nat /\ rc[3] \in Nat
    BY <2>1, HasherAssumption
  <2> HIDE DEF rc
  <2> QED BY <2>2, <2>3, <2>4, FullRoundRuns DEF rc
<1>7. r = 0 \/ r \in 1..h \/ r \in h + 1..h + R_P \/ r \in h + R_P + 1..R_F + R_P
  BY <1>1
<1> QED BY <1>3, <1>4, <1>5, <1>6, <1>7

-----------------------------------------------------------------------------
(* The code of the loops, as the actions name it.                           *)
MERKLE_HASH_CODE ==
    <<push(64), push(4), calldataload, push(36), calldataload, push(68), calldataload,
        push(4), add, dup(1), calldataload, swap(1), push(32), add, swap(1), push(32),
        push(0), mstore, dup(1), push(1), add, push(32), mstore, swap(4), dup(3),
        dup(2), mstore, push(32), add, swap(4)>>

RETURN_HASHES ==
    <<push(32), mload, push(32), mul, push(64), add, push(0)>>

SPONGE_HASH_CODE ==
    <<push(4), calldataload, push(4), add, dup(1), calldataload, dup(2), push(32), add,
        swap(2), pop, push(0), push(0), push(0)>>

NEXT_LEVEL == <<swap(4), swap(3)>> \o HASH_MERKLE_LEVEL

RIGHT_CHILD == <<swap(2)>> \o LOWEST_BIT

STORE_LEVEL ==
    POSEIDON_TWO_TO_ONE_RESULT \o <<swap(1)>>
      \o <<swap(1), swap(2), swap(3), dup(3), dup(2), mstore, push(32), add>>
      \o <<swap(4), push(1), swap(1), sub>>

SQUEEZE == <<dup(2)>> \o <<push(0), mstore, push(32), push(0)>>

LEMMA RunMerkleHash ==
    ASSUME NEW s, IsSeq(s), NEW mem, NEW cd
    PROVE  /\ IsSeq(MERKLE_HASH_CODE)
           /\ Run(Machine(s, mem, cd), MERKLE_HASH_CODE)
                = Machine(Cons(Load(cd, Binary("add", 4, Load(cd, 68))), Cons(Binary("add",
                    32, Binary("add", 4, Load(cd, 68))), Cons(Load(cd, 36), Cons(Load(cd,
                    4), Cons(Binary("add", 32, 64), s))))), Store(Store(Store(mem, 0, 32),
                    32, Binary("add", 1, Load(cd, Binary("add", 4, Load(cd, 68))))), 64,
                    Load(cd, 36)), cd)
<1> DEFINE c14 == Cons(add, Cons(swap(4), <<>>))
           c13 == Cons(mstore, Cons(push(32), c14))
           c12 == Cons(dup(3), Cons(dup(2), c13))
           c11 == Cons(mstore, Cons(swap(4), c12))
           c10 == Cons(add, Cons(push(32), c11))
           c9 == Cons(dup(1), Cons(push(1), c10))
           c8 == Cons(push(0), Cons(mstore, c9))
           c7 == Cons(swap(1), Cons(push(32), c8))
           c6 == Cons(push(32), Cons(add, c7))
           c5 == Cons(calldataload, Cons(swap(1), c6))
           c4 == Cons(add, Cons(dup(1), c5))
           c3 == Cons(calldataload, Cons(push(4), c4))
           c2 == Cons(calldataload, Cons(push(68), c3))
           c1 == Cons(calldataload, Cons(push(36), c2))
           c0 == Cons(push(64), Cons(push(4), c1))
<1>1. MERKLE_HASH_CODE = c0
  <2> DEFINE code == MERKLE_HASH_CODE
  <2>1. code \in Seq(Instructions({0, 1, 32, 36, 4, 64, 68})) /\ Len(code) = 30
    BY DEF MERKLE_HASH_CODE, Instructions
  <2>2. /\ code[1] = push(64) /\ code[2] = push(4) /\ code[3] = calldataload
        /\ code[4] = push(36) /\ code[5] = calldataload /\ code[6] = push(68)
        /\ code[7] = calldataload /\ code[8] = push(4) /\ code[9] = add
        /\ code[10] = dup(1) /\ code[11] = calldataload /\ code[12] = swap(1)
        /\ code[13] = push(32) /\ code[14] = add /\ code[15] = swap(1)
        /\ code[16] = push(32) /\ code[17] = push(0) /\ code[18] = mstore
        /\ code[19] = dup(1) /\ code[20] = push(1) /\ code[21] = add
        /\ code[22] = push(32) /\ code[23] = mstore /\ code[24] = swap(4)
        /\ code[25] = dup(3) /\ code[26] = dup(2) /\ code[27] = mstore
        /\ code[28] = push(32) /\ code[29] = add /\ code[30] = swap(4)
    BY DEF MERKLE_HASH_CODE
  <2> HIDE DEF code
  <2>3. From(code, 1) = code /\ From(code, 31) = <<>>
    <3>1. From(code, 1) = code
      BY <2>1, CodeFrom
    <3>2. From(code, 31) = <<>>
      <4>1. Len(code) \in Nat /\ 31 > Len(code) /\ 31 \in Nat
        BY <2>1
      <4> QED BY <2>1, <4>1, Unfold
    <3> QED BY <3>1, <3>2
  <2>4. \A k, n \in Nat : k \in 1..30 /\ n = k + 1 => From(code, k) = Cons(code[k],
        From(code, n))
    BY <2>1, CodeFrom
  <2>5. From(code, 29) = c14
    <3>1. From(code, 29) = Cons(code[29], From(code, 30)) /\ From(code, 30) =
        Cons(code[30], From(code, 31))
      BY <2>4
    <3> QED BY <2>2, <2>3, <3>1
  <2>6. From(code, 27) = c13
    <3>1. From(code, 27) = Cons(code[27], From(code, 28)) /\ From(code, 28) =
        Cons(code[28], From(code, 29))
      BY <2>4
    <3> QED BY <2>2, <2>3, <3>1, <2>5
  <2>7. From(code, 25) = c12
    <3>1. From(code, 25) = Cons(code[25], From(code, 26)) /\ From(code, 26) =
        Cons(code[26], From(code, 27))
      BY <2>4
    <3> QED BY <2>2, <2>3, <3>1, <2>6
  <2>8. From(code, 23) = c11
    <3>1. From(code, 23) = Cons(code[23], From(code, 24)) /\ From(code, 24) =
        Cons(code[24], From(code, 25))
      BY <2>4
    <3> QED BY <2>2, <2>3, <3>1, <2>7
  <2>9. From(code, 21) = c10
    <3>1. From(code, 21) = Cons(code[21], From(code, 22)) /\ From(code, 22) =
        Cons(code[22], From(code, 23))
      BY <2>4
    <3> QED BY <2>2, <2>3, <3>1, <2>8
  <2>10. From(code, 19) = c9
    <3>1. From(code, 19) = Cons(code[19], From(code, 20)) /\ From(code, 20) =
        Cons(code[20], From(code, 21))
      BY <2>4
    <3> QED BY <2>2, <2>3, <3>1, <2>9
  <2>11. From(code, 17) = c8
    <3>1. From(code, 17) = Cons(code[17], From(code, 18)) /\ From(code, 18) =
        Cons(code[18], From(code, 19))
      BY <2>4
    <3> QED BY <2>2, <2>3, <3>1, <2>10
  <2>12. From(code, 15) = c7
    <3>1. From(code, 15) = Cons(code[15], From(code, 16)) /\ From(code, 16) =
        Cons(code[16], From(code, 17))
      BY <2>4
    <3> QED BY <2>2, <2>3, <3>1, <2>11
  <2>13. From(code, 13) = c6
    <3>1. From(code, 13) = Cons(code[13], From(code, 14)) /\ From(code, 14) =
        Cons(code[14], From(code, 15))
      BY <2>4
    <3> QED BY <2>2, <2>3, <3>1, <2>12
  <2>14. From(code, 11) = c5
    <3>1. From(code, 11) = Cons(code[11], From(code, 12)) /\ From(code, 12) =
        Cons(code[12], From(code, 13))
      BY <2>4
    <3> QED BY <2>2, <2>3, <3>1, <2>13
  <2>15. From(code, 9) = c4
    <3>1. From(code, 9) = Cons(code[9], From(code, 10)) /\ From(code, 10) = Cons(code[10],
        From(code, 11))
      BY <2>4
    <3> QED BY <2>2, <2>3, <3>1, <2>14
  <2>16. From(code, 7) = c3
    <3>1. From(code, 7) = Cons(code[7], From(code, 8)) /\ From(code, 8) = Cons(code[8],
        From(code, 9))
      BY <2>4
    <3> QED BY <2>2, <2>3, <3>1, <2>15
  <2>17. From(code, 5) = c2
    <3>1. From(code, 5) = Cons(code[5], From(code, 6)) /\ From(code, 6) = Cons(code[6],
        From(code, 7))
      BY <2>4
    <3> QED BY <2>2, <2>3, <3>1, <2>16
  <2>18. From(code, 3) = c1
    <3>1. From(code, 3) = Cons(code[3], From(code, 4)) /\ From(code, 4) = Cons(code[4],
        From(code, 5))
      BY <2>4
    <3> QED BY <2>2, <2>3, <3>1, <2>17
  <2>19. From(code, 1) = c0
    <3>1. From(code, 1) = Cons(code[1], From(code, 2)) /\ From(code, 2) = Cons(code[2],
        From(code, 3))
      BY <2>4
    <3> QED BY <2>2, <2>3, <3>1, <2>18
  <2> QED BY <2>3, <2>19 DEF code
<1>2. IsSeq(<<>>) /\ IsSeq(c14) /\ IsSeq(c13) /\ IsSeq(c12) /\ IsSeq(c11) /\ IsSeq(c10) /\
        IsSeq(c9) /\ IsSeq(c8) /\ IsSeq(c7) /\ IsSeq(c6) /\ IsSeq(c5) /\ IsSeq(c4) /\
        IsSeq(c3) /\ IsSeq(c2) /\ IsSeq(c1) /\ IsSeq(c0)
  BY ConsIsSeq, EmptyIsSeq
<1> HIDE DEF c0, c1, c2, c3, c4, c5, c6, c7, c8, c9, c10, c11, c12, c13, c14
<1>3. Run(Machine(s, mem, cd), c0)
        = Run(Machine(Cons(4, Cons(64, s)), mem, cd), c1)
  BY <1>2, RunCons, ConsIsSeq, ExecPush DEF c0
<1>4. @ = Run(Machine(Cons(36, Cons(Load(cd, 4), Cons(64, s))), mem, cd), c2)
  BY <1>2, RunCons, ConsIsSeq, ExecCalldataload, ExecPush DEF c1
<1>5. @ = Run(Machine(Cons(68, Cons(Load(cd, 36), Cons(Load(cd, 4), Cons(64, s)))), mem,
        cd), c3)
  BY <1>2, RunCons, ConsIsSeq, ExecCalldataload, ExecPush DEF c2
<1>6. @ = Run(Machine(Cons(4, Cons(Load(cd, 68), Cons(Load(cd, 36), Cons(Load(cd, 4),
        Cons(64, s))))), mem, cd), c4)
  BY <1>2, RunCons, ConsIsSeq, ExecCalldataload, ExecPush DEF c3
<1>7. @ = Run(Machine(Cons(Binary("add", 4, Load(cd, 68)), Cons(Binary("add", 4, Load(cd,
        68)), Cons(Load(cd, 36), Cons(Load(cd, 4), Cons(64, s))))), mem, cd), c5)
  BY <1>2, RunCons, ConsIsSeq, ExecAdd, ExecDup1 DEF c4
<1>8. @ = Run(Machine(Cons(Binary("add", 4, Load(cd, 68)), Cons(Load(cd, Binary("add", 4,
        Load(cd, 68))), Cons(Load(cd, 36), Cons(Load(cd, 4), Cons(64, s))))), mem, cd), c6)
  BY <1>2, RunCons, ConsIsSeq, ExecCalldataload, ExecSwap1 DEF c5
<1>9. @ = Run(Machine(Cons(Binary("add", 32, Binary("add", 4, Load(cd, 68))), Cons(Load(cd,
        Binary("add", 4, Load(cd, 68))), Cons(Load(cd, 36), Cons(Load(cd, 4), Cons(64,
        s))))), mem, cd), c7)
  BY <1>2, RunCons, ConsIsSeq, ExecPush, ExecAdd DEF c6
<1>10. @ = Run(Machine(Cons(32, Cons(Load(cd, Binary("add", 4, Load(cd, 68))),
        Cons(Binary("add", 32, Binary("add", 4, Load(cd, 68))), Cons(Load(cd, 36),
        Cons(Load(cd, 4), Cons(64, s)))))), mem, cd), c8)
  BY <1>2, RunCons, ConsIsSeq, ExecSwap1, ExecPush DEF c7
<1>11. @ = Run(Machine(Cons(Load(cd, Binary("add", 4, Load(cd, 68))), Cons(Binary("add",
        32, Binary("add", 4, Load(cd, 68))), Cons(Load(cd, 36), Cons(Load(cd, 4), Cons(64,
        s))))), Store(mem, 0, 32), cd), c9)
  BY <1>2, RunCons, ConsIsSeq, ExecPush, ExecMstore DEF c8
<1>12. @ = Run(Machine(Cons(1, Cons(Load(cd, Binary("add", 4, Load(cd, 68))), Cons(Load(cd,
        Binary("add", 4, Load(cd, 68))), Cons(Binary("add", 32, Binary("add", 4, Load(cd,
        68))), Cons(Load(cd, 36), Cons(Load(cd, 4), Cons(64, s))))))), Store(mem, 0, 32),
        cd), c10)
  BY <1>2, RunCons, ConsIsSeq, ExecDup1, ExecPush DEF c9
<1>13. @ = Run(Machine(Cons(32, Cons(Binary("add", 1, Load(cd, Binary("add", 4, Load(cd,
        68)))), Cons(Load(cd, Binary("add", 4, Load(cd, 68))), Cons(Binary("add", 32,
        Binary("add", 4, Load(cd, 68))), Cons(Load(cd, 36), Cons(Load(cd, 4), Cons(64,
        s))))))), Store(mem, 0, 32), cd), c11)
  BY <1>2, RunCons, ConsIsSeq, ExecAdd, ExecPush DEF c10
<1>14. @ = Run(Machine(Cons(64, Cons(Binary("add", 32, Binary("add", 4, Load(cd, 68))),
        Cons(Load(cd, 36), Cons(Load(cd, 4), Cons(Load(cd, Binary("add", 4, Load(cd, 68))),
        s))))), Store(Store(mem, 0, 32), 32, Binary("add", 1, Load(cd, Binary("add", 4,
        Load(cd, 68))))), cd), c12)
  BY <1>2, RunCons, ConsIsSeq, ExecMstore, ExecSwap4 DEF c11
<1>15. @ = Run(Machine(Cons(64, Cons(Load(cd, 36), Cons(64, Cons(Binary("add", 32,
        Binary("add", 4, Load(cd, 68))), Cons(Load(cd, 36), Cons(Load(cd, 4), Cons(Load(cd,
        Binary("add", 4, Load(cd, 68))), s))))))), Store(Store(mem, 0, 32), 32,
        Binary("add", 1, Load(cd, Binary("add", 4, Load(cd, 68))))), cd), c13)
  BY <1>2, RunCons, ConsIsSeq, ExecDup3, ExecDup2 DEF c12
<1>16. @ = Run(Machine(Cons(32, Cons(64, Cons(Binary("add", 32, Binary("add", 4, Load(cd,
        68))), Cons(Load(cd, 36), Cons(Load(cd, 4), Cons(Load(cd, Binary("add", 4, Load(cd,
        68))), s)))))), Store(Store(Store(mem, 0, 32), 32, Binary("add", 1, Load(cd,
        Binary("add", 4, Load(cd, 68))))), 64, Load(cd, 36)), cd), c14)
  BY <1>2, RunCons, ConsIsSeq, ExecMstore, ExecPush DEF c13
<1>17. @ = Run(Machine(Cons(Load(cd, Binary("add", 4, Load(cd, 68))), Cons(Binary("add",
        32, Binary("add", 4, Load(cd, 68))), Cons(Load(cd, 36), Cons(Load(cd, 4),
        Cons(Binary("add", 32, 64), s))))), Store(Store(Store(mem, 0, 32), 32,
        Binary("add", 1, Load(cd, Binary("add", 4, Load(cd, 68))))), 64, Load(cd, 36)),
        cd), <<>>)
  BY <1>2, RunCons, ConsIsSeq, ExecAdd, ExecSwap4 DEF c14
<1> QED BY <1>1, <1>2, <1>3, <1>4, <1>5, <1>6, <1>7, <1>8, <1>9, <1>10, <1>11, <1>12,
        <1>13, <1>14, <1>15, <1>16, <1>17, RunNothing

LEMMA RunNextLevel ==
    ASSUME NEW s, IsSeq(s), NEW mem, NEW cd, NEW r, NEW q, NEW h, NEW x, NEW o
    PROVE  /\ IsSeq(NEXT_LEVEL)
           /\ Run(Machine(Cons(r, Cons(q, Cons(h, Cons(x, Cons(o, s))))), mem, cd),
               NEXT_LEVEL)
                = Machine(Cons(h, Cons(Load(cd, q), Cons(x, Cons(Binary("add", 32, q),
                    Cons(Binary("shr", 1, x), Cons(o, Cons(r, s))))))), mem, cd)
<1> DEFINE c6 == Cons(swap(3), <<>>)
           c5 == Cons(shr, Cons(swap(4), c6))
           c4 == Cons(dup(2), Cons(push(1), c5))
           c3 == Cons(swap(2), Cons(calldataload, c4))
           c2 == Cons(add, Cons(swap(3), c3))
           c1 == Cons(dup(2), Cons(push(32), c2))
           c0 == Cons(swap(4), Cons(swap(3), c1))
<1>1. NEXT_LEVEL = c0
  <2> DEFINE code == NEXT_LEVEL
  <2>1. code \in Seq(Instructions({1, 32})) /\ Len(code) = 13
    BY DEF NEXT_LEVEL, HASH_MERKLE_LEVEL, Instructions
  <2>2. /\ code[1] = swap(4) /\ code[2] = swap(3) /\ code[3] = dup(2)
        /\ code[4] = push(32) /\ code[5] = add /\ code[6] = swap(3)
        /\ code[7] = swap(2) /\ code[8] = calldataload /\ code[9] = dup(2)
        /\ code[10] = push(1) /\ code[11] = shr /\ code[12] = swap(4)
        /\ code[13] = swap(3)
    BY DEF NEXT_LEVEL, HASH_MERKLE_LEVEL
  <2> HIDE DEF code
  <2>3. From(code, 1) = code /\ From(code, 14) = <<>>
    <3>1. From(code, 1) = code
      BY <2>1, CodeFrom
    <3>2. From(code, 14) = <<>>
      <4>1. Len(code) \in Nat /\ 14 > Len(code) /\ 14 \in Nat
        BY <2>1
      <4> QED BY <2>1, <4>1, Unfold
    <3> QED BY <3>1, <3>2
  <2>4. \A k, n \in Nat : k \in 1..13 /\ n = k + 1 => From(code, k) = Cons(code[k],
        From(code, n))
    BY <2>1, CodeFrom
  <2>5. From(code, 13) = c6
    <3>1. From(code, 13) = Cons(code[13], From(code, 14))
      BY <2>4
    <3> QED BY <2>2, <2>3, <3>1
  <2>6. From(code, 11) = c5
    <3>1. From(code, 11) = Cons(code[11], From(code, 12)) /\ From(code, 12) =
        Cons(code[12], From(code, 13))
      BY <2>4
    <3> QED BY <2>2, <2>3, <3>1, <2>5
  <2>7. From(code, 9) = c4
    <3>1. From(code, 9) = Cons(code[9], From(code, 10)) /\ From(code, 10) = Cons(code[10],
        From(code, 11))
      BY <2>4
    <3> QED BY <2>2, <2>3, <3>1, <2>6
  <2>8. From(code, 7) = c3
    <3>1. From(code, 7) = Cons(code[7], From(code, 8)) /\ From(code, 8) = Cons(code[8],
        From(code, 9))
      BY <2>4
    <3> QED BY <2>2, <2>3, <3>1, <2>7
  <2>9. From(code, 5) = c2
    <3>1. From(code, 5) = Cons(code[5], From(code, 6)) /\ From(code, 6) = Cons(code[6],
        From(code, 7))
      BY <2>4
    <3> QED BY <2>2, <2>3, <3>1, <2>8
  <2>10. From(code, 3) = c1
    <3>1. From(code, 3) = Cons(code[3], From(code, 4)) /\ From(code, 4) = Cons(code[4],
        From(code, 5))
      BY <2>4
    <3> QED BY <2>2, <2>3, <3>1, <2>9
  <2>11. From(code, 1) = c0
    <3>1. From(code, 1) = Cons(code[1], From(code, 2)) /\ From(code, 2) = Cons(code[2],
        From(code, 3))
      BY <2>4
    <3> QED BY <2>2, <2>3, <3>1, <2>10
  <2> QED BY <2>3, <2>11 DEF code
<1>2. IsSeq(<<>>) /\ IsSeq(c6) /\ IsSeq(c5) /\ IsSeq(c4) /\ IsSeq(c3) /\ IsSeq(c2) /\
        IsSeq(c1) /\ IsSeq(c0)
  BY ConsIsSeq, EmptyIsSeq
<1> HIDE DEF c0, c1, c2, c3, c4, c5, c6
<1>3. Run(Machine(Cons(r, Cons(q, Cons(h, Cons(x, Cons(o, s))))), mem, cd), c0)
        = Run(Machine(Cons(x, Cons(q, Cons(h, Cons(o, Cons(r, s))))), mem, cd), c1)
  BY <1>2, RunCons, ConsIsSeq, ExecSwap4, ExecSwap3 DEF c0
<1>4. @ = Run(Machine(Cons(32, Cons(q, Cons(x, Cons(q, Cons(h, Cons(o, Cons(r, s))))))),
        mem, cd), c2)
  BY <1>2, RunCons, ConsIsSeq, ExecDup2, ExecPush DEF c1
<1>5. @ = Run(Machine(Cons(h, Cons(x, Cons(q, Cons(Binary("add", 32, q), Cons(o, Cons(r,
        s)))))), mem, cd), c3)
  BY <1>2, RunCons, ConsIsSeq, ExecAdd, ExecSwap3 DEF c2
<1>6. @ = Run(Machine(Cons(Load(cd, q), Cons(x, Cons(h, Cons(Binary("add", 32, q), Cons(o,
        Cons(r, s)))))), mem, cd), c4)
  BY <1>2, RunCons, ConsIsSeq, ExecSwap2, ExecCalldataload DEF c3
<1>7. @ = Run(Machine(Cons(1, Cons(x, Cons(Load(cd, q), Cons(x, Cons(h, Cons(Binary("add",
        32, q), Cons(o, Cons(r, s)))))))), mem, cd), c5)
  BY <1>2, RunCons, ConsIsSeq, ExecDup2, ExecPush DEF c4
<1>8. @ = Run(Machine(Cons(Binary("add", 32, q), Cons(Load(cd, q), Cons(x, Cons(h,
        Cons(Binary("shr", 1, x), Cons(o, Cons(r, s))))))), mem, cd), c6)
  BY <1>2, RunCons, ConsIsSeq, ExecShr, ExecSwap4 DEF c5
<1>9. @ = Run(Machine(Cons(h, Cons(Load(cd, q), Cons(x, Cons(Binary("add", 32, q),
        Cons(Binary("shr", 1, x), Cons(o, Cons(r, s))))))), mem, cd), <<>>)
  BY <1>2, RunCons, ConsIsSeq, ExecSwap3 DEF c6
<1> QED BY <1>1, <1>2, <1>3, <1>4, <1>5, <1>6, <1>7, <1>8, <1>9, RunNothing

LEMMA RunRightChild ==
    ASSUME NEW s, IsSeq(s), NEW mem, NEW cd, NEW a, NEW b, NEW x
    PROVE  /\ IsSeq(RIGHT_CHILD)
           /\ Run(Machine(Cons(a, Cons(b, Cons(x, s))), mem, cd), RIGHT_CHILD)
                = Machine(Cons(Binary("and", 1, x), Cons(b, Cons(a, s))), mem, cd)
<1> DEFINE c0 == Cons(swap(2), Cons(push(1), Cons(and, <<>>)))
<1>1. RIGHT_CHILD = c0
  <2> DEFINE code == RIGHT_CHILD
  <2>1. code \in Seq(Instructions({1})) /\ Len(code) = 3
    BY DEF RIGHT_CHILD, LOWEST_BIT, Instructions
  <2>2. /\ code[1] = swap(2) /\ code[2] = push(1) /\ code[3] = and
    BY DEF RIGHT_CHILD, LOWEST_BIT
  <2> HIDE DEF code
  <2>3. From(code, 1) = code /\ From(code, 4) = <<>>
    <3>1. From(code, 1) = code
      BY <2>1, CodeFrom
    <3>2. From(code, 4) = <<>>
      <4>1. Len(code) \in Nat /\ 4 > Len(code) /\ 4 \in Nat
        BY <2>1
      <4> QED BY <2>1, <4>1, Unfold
    <3> QED BY <3>1, <3>2
  <2>4. \A k, n \in Nat : k \in 1..3 /\ n = k + 1 => From(code, k) = Cons(code[k],
        From(code, n))
    BY <2>1, CodeFrom
  <2>5. From(code, 1) = c0
    <3>1. From(code, 1) = Cons(code[1], From(code, 2)) /\ From(code, 2) = Cons(code[2],
        From(code, 3)) /\ From(code, 3) = Cons(code[3], From(code, 4))
      BY <2>4
    <3> QED BY <2>2, <2>3, <3>1
  <2> QED BY <2>3, <2>5 DEF code
<1>2. IsSeq(<<>>) /\ IsSeq(c0)
  BY ConsIsSeq, EmptyIsSeq
<1> HIDE DEF c0
<1>3. Run(Machine(Cons(a, Cons(b, Cons(x, s))), mem, cd), c0)
        = Run(Machine(Cons(Binary("and", 1, x), Cons(b, Cons(a, s))), mem, cd), <<>>)
  BY <1>2, RunCons, ConsIsSeq, ExecSwap2, ExecPush, ExecAnd DEF c0
<1> QED BY <1>1, <1>2, <1>3, RunNothing

LEMMA RunPop ==
    ASSUME NEW s, IsSeq(s), NEW mem, NEW cd, NEW a
    PROVE  /\ IsSeq(<<pop>>)
           /\ Run(Machine(Cons(a, s), mem, cd), <<pop>>)
                = Machine(s, mem, cd)
<1> DEFINE c0 == Cons(pop, <<>>)
<1>1. <<pop>> = c0
  <2> DEFINE code == <<pop>>
  <2>1. code \in Seq(Instructions({})) /\ Len(code) = 1
    BY DEF Instructions
  <2>2. /\ code[1] = pop
    OBVIOUS
  <2> HIDE DEF code
  <2>3. From(code, 1) = code /\ From(code, 2) = <<>>
    <3>1. From(code, 1) = code
      BY <2>1, CodeFrom
    <3>2. From(code, 2) = <<>>
      <4>1. Len(code) \in Nat /\ 2 > Len(code) /\ 2 \in Nat
        BY <2>1
      <4> QED BY <2>1, <4>1, Unfold
    <3> QED BY <3>1, <3>2
  <2>4. \A k, n \in Nat : k \in 1..1 /\ n = k + 1 => From(code, k) = Cons(code[k],
        From(code, n))
    BY <2>1, CodeFrom
  <2>5. From(code, 1) = c0
    <3>1. From(code, 1) = Cons(code[1], From(code, 2))
      BY <2>4
    <3> QED BY <2>2, <2>3, <3>1
  <2> QED BY <2>3, <2>5 DEF code
<1>2. IsSeq(<<>>) /\ IsSeq(c0)
  BY ConsIsSeq, EmptyIsSeq
<1> HIDE DEF c0
<1>3. Run(Machine(Cons(a, s), mem, cd), c0)
        = Run(Machine(s, mem, cd), <<>>)
  BY <1>2, RunCons, ConsIsSeq, ExecPop DEF c0
<1> QED BY <1>1, <1>2, <1>3, RunNothing

LEMMA RunSwap ==
    ASSUME NEW s, IsSeq(s), NEW mem, NEW cd, NEW a, NEW b
    PROVE  /\ IsSeq(<<swap(1)>>)
           /\ Run(Machine(Cons(a, Cons(b, s)), mem, cd), <<swap(1)>>)
                = Machine(Cons(b, Cons(a, s)), mem, cd)
<1> DEFINE c0 == Cons(swap(1), <<>>)
<1>1. <<swap(1)>> = c0
  <2> DEFINE code == <<swap(1)>>
  <2>1. code \in Seq(Instructions({})) /\ Len(code) = 1
    BY DEF Instructions
  <2>2. /\ code[1] = swap(1)
    OBVIOUS
  <2> HIDE DEF code
  <2>3. From(code, 1) = code /\ From(code, 2) = <<>>
    <3>1. From(code, 1) = code
      BY <2>1, CodeFrom
    <3>2. From(code, 2) = <<>>
      <4>1. Len(code) \in Nat /\ 2 > Len(code) /\ 2 \in Nat
        BY <2>1
      <4> QED BY <2>1, <4>1, Unfold
    <3> QED BY <3>1, <3>2
  <2>4. \A k, n \in Nat : k \in 1..1 /\ n = k + 1 => From(code, k) = Cons(code[k],
        From(code, n))
    BY <2>1, CodeFrom
  <2>5. From(code, 1) = c0
    <3>1. From(code, 1) = Cons(code[1], From(code, 2))
      BY <2>4
    <3> QED BY <2>2, <2>3, <3>1
  <2> QED BY <2>3, <2>5 DEF code
<1>2. IsSeq(<<>>) /\ IsSeq(c0)
  BY ConsIsSeq, EmptyIsSeq
<1> HIDE DEF c0
<1>3. Run(Machine(Cons(a, Cons(b, s)), mem, cd), c0)
        = Run(Machine(Cons(b, Cons(a, s)), mem, cd), <<>>)
  BY <1>2, RunCons, ConsIsSeq, ExecSwap1 DEF c0
<1> QED BY <1>1, <1>2, <1>3, RunNothing

LEMMA RunTwoToOne ==
    ASSUME NEW s, IsSeq(s), NEW mem, NEW cd
    PROVE  /\ IsSeq(POSEIDON_TWO_TO_ONE)
           /\ Run(Machine(s, mem, cd), POSEIDON_TWO_TO_ONE)
                = Machine(Cons(0, s), mem, cd)
<1> DEFINE c0 == Cons(push(0), <<>>)
<1>1. POSEIDON_TWO_TO_ONE = c0
  <2> DEFINE code == POSEIDON_TWO_TO_ONE
  <2>1. code \in Seq(Instructions({0})) /\ Len(code) = 1
    BY DEF POSEIDON_TWO_TO_ONE, Instructions
  <2>2. /\ code[1] = push(0)
    BY DEF POSEIDON_TWO_TO_ONE
  <2> HIDE DEF code
  <2>3. From(code, 1) = code /\ From(code, 2) = <<>>
    <3>1. From(code, 1) = code
      BY <2>1, CodeFrom
    <3>2. From(code, 2) = <<>>
      <4>1. Len(code) \in Nat /\ 2 > Len(code) /\ 2 \in Nat
        BY <2>1
      <4> QED BY <2>1, <4>1, Unfold
    <3> QED BY <3>1, <3>2
  <2>4. \A k, n \in Nat : k \in 1..1 /\ n = k + 1 => From(code, k) = Cons(code[k],
        From(code, n))
    BY <2>1, CodeFrom
  <2>5. From(code, 1) = c0
    <3>1. From(code, 1) = Cons(code[1], From(code, 2))
      BY <2>4
    <3> QED BY <2>2, <2>3, <3>1
  <2> QED BY <2>3, <2>5 DEF code
<1>2. IsSeq(<<>>) /\ IsSeq(c0)
  BY ConsIsSeq, EmptyIsSeq
<1> HIDE DEF c0
<1>3. Run(Machine(s, mem, cd), c0)
        = Run(Machine(Cons(0, s), mem, cd), <<>>)
  BY <1>2, RunCons, ConsIsSeq, ExecPush DEF c0
<1> QED BY <1>1, <1>2, <1>3, RunNothing

LEMMA RunStoreLevel ==
    ASSUME NEW s, IsSeq(s), NEW mem, NEW cd, NEW a, NEW b, NEW c, NEW q, NEW x, NEW o, NEW r
    PROVE  /\ IsSeq(STORE_LEVEL)
           /\ Run(Machine(Cons(a, Cons(b, Cons(c, Cons(q, Cons(x, Cons(o, Cons(r, s))))))),
               mem, cd), STORE_LEVEL)
                = Machine(Cons(Binary("sub", r, 1), Cons(q, Cons(b, Cons(x,
                    Cons(Binary("add", 32, o), s))))), Store(mem, o, b), cd)
<1> DEFINE c5 == Cons(sub, <<>>)
           c4 == Cons(swap(4), Cons(push(1), Cons(swap(1), c5)))
           c3 == Cons(mstore, Cons(push(32), Cons(add, c4)))
           c2 == Cons(swap(3), Cons(dup(3), Cons(dup(2), c3)))
           c1 == Cons(swap(1), Cons(swap(1), Cons(swap(2), c2)))
           c0 == Cons(pop, Cons(swap(1), Cons(pop, c1)))
<1>1. STORE_LEVEL = c0
  <2> DEFINE code == STORE_LEVEL
  <2>1. code \in Seq(Instructions({1, 32})) /\ Len(code) = 16
    BY DEF STORE_LEVEL, POSEIDON_TWO_TO_ONE_RESULT, Instructions
  <2>2. /\ code[1] = pop /\ code[2] = swap(1) /\ code[3] = pop
        /\ code[4] = swap(1) /\ code[5] = swap(1) /\ code[6] = swap(2)
        /\ code[7] = swap(3) /\ code[8] = dup(3) /\ code[9] = dup(2)
        /\ code[10] = mstore /\ code[11] = push(32) /\ code[12] = add
        /\ code[13] = swap(4) /\ code[14] = push(1) /\ code[15] = swap(1)
        /\ code[16] = sub
    BY DEF STORE_LEVEL, POSEIDON_TWO_TO_ONE_RESULT
  <2> HIDE DEF code
  <2>3. From(code, 1) = code /\ From(code, 17) = <<>>
    <3>1. From(code, 1) = code
      BY <2>1, CodeFrom
    <3>2. From(code, 17) = <<>>
      <4>1. Len(code) \in Nat /\ 17 > Len(code) /\ 17 \in Nat
        BY <2>1
      <4> QED BY <2>1, <4>1, Unfold
    <3> QED BY <3>1, <3>2
  <2>4. \A k, n \in Nat : k \in 1..16 /\ n = k + 1 => From(code, k) = Cons(code[k],
        From(code, n))
    BY <2>1, CodeFrom
  <2>5. From(code, 16) = c5
    <3>1. From(code, 16) = Cons(code[16], From(code, 17))
      BY <2>4
    <3> QED BY <2>2, <2>3, <3>1
  <2>6. From(code, 13) = c4
    <3>1. From(code, 13) = Cons(code[13], From(code, 14)) /\ From(code, 14) =
        Cons(code[14], From(code, 15)) /\ From(code, 15) = Cons(code[15], From(code, 16))
      BY <2>4
    <3> QED BY <2>2, <2>3, <3>1, <2>5
  <2>7. From(code, 10) = c3
    <3>1. From(code, 10) = Cons(code[10], From(code, 11)) /\ From(code, 11) =
        Cons(code[11], From(code, 12)) /\ From(code, 12) = Cons(code[12], From(code, 13))
      BY <2>4
    <3> QED BY <2>2, <2>3, <3>1, <2>6
  <2>8. From(code, 7) = c2
    <3>1. From(code, 7) = Cons(code[7], From(code, 8)) /\ From(code, 8) = Cons(code[8],
        From(code, 9)) /\ From(code, 9) = Cons(code[9], From(code, 10))
      BY <2>4
    <3> QED BY <2>2, <2>3, <3>1, <2>7
  <2>9. From(code, 4) = c1
    <3>1. From(code, 4) = Cons(code[4], From(code, 5)) /\ From(code, 5) = Cons(code[5],
        From(code, 6)) /\ From(code, 6) = Cons(code[6], From(code, 7))
      BY <2>4
    <3> QED BY <2>2, <2>3, <3>1, <2>8
  <2>10. From(code, 1) = c0
    <3>1. From(code, 1) = Cons(code[1], From(code, 2)) /\ From(code, 2) = Cons(code[2],
        From(code, 3)) /\ From(code, 3) = Cons(code[3], From(code, 4))
      BY <2>4
    <3> QED BY <2>2, <2>3, <3>1, <2>9
  <2> QED BY <2>3, <2>10 DEF code
<1>2. IsSeq(<<>>) /\ IsSeq(c5) /\ IsSeq(c4) /\ IsSeq(c3) /\ IsSeq(c2) /\ IsSeq(c1) /\
        IsSeq(c0)
  BY ConsIsSeq, EmptyIsSeq
<1> HIDE DEF c0, c1, c2, c3, c4, c5
<1>3. Run(Machine(Cons(a, Cons(b, Cons(c, Cons(q, Cons(x, Cons(o, Cons(r, s))))))), mem,
        cd), c0)
        = Run(Machine(Cons(b, Cons(q, Cons(x, Cons(o, Cons(r, s))))), mem, cd), c1)
  BY <1>2, RunCons, ConsIsSeq, ExecPop, ExecSwap1 DEF c0
<1>4. @ = Run(Machine(Cons(x, Cons(q, Cons(b, Cons(o, Cons(r, s))))), mem, cd), c2)
  BY <1>2, RunCons, ConsIsSeq, ExecSwap1, ExecSwap2 DEF c1
<1>5. @ = Run(Machine(Cons(o, Cons(b, Cons(o, Cons(q, Cons(b, Cons(x, Cons(r, s))))))),
        mem, cd), c3)
  BY <1>2, RunCons, ConsIsSeq, ExecSwap3, ExecDup3, ExecDup2 DEF c2
<1>6. @ = Run(Machine(Cons(Binary("add", 32, o), Cons(q, Cons(b, Cons(x, Cons(r, s))))),
        Store(mem, o, b), cd), c4)
  BY <1>2, RunCons, ConsIsSeq, ExecMstore, ExecPush, ExecAdd DEF c3
<1>7. @ = Run(Machine(Cons(r, Cons(1, Cons(q, Cons(b, Cons(x, Cons(Binary("add", 32, o),
        s)))))), Store(mem, o, b), cd), c5)
  BY <1>2, RunCons, ConsIsSeq, ExecSwap4, ExecPush, ExecSwap1 DEF c4
<1>8. @ = Run(Machine(Cons(Binary("sub", r, 1), Cons(q, Cons(b, Cons(x, Cons(Binary("add",
        32, o), s))))), Store(mem, o, b), cd), <<>>)
  BY <1>2, RunCons, ConsIsSeq, ExecSub DEF c5
<1> QED BY <1>1, <1>2, <1>3, <1>4, <1>5, <1>6, <1>7, <1>8, RunNothing

LEMMA RunReturnHashes ==
    ASSUME NEW s, IsSeq(s), NEW mem, NEW cd
    PROVE  /\ IsSeq(RETURN_HASHES)
           /\ Run(Machine(s, mem, cd), RETURN_HASHES)
                = Machine(Cons(0, Cons(Binary("add", 64, Binary("mul", 32, Load(mem, 32))),
                    s)), mem, cd)
<1> DEFINE c2 == Cons(push(0), <<>>)
           c1 == Cons(mul, Cons(push(64), Cons(add, c2)))
           c0 == Cons(push(32), Cons(mload, Cons(push(32), c1)))
<1>1. RETURN_HASHES = c0
  <2> DEFINE code == RETURN_HASHES
  <2>1. code \in Seq(Instructions({0, 32, 64})) /\ Len(code) = 7
    BY DEF RETURN_HASHES, Instructions
  <2>2. /\ code[1] = push(32) /\ code[2] = mload /\ code[3] = push(32)
        /\ code[4] = mul /\ code[5] = push(64) /\ code[6] = add
        /\ code[7] = push(0)
    BY DEF RETURN_HASHES
  <2> HIDE DEF code
  <2>3. From(code, 1) = code /\ From(code, 8) = <<>>
    <3>1. From(code, 1) = code
      BY <2>1, CodeFrom
    <3>2. From(code, 8) = <<>>
      <4>1. Len(code) \in Nat /\ 8 > Len(code) /\ 8 \in Nat
        BY <2>1
      <4> QED BY <2>1, <4>1, Unfold
    <3> QED BY <3>1, <3>2
  <2>4. \A k, n \in Nat : k \in 1..7 /\ n = k + 1 => From(code, k) = Cons(code[k],
        From(code, n))
    BY <2>1, CodeFrom
  <2>5. From(code, 7) = c2
    <3>1. From(code, 7) = Cons(code[7], From(code, 8))
      BY <2>4
    <3> QED BY <2>2, <2>3, <3>1
  <2>6. From(code, 4) = c1
    <3>1. From(code, 4) = Cons(code[4], From(code, 5)) /\ From(code, 5) = Cons(code[5],
        From(code, 6)) /\ From(code, 6) = Cons(code[6], From(code, 7))
      BY <2>4
    <3> QED BY <2>2, <2>3, <3>1, <2>5
  <2>7. From(code, 1) = c0
    <3>1. From(code, 1) = Cons(code[1], From(code, 2)) /\ From(code, 2) = Cons(code[2],
        From(code, 3)) /\ From(code, 3) = Cons(code[3], From(code, 4))
      BY <2>4
    <3> QED BY <2>2, <2>3, <3>1, <2>6
  <2> QED BY <2>3, <2>7 DEF code
<1>2. IsSeq(<<>>) /\ IsSeq(c2) /\ IsSeq(c1) /\ IsSeq(c0)
  BY ConsIsSeq, EmptyIsSeq
<1> HIDE DEF c0, c1, c2
<1>3. Run(Machine(s, mem, cd), c0)
        = Run(Machine(Cons(32, Cons(Load(mem, 32), s)), mem, cd), c1)
  BY <1>2, RunCons, ConsIsSeq, ExecPush, ExecMload DEF c0
<1>4. @ = Run(Machine(Cons(Binary("add", 64, Binary("mul", 32, Load(mem, 32))), s), mem,
        cd), c2)
  BY <1>2, RunCons, ConsIsSeq, ExecMul, ExecPush, ExecAdd DEF c1
<1>5. @ = Run(Machine(Cons(0, Cons(Binary("add", 64, Binary("mul", 32, Load(mem, 32))),
        s)), mem, cd), <<>>)
  BY <1>2, RunCons, ConsIsSeq, ExecPush DEF c2
<1> QED BY <1>1, <1>2, <1>3, <1>4, <1>5, RunNothing

LEMMA RunNoneLeft ==
    ASSUME NEW s, IsSeq(s), NEW mem, NEW cd, NEW r
    PROVE  /\ IsSeq(<<dup(1), push(0), eq>>)
           /\ Run(Machine(Cons(r, s), mem, cd), <<dup(1), push(0), eq>>)
                = Machine(Cons(Binary("eq", 0, r), Cons(r, s)), mem, cd)
<1> DEFINE c0 == Cons(dup(1), Cons(push(0), Cons(eq, <<>>)))
<1>1. <<dup(1), push(0), eq>> = c0
  <2> DEFINE code == <<dup(1), push(0), eq>>
  <2>1. code \in Seq(Instructions({0})) /\ Len(code) = 3
    BY DEF Instructions
  <2>2. /\ code[1] = dup(1) /\ code[2] = push(0) /\ code[3] = eq
    OBVIOUS
  <2> HIDE DEF code
  <2>3. From(code, 1) = code /\ From(code, 4) = <<>>
    <3>1. From(code, 1) = code
      BY <2>1, CodeFrom
    <3>2. From(code, 4) = <<>>
      <4>1. Len(code) \in Nat /\ 4 > Len(code) /\ 4 \in Nat
        BY <2>1
      <4> QED BY <2>1, <4>1, Unfold
    <3> QED BY <3>1, <3>2
  <2>4. \A k, n \in Nat : k \in 1..3 /\ n = k + 1 => From(code, k) = Cons(code[k],
        From(code, n))
    BY <2>1, CodeFrom
  <2>5. From(code, 1) = c0
    <3>1. From(code, 1) = Cons(code[1], From(code, 2)) /\ From(code, 2) = Cons(code[2],
        From(code, 3)) /\ From(code, 3) = Cons(code[3], From(code, 4))
      BY <2>4
    <3> QED BY <2>2, <2>3, <3>1
  <2> QED BY <2>3, <2>5 DEF code
<1>2. IsSeq(<<>>) /\ IsSeq(c0)
  BY ConsIsSeq, EmptyIsSeq
<1> HIDE DEF c0
<1>3. Run(Machine(Cons(r, s), mem, cd), c0)
        = Run(Machine(Cons(Binary("eq", 0, r), Cons(r, s)), mem, cd), <<>>)
  BY <1>2, RunCons, ConsIsSeq, ExecDup1, ExecPush, ExecEq DEF c0
<1> QED BY <1>1, <1>2, <1>3, RunNothing

LEMMA RunSpongeHash ==
    ASSUME NEW s, IsSeq(s), NEW mem, NEW cd
    PROVE  /\ IsSeq(SPONGE_HASH_CODE)
           /\ Run(Machine(s, mem, cd), SPONGE_HASH_CODE)
                = Machine(Cons(0, Cons(0, Cons(0, Cons(Load(cd, Binary("add", 4, Load(cd,
                    4))), Cons(Binary("add", 32, Binary("add", 4, Load(cd, 4))), s))))),
                    mem, cd)
<1> DEFINE c4 == Cons(push(0), Cons(push(0), <<>>))
           c3 == Cons(swap(2), Cons(pop, Cons(push(0), c4)))
           c2 == Cons(dup(2), Cons(push(32), Cons(add, c3)))
           c1 == Cons(add, Cons(dup(1), Cons(calldataload, c2)))
           c0 == Cons(push(4), Cons(calldataload, Cons(push(4), c1)))
<1>1. SPONGE_HASH_CODE = c0
  <2> DEFINE code == SPONGE_HASH_CODE
  <2>1. code \in Seq(Instructions({0, 32, 4})) /\ Len(code) = 14
    BY DEF SPONGE_HASH_CODE, Instructions
  <2>2. /\ code[1] = push(4) /\ code[2] = calldataload /\ code[3] = push(4)
        /\ code[4] = add /\ code[5] = dup(1) /\ code[6] = calldataload
        /\ code[7] = dup(2) /\ code[8] = push(32) /\ code[9] = add
        /\ code[10] = swap(2) /\ code[11] = pop /\ code[12] = push(0)
        /\ code[13] = push(0) /\ code[14] = push(0)
    BY DEF SPONGE_HASH_CODE
  <2> HIDE DEF code
  <2>3. From(code, 1) = code /\ From(code, 15) = <<>>
    <3>1. From(code, 1) = code
      BY <2>1, CodeFrom
    <3>2. From(code, 15) = <<>>
      <4>1. Len(code) \in Nat /\ 15 > Len(code) /\ 15 \in Nat
        BY <2>1
      <4> QED BY <2>1, <4>1, Unfold
    <3> QED BY <3>1, <3>2
  <2>4. \A k, n \in Nat : k \in 1..14 /\ n = k + 1 => From(code, k) = Cons(code[k],
        From(code, n))
    BY <2>1, CodeFrom
  <2>5. From(code, 13) = c4
    <3>1. From(code, 13) = Cons(code[13], From(code, 14)) /\ From(code, 14) =
        Cons(code[14], From(code, 15))
      BY <2>4
    <3> QED BY <2>2, <2>3, <3>1
  <2>6. From(code, 10) = c3
    <3>1. From(code, 10) = Cons(code[10], From(code, 11)) /\ From(code, 11) =
        Cons(code[11], From(code, 12)) /\ From(code, 12) = Cons(code[12], From(code, 13))
      BY <2>4
    <3> QED BY <2>2, <2>3, <3>1, <2>5
  <2>7. From(code, 7) = c2
    <3>1. From(code, 7) = Cons(code[7], From(code, 8)) /\ From(code, 8) = Cons(code[8],
        From(code, 9)) /\ From(code, 9) = Cons(code[9], From(code, 10))
      BY <2>4
    <3> QED BY <2>2, <2>3, <3>1, <2>6
  <2>8. From(code, 4) = c1
    <3>1. From(code, 4) = Cons(code[4], From(code, 5)) /\ From(code, 5) = Cons(code[5],
        From(code, 6)) /\ From(code, 6) = Cons(code[6], From(code, 7))
      BY <2>4
    <3> QED BY <2>2, <2>3, <3>1, <2>7
  <2>9. From(code, 1) = c0
    <3>1. From(code, 1) = Cons(code[1], From(code, 2)) /\ From(code, 2) = Cons(code[2],
        From(code, 3)) /\ From(code, 3) = Cons(code[3], From(code, 4))
      BY <2>4
    <3> QED BY <2>2, <2>3, <3>1, <2>8
  <2> QED BY <2>3, <2>9 DEF code
<1>2. IsSeq(<<>>) /\ IsSeq(c4) /\ IsSeq(c3) /\ IsSeq(c2) /\ IsSeq(c1) /\ IsSeq(c0)
  BY ConsIsSeq, EmptyIsSeq
<1> HIDE DEF c0, c1, c2, c3, c4
<1>3. Run(Machine(s, mem, cd), c0)
        = Run(Machine(Cons(4, Cons(Load(cd, 4), s)), mem, cd), c1)
  BY <1>2, RunCons, ConsIsSeq, ExecPush, ExecCalldataload DEF c0
<1>4. @ = Run(Machine(Cons(Load(cd, Binary("add", 4, Load(cd, 4))), Cons(Binary("add", 4,
        Load(cd, 4)), s)), mem, cd), c2)
  BY <1>2, RunCons, ConsIsSeq, ExecAdd, ExecDup1, ExecCalldataload DEF c1
<1>5. @ = Run(Machine(Cons(Binary("add", 32, Binary("add", 4, Load(cd, 4))), Cons(Load(cd,
        Binary("add", 4, Load(cd, 4))), Cons(Binary("add", 4, Load(cd, 4)), s))), mem, cd),
        c3)
  BY <1>2, RunCons, ConsIsSeq, ExecDup2, ExecPush, ExecAdd DEF c2
<1>6. @ = Run(Machine(Cons(0, Cons(Load(cd, Binary("add", 4, Load(cd, 4))),
        Cons(Binary("add", 32, Binary("add", 4, Load(cd, 4))), s))), mem, cd), c4)
  BY <1>2, RunCons, ConsIsSeq, ExecSwap2, ExecPop, ExecPush DEF c3
<1>7. @ = Run(Machine(Cons(0, Cons(0, Cons(0, Cons(Load(cd, Binary("add", 4, Load(cd, 4))),
        Cons(Binary("add", 32, Binary("add", 4, Load(cd, 4))), s))))), mem, cd), <<>>)
  BY <1>2, RunCons, ConsIsSeq, ExecPush DEF c4
<1> QED BY <1>1, <1>2, <1>3, <1>4, <1>5, <1>6, <1>7, RunNothing

LEMMA RunAbsorbNextTwo ==
    ASSUME NEW s, IsSeq(s), NEW mem, NEW cd, NEW a, NEW b, NEW c, NEW r, NEW q
    PROVE  /\ IsSeq(ABSORB_NEXT_TWO)
           /\ Run(Machine(Cons(a, Cons(b, Cons(c, Cons(r, Cons(q, s))))), mem, cd),
               ABSORB_NEXT_TWO)
                = Machine(Cons(a, Cons(AddMod(Load(cd, q), b, PRIME), Cons(AddMod(Load(cd,
                    Binary("add", 32, q)), c, PRIME), Cons(Binary("sub", r, 2),
                    Cons(Binary("add", 32, Binary("add", 32, q)), s))))), mem, cd)
<1> DEFINE c14 == Cons(swap(2), Cons(pop, <<>>))
           c13 == Cons(swap(2), Cons(addmod, c14))
           c12 == Cons(dup(3), Cons(push(PRIME), c13))
           c11 == Cons(swap(4), Cons(pop, c12))
           c10 == Cons(swap(2), Cons(addmod, c11))
           c9 == Cons(dup(5), Cons(push(PRIME), c10))
           c8 == Cons(swap(7), Cons(pop, c9))
           c7 == Cons(push(32), Cons(add, c8))
           c6 == Cons(calldataload, Cons(swap(1), c7))
           c5 == Cons(add, Cons(dup(1), c6))
           c4 == Cons(swap(1), Cons(push(32), c5))
           c3 == Cons(dup(1), Cons(calldataload, c4))
           c2 == Cons(pop, Cons(dup(5), c3))
           c1 == Cons(sub, Cons(swap(4), c2))
           c0 == Cons(push(2), Cons(dup(5), c1))
<1>1. ABSORB_NEXT_TWO = c0
  <2> DEFINE code == ABSORB_NEXT_TWO
  <2>1. code \in Seq(Instructions({2, 32, PRIME})) /\ Len(code) = 30
    BY DEF ABSORB_NEXT_TWO, PUSH_PRIME, Instructions
  <2>2. /\ code[1] = push(2) /\ code[2] = dup(5) /\ code[3] = sub
        /\ code[4] = swap(4) /\ code[5] = pop /\ code[6] = dup(5)
        /\ code[7] = dup(1) /\ code[8] = calldataload /\ code[9] = swap(1)
        /\ code[10] = push(32) /\ code[11] = add /\ code[12] = dup(1)
        /\ code[13] = calldataload /\ code[14] = swap(1) /\ code[15] = push(32)
        /\ code[16] = add /\ code[17] = swap(7) /\ code[18] = pop
        /\ code[19] = dup(5) /\ code[20] = push(PRIME) /\ code[21] = swap(2)
        /\ code[22] = addmod /\ code[23] = swap(4) /\ code[24] = pop
        /\ code[25] = dup(3) /\ code[26] = push(PRIME) /\ code[27] = swap(2)
        /\ code[28] = addmod /\ code[29] = swap(2) /\ code[30] = pop
    BY DEF ABSORB_NEXT_TWO, PUSH_PRIME
  <2> HIDE DEF code
  <2>3. From(code, 1) = code /\ From(code, 31) = <<>>
    <3>1. From(code, 1) = code
      BY <2>1, CodeFrom
    <3>2. From(code, 31) = <<>>
      <4>1. Len(code) \in Nat /\ 31 > Len(code) /\ 31 \in Nat
        BY <2>1
      <4> QED BY <2>1, <4>1, Unfold
    <3> QED BY <3>1, <3>2
  <2>4. \A k, n \in Nat : k \in 1..30 /\ n = k + 1 => From(code, k) = Cons(code[k],
        From(code, n))
    BY <2>1, CodeFrom
  <2>5. From(code, 29) = c14
    <3>1. From(code, 29) = Cons(code[29], From(code, 30)) /\ From(code, 30) =
        Cons(code[30], From(code, 31))
      BY <2>4
    <3> QED BY <2>2, <2>3, <3>1
  <2>6. From(code, 27) = c13
    <3>1. From(code, 27) = Cons(code[27], From(code, 28)) /\ From(code, 28) =
        Cons(code[28], From(code, 29))
      BY <2>4
    <3> QED BY <2>2, <2>3, <3>1, <2>5
  <2>7. From(code, 25) = c12
    <3>1. From(code, 25) = Cons(code[25], From(code, 26)) /\ From(code, 26) =
        Cons(code[26], From(code, 27))
      BY <2>4
    <3> QED BY <2>2, <2>3, <3>1, <2>6
  <2>8. From(code, 23) = c11
    <3>1. From(code, 23) = Cons(code[23], From(code, 24)) /\ From(code, 24) =
        Cons(code[24], From(code, 25))
      BY <2>4
    <3> QED BY <2>2, <2>3, <3>1, <2>7
  <2>9. From(code, 21) = c10
    <3>1. From(code, 21) = Cons(code[21], From(code, 22)) /\ From(code, 22) =
        Cons(code[22], From(code, 23))
      BY <2>4
    <3> QED BY <2>2, <2>3, <3>1, <2>8
  <2>10. From(code, 19) = c9
    <3>1. From(code, 19) = Cons(code[19], From(code, 20)) /\ From(code, 20) =
        Cons(code[20], From(code, 21))
      BY <2>4
    <3> QED BY <2>2, <2>3, <3>1, <2>9
  <2>11. From(code, 17) = c8
    <3>1. From(code, 17) = Cons(code[17], From(code, 18)) /\ From(code, 18) =
        Cons(code[18], From(code, 19))
      BY <2>4
    <3> QED BY <2>2, <2>3, <3>1, <2>10
  <2>12. From(code, 15) = c7
    <3>1. From(code, 15) = Cons(code[15], From(code, 16)) /\ From(code, 16) =
        Cons(code[16], From(code, 17))
      BY <2>4
    <3> QED BY <2>2, <2>3, <3>1, <2>11
  <2>13. From(code, 13) = c6
    <3>1. From(code, 13) = Cons(code[13], From(code, 14)) /\ From(code, 14) =
        Cons(code[14], From(code, 15))
      BY <2>4
    <3> QED BY <2>2, <2>3, <3>1, <2>12
  <2>14. From(code, 11) = c5
    <3>1. From(code, 11) = Cons(code[11], From(code, 12)) /\ From(code, 12) =
        Cons(code[12], From(code, 13))
      BY <2>4
    <3> QED BY <2>2, <2>3, <3>1, <2>13
  <2>15. From(code, 9) = c4
    <3>1. From(code, 9) = Cons(code[9], From(code, 10)) /\ From(code, 10) = Cons(code[10],
        From(code, 11))
      BY <2>4
    <3> QED BY <2>2, <2>3, <3>1, <2>14
  <2>16. From(code, 7) = c3
    <3>1. From(code, 7) = Cons(code[7], From(code, 8)) /\ From(code, 8) = Cons(code[8],
        From(code, 9))
      BY <2>4
    <3> QED BY <2>2, <2>3, <3>1, <2>15
  <2>17. From(code, 5) = c2
    <3>1. From(code, 5) = Cons(code[5], From(code, 6)) /\ From(code, 6) = Cons(code[6],
        From(code, 7))
      BY <2>4
    <3> QED BY <2>2, <2>3, <3>1, <2>16
  <2>18. From(code, 3) = c1
    <3>1. From(code, 3) = Cons(code[3], From(code, 4)) /\ From(code, 4) = Cons(code[4],
        From(code, 5))
      BY <2>4
    <3> QED BY <2>2, <2>3, <3>1, <2>17
  <2>19. From(code, 1) = c0
    <3>1. From(code, 1) = Cons(code[1], From(code, 2)) /\ From(code, 2) = Cons(code[2],
        From(code, 3))
      BY <2>4
    <3> QED BY <2>2, <2>3, <3>1, <2>18
  <2> QED BY <2>3, <2>19 DEF code
<1>2. IsSeq(<<>>) /\ IsSeq(c14) /\ IsSeq(c13) /\ IsSeq(c12) /\ IsSeq(c11) /\ IsSeq(c10) /\
        IsSeq(c9) /\ IsSeq(c8) /\ IsSeq(c7) /\ IsSeq(c6) /\ IsSeq(c5) /\ IsSeq(c4) /\
        IsSeq(c3) /\ IsSeq(c2) /\ IsSeq(c1) /\ IsSeq(c0)
  BY ConsIsSeq, EmptyIsSeq
<1> HIDE DEF c0, c1, c2, c3, c4, c5, c6, c7, c8, c9, c10, c11, c12, c13, c14
<1>3. Run(Machine(Cons(a, Cons(b, Cons(c, Cons(r, Cons(q, s))))), mem, cd), c0)
        = Run(Machine(Cons(r, Cons(2, Cons(a, Cons(b, Cons(c, Cons(r, Cons(q, s))))))),
            mem, cd), c1)
  BY <1>2, RunCons, ConsIsSeq, ExecPush, ExecDup5 DEF c0
<1>4. @ = Run(Machine(Cons(r, Cons(a, Cons(b, Cons(c, Cons(Binary("sub", r, 2), Cons(q,
        s)))))), mem, cd), c2)
  BY <1>2, RunCons, ConsIsSeq, ExecSub, ExecSwap4 DEF c1
<1>5. @ = Run(Machine(Cons(q, Cons(a, Cons(b, Cons(c, Cons(Binary("sub", r, 2), Cons(q,
        s)))))), mem, cd), c3)
  BY <1>2, RunCons, ConsIsSeq, ExecPop, ExecDup5 DEF c2
<1>6. @ = Run(Machine(Cons(Load(cd, q), Cons(q, Cons(a, Cons(b, Cons(c, Cons(Binary("sub",
        r, 2), Cons(q, s))))))), mem, cd), c4)
  BY <1>2, RunCons, ConsIsSeq, ExecDup1, ExecCalldataload DEF c3
<1>7. @ = Run(Machine(Cons(32, Cons(q, Cons(Load(cd, q), Cons(a, Cons(b, Cons(c,
        Cons(Binary("sub", r, 2), Cons(q, s)))))))), mem, cd), c5)
  BY <1>2, RunCons, ConsIsSeq, ExecSwap1, ExecPush DEF c4
<1>8. @ = Run(Machine(Cons(Binary("add", 32, q), Cons(Binary("add", 32, q), Cons(Load(cd,
        q), Cons(a, Cons(b, Cons(c, Cons(Binary("sub", r, 2), Cons(q, s)))))))), mem, cd),
        c6)
  BY <1>2, RunCons, ConsIsSeq, ExecAdd, ExecDup1 DEF c5
<1>9. @ = Run(Machine(Cons(Binary("add", 32, q), Cons(Load(cd, Binary("add", 32, q)),
        Cons(Load(cd, q), Cons(a, Cons(b, Cons(c, Cons(Binary("sub", r, 2), Cons(q,
        s)))))))), mem, cd), c7)
  BY <1>2, RunCons, ConsIsSeq, ExecCalldataload, ExecSwap1 DEF c6
<1>10. @ = Run(Machine(Cons(Binary("add", 32, Binary("add", 32, q)), Cons(Load(cd,
        Binary("add", 32, q)), Cons(Load(cd, q), Cons(a, Cons(b, Cons(c, Cons(Binary("sub",
        r, 2), Cons(q, s)))))))), mem, cd), c8)
  BY <1>2, RunCons, ConsIsSeq, ExecPush, ExecAdd DEF c7
<1>11. @ = Run(Machine(Cons(Load(cd, Binary("add", 32, q)), Cons(Load(cd, q), Cons(a,
        Cons(b, Cons(c, Cons(Binary("sub", r, 2), Cons(Binary("add", 32, Binary("add", 32,
        q)), s))))))), mem, cd), c9)
  BY <1>2, RunCons, ConsIsSeq, ExecSwap7, ExecPop DEF c8
<1>12. @ = Run(Machine(Cons(PRIME, Cons(c, Cons(Load(cd, Binary("add", 32, q)),
        Cons(Load(cd, q), Cons(a, Cons(b, Cons(c, Cons(Binary("sub", r, 2),
        Cons(Binary("add", 32, Binary("add", 32, q)), s))))))))), mem, cd), c10)
  BY <1>2, RunCons, ConsIsSeq, ExecDup5, ExecPush DEF c9
<1>13. @ = Run(Machine(Cons(AddMod(Load(cd, Binary("add", 32, q)), c, PRIME), Cons(Load(cd,
        q), Cons(a, Cons(b, Cons(c, Cons(Binary("sub", r, 2), Cons(Binary("add", 32,
        Binary("add", 32, q)), s))))))), mem, cd), c11)
  BY <1>2, RunCons, ConsIsSeq, ExecSwap2, ExecAddmod DEF c10
<1>14. @ = Run(Machine(Cons(Load(cd, q), Cons(a, Cons(b, Cons(AddMod(Load(cd, Binary("add",
        32, q)), c, PRIME), Cons(Binary("sub", r, 2), Cons(Binary("add", 32, Binary("add",
        32, q)), s)))))), mem, cd), c12)
  BY <1>2, RunCons, ConsIsSeq, ExecSwap4, ExecPop DEF c11
<1>15. @ = Run(Machine(Cons(PRIME, Cons(b, Cons(Load(cd, q), Cons(a, Cons(b,
        Cons(AddMod(Load(cd, Binary("add", 32, q)), c, PRIME), Cons(Binary("sub", r, 2),
        Cons(Binary("add", 32, Binary("add", 32, q)), s)))))))), mem, cd), c13)
  BY <1>2, RunCons, ConsIsSeq, ExecDup3, ExecPush DEF c12
<1>16. @ = Run(Machine(Cons(AddMod(Load(cd, q), b, PRIME), Cons(a, Cons(b,
        Cons(AddMod(Load(cd, Binary("add", 32, q)), c, PRIME), Cons(Binary("sub", r, 2),
        Cons(Binary("add", 32, Binary("add", 32, q)), s)))))), mem, cd), c14)
  BY <1>2, RunCons, ConsIsSeq, ExecSwap2, ExecAddmod DEF c13
<1>17. @ = Run(Machine(Cons(a, Cons(AddMod(Load(cd, q), b, PRIME), Cons(AddMod(Load(cd,
        Binary("add", 32, q)), c, PRIME), Cons(Binary("sub", r, 2), Cons(Binary("add", 32,
        Binary("add", 32, q)), s))))), mem, cd), <<>>)
  BY <1>2, RunCons, ConsIsSeq, ExecSwap2, ExecPop DEF c14
<1> QED BY <1>1, <1>2, <1>3, <1>4, <1>5, <1>6, <1>7, <1>8, <1>9, <1>10, <1>11, <1>12,
        <1>13, <1>14, <1>15, <1>16, <1>17, RunNothing

LEMMA RunLastInput ==
    ASSUME NEW s, IsSeq(s), NEW mem, NEW cd, NEW a, NEW b, NEW c, NEW r, NEW q
    PROVE  /\ IsSeq(lastInput)
           /\ Run(Machine(Cons(a, Cons(b, Cons(c, Cons(r, Cons(q, s))))), mem, cd),
               lastInput)
                = Machine(Cons(a, Cons(AddMod(Load(cd, q), b, PRIME), Cons(c, Cons(r,
                    Cons(q, s))))), mem, cd)
<1> DEFINE c2 == Cons(swap(2), Cons(pop, <<>>))
           c1 == Cons(push(PRIME), Cons(swap(2), Cons(addmod, c2)))
           c0 == Cons(dup(5), Cons(calldataload, Cons(dup(3), c1)))
<1>1. lastInput = c0
  <2> DEFINE code == lastInput
  <2>1. code \in Seq(Instructions({PRIME})) /\ Len(code) = 8
    BY DEF lastInput, PUSH_PRIME, Instructions
  <2>2. /\ code[1] = dup(5) /\ code[2] = calldataload /\ code[3] = dup(3)
        /\ code[4] = push(PRIME) /\ code[5] = swap(2) /\ code[6] = addmod
        /\ code[7] = swap(2) /\ code[8] = pop
    BY DEF lastInput, PUSH_PRIME
  <2> HIDE DEF code
  <2>3. From(code, 1) = code /\ From(code, 9) = <<>>
    <3>1. From(code, 1) = code
      BY <2>1, CodeFrom
    <3>2. From(code, 9) = <<>>
      <4>1. Len(code) \in Nat /\ 9 > Len(code) /\ 9 \in Nat
        BY <2>1
      <4> QED BY <2>1, <4>1, Unfold
    <3> QED BY <3>1, <3>2
  <2>4. \A k, n \in Nat : k \in 1..8 /\ n = k + 1 => From(code, k) = Cons(code[k],
        From(code, n))
    BY <2>1, CodeFrom
  <2>5. From(code, 7) = c2
    <3>1. From(code, 7) = Cons(code[7], From(code, 8)) /\ From(code, 8) = Cons(code[8],
        From(code, 9))
      BY <2>4
    <3> QED BY <2>2, <2>3, <3>1
  <2>6. From(code, 4) = c1
    <3>1. From(code, 4) = Cons(code[4], From(code, 5)) /\ From(code, 5) = Cons(code[5],
        From(code, 6)) /\ From(code, 6) = Cons(code[6], From(code, 7))
      BY <2>4
    <3> QED BY <2>2, <2>3, <3>1, <2>5
  <2>7. From(code, 1) = c0
    <3>1. From(code, 1) = Cons(code[1], From(code, 2)) /\ From(code, 2) = Cons(code[2],
        From(code, 3)) /\ From(code, 3) = Cons(code[3], From(code, 4))
      BY <2>4
    <3> QED BY <2>2, <2>3, <3>1, <2>6
  <2> QED BY <2>3, <2>7 DEF code
<1>2. IsSeq(<<>>) /\ IsSeq(c2) /\ IsSeq(c1) /\ IsSeq(c0)
  BY ConsIsSeq, EmptyIsSeq
<1> HIDE DEF c0, c1, c2
<1>3. Run(Machine(Cons(a, Cons(b, Cons(c, Cons(r, Cons(q, s))))), mem, cd), c0)
        = Run(Machine(Cons(b, Cons(Load(cd, q), Cons(a, Cons(b, Cons(c, Cons(r, Cons(q,
            s))))))), mem, cd), c1)
  BY <1>2, RunCons, ConsIsSeq, ExecDup5, ExecCalldataload, ExecDup3 DEF c0
<1>4. @ = Run(Machine(Cons(AddMod(Load(cd, q), b, PRIME), Cons(a, Cons(b, Cons(c, Cons(r,
        Cons(q, s)))))), mem, cd), c2)
  BY <1>2, RunCons, ConsIsSeq, ExecPush, ExecSwap2, ExecAddmod DEF c1
<1>5. @ = Run(Machine(Cons(a, Cons(AddMod(Load(cd, q), b, PRIME), Cons(c, Cons(r, Cons(q,
        s))))), mem, cd), <<>>)
  BY <1>2, RunCons, ConsIsSeq, ExecSwap2, ExecPop DEF c2
<1> QED BY <1>1, <1>2, <1>3, <1>4, <1>5, RunNothing

LEMMA RunIsLast ==
    ASSUME NEW s, IsSeq(s), NEW mem, NEW cd, NEW a, NEW b, NEW c, NEW r
    PROVE  /\ IsSeq(<<dup(4), push(1), eq>>)
           /\ Run(Machine(Cons(a, Cons(b, Cons(c, Cons(r, s)))), mem, cd), <<dup(4),
               push(1), eq>>)
                = Machine(Cons(Binary("eq", 1, r), Cons(a, Cons(b, Cons(c, Cons(r, s))))),
                    mem, cd)
<1> DEFINE c0 == Cons(dup(4), Cons(push(1), Cons(eq, <<>>)))
<1>1. <<dup(4), push(1), eq>> = c0
  <2> DEFINE code == <<dup(4), push(1), eq>>
  <2>1. code \in Seq(Instructions({1})) /\ Len(code) = 3
    BY DEF Instructions
  <2>2. /\ code[1] = dup(4) /\ code[2] = push(1) /\ code[3] = eq
    OBVIOUS
  <2> HIDE DEF code
  <2>3. From(code, 1) = code /\ From(code, 4) = <<>>
    <3>1. From(code, 1) = code
      BY <2>1, CodeFrom
    <3>2. From(code, 4) = <<>>
      <4>1. Len(code) \in Nat /\ 4 > Len(code) /\ 4 \in Nat
        BY <2>1
      <4> QED BY <2>1, <4>1, Unfold
    <3> QED BY <3>1, <3>2
  <2>4. \A k, n \in Nat : k \in 1..3 /\ n = k + 1 => From(code, k) = Cons(code[k],
        From(code, n))
    BY <2>1, CodeFrom
  <2>5. From(code, 1) = c0
    <3>1. From(code, 1) = Cons(code[1], From(code, 2)) /\ From(code, 2) = Cons(code[2],
        From(code, 3)) /\ From(code, 3) = Cons(code[3], From(code, 4))
      BY <2>4
    <3> QED BY <2>2, <2>3, <3>1
  <2> QED BY <2>3, <2>5 DEF code
<1>2. IsSeq(<<>>) /\ IsSeq(c0)
  BY ConsIsSeq, EmptyIsSeq
<1> HIDE DEF c0
<1>3. Run(Machine(Cons(a, Cons(b, Cons(c, Cons(r, s)))), mem, cd), c0)
        = Run(Machine(Cons(Binary("eq", 1, r), Cons(a, Cons(b, Cons(c, Cons(r, s))))), mem,
            cd), <<>>)
  BY <1>2, RunCons, ConsIsSeq, ExecDup4, ExecPush, ExecEq DEF c0
<1> QED BY <1>1, <1>2, <1>3, RunNothing

LEMMA RunAllAbsorbed ==
    ASSUME NEW s, IsSeq(s), NEW mem, NEW cd, NEW a, NEW b, NEW c, NEW r
    PROVE  /\ IsSeq(<<dup(4), push(0), eq>>)
           /\ Run(Machine(Cons(a, Cons(b, Cons(c, Cons(r, s)))), mem, cd), <<dup(4),
               push(0), eq>>)
                = Machine(Cons(Binary("eq", 0, r), Cons(a, Cons(b, Cons(c, Cons(r, s))))),
                    mem, cd)
<1> DEFINE c0 == Cons(dup(4), Cons(push(0), Cons(eq, <<>>)))
<1>1. <<dup(4), push(0), eq>> = c0
  <2> DEFINE code == <<dup(4), push(0), eq>>
  <2>1. code \in Seq(Instructions({0})) /\ Len(code) = 3
    BY DEF Instructions
  <2>2. /\ code[1] = dup(4) /\ code[2] = push(0) /\ code[3] = eq
    OBVIOUS
  <2> HIDE DEF code
  <2>3. From(code, 1) = code /\ From(code, 4) = <<>>
    <3>1. From(code, 1) = code
      BY <2>1, CodeFrom
    <3>2. From(code, 4) = <<>>
      <4>1. Len(code) \in Nat /\ 4 > Len(code) /\ 4 \in Nat
        BY <2>1
      <4> QED BY <2>1, <4>1, Unfold
    <3> QED BY <3>1, <3>2
  <2>4. \A k, n \in Nat : k \in 1..3 /\ n = k + 1 => From(code, k) = Cons(code[k],
        From(code, n))
    BY <2>1, CodeFrom
  <2>5. From(code, 1) = c0
    <3>1. From(code, 1) = Cons(code[1], From(code, 2)) /\ From(code, 2) = Cons(code[2],
        From(code, 3)) /\ From(code, 3) = Cons(code[3], From(code, 4))
      BY <2>4
    <3> QED BY <2>2, <2>3, <3>1
  <2> QED BY <2>3, <2>5 DEF code
<1>2. IsSeq(<<>>) /\ IsSeq(c0)
  BY ConsIsSeq, EmptyIsSeq
<1> HIDE DEF c0
<1>3. Run(Machine(Cons(a, Cons(b, Cons(c, Cons(r, s)))), mem, cd), c0)
        = Run(Machine(Cons(Binary("eq", 0, r), Cons(a, Cons(b, Cons(c, Cons(r, s))))), mem,
            cd), <<>>)
  BY <1>2, RunCons, ConsIsSeq, ExecDup4, ExecPush, ExecEq DEF c0
<1> QED BY <1>1, <1>2, <1>3, RunNothing

LEMMA RunSqueeze ==
    ASSUME NEW s, IsSeq(s), NEW mem, NEW cd, NEW a, NEW b
    PROVE  /\ IsSeq(SQUEEZE)
           /\ Run(Machine(Cons(a, Cons(b, s)), mem, cd), SQUEEZE)
                = Machine(Cons(0, Cons(32, Cons(a, Cons(b, s)))), Store(mem, 0, b), cd)
<1> DEFINE c1 == Cons(push(32), Cons(push(0), <<>>))
           c0 == Cons(dup(2), Cons(push(0), Cons(mstore, c1)))
<1>1. SQUEEZE = c0
  <2> DEFINE code == SQUEEZE
  <2>1. code \in Seq(Instructions({0, 32})) /\ Len(code) = 5
    BY DEF SQUEEZE, Instructions
  <2>2. /\ code[1] = dup(2) /\ code[2] = push(0) /\ code[3] = mstore
        /\ code[4] = push(32) /\ code[5] = push(0)
    BY DEF SQUEEZE
  <2> HIDE DEF code
  <2>3. From(code, 1) = code /\ From(code, 6) = <<>>
    <3>1. From(code, 1) = code
      BY <2>1, CodeFrom
    <3>2. From(code, 6) = <<>>
      <4>1. Len(code) \in Nat /\ 6 > Len(code) /\ 6 \in Nat
        BY <2>1
      <4> QED BY <2>1, <4>1, Unfold
    <3> QED BY <3>1, <3>2
  <2>4. \A k, n \in Nat : k \in 1..5 /\ n = k + 1 => From(code, k) = Cons(code[k],
        From(code, n))
    BY <2>1, CodeFrom
  <2>5. From(code, 4) = c1
    <3>1. From(code, 4) = Cons(code[4], From(code, 5)) /\ From(code, 5) = Cons(code[5],
        From(code, 6))
      BY <2>4
    <3> QED BY <2>2, <2>3, <3>1
  <2>6. From(code, 1) = c0
    <3>1. From(code, 1) = Cons(code[1], From(code, 2)) /\ From(code, 2) = Cons(code[2],
        From(code, 3)) /\ From(code, 3) = Cons(code[3], From(code, 4))
      BY <2>4
    <3> QED BY <2>2, <2>3, <3>1, <2>5
  <2> QED BY <2>3, <2>6 DEF code
<1>2. IsSeq(<<>>) /\ IsSeq(c1) /\ IsSeq(c0)
  BY ConsIsSeq, EmptyIsSeq
<1> HIDE DEF c0, c1
<1>3. Run(Machine(Cons(a, Cons(b, s)), mem, cd), c0)
        = Run(Machine(Cons(a, Cons(b, s)), Store(mem, 0, b), cd), c1)
  BY <1>2, RunCons, ConsIsSeq, ExecDup2, ExecPush, ExecMstore DEF c0
<1>4. @ = Run(Machine(Cons(0, Cons(32, Cons(a, Cons(b, s)))), Store(mem, 0, b), cd), <<>>)
  BY <1>2, RunCons, ConsIsSeq, ExecPush DEF c1
<1> QED BY <1>1, <1>2, <1>3, <1>4, RunNothing

-----------------------------------------------------------------------------
(* Words that stay below WORD, memory, and the data of a call.              *)
LEMMA Bounds ==
    /\ WORD \in Nat \ {0} /\ MaxSisters \in Nat /\ MaxInputs \in Nat
    /\ 32 * MaxSisters + 256 <= WORD /\ 32 * MaxInputs + 256 <= WORD
    /\ \A x \in Elements : x \in Nat
    /\ \A x \in Indices : x \in Nat
<1>1. WORD \in Nat /\ MaxSisters \in Nat /\ MaxInputs \in Nat
      /\ 32 * (MaxSisters + MaxInputs + 8) <= WORD
  BY PoseidonAssumption, HasherAssumption
<1>2. Elements \subseteq 0..WORD-1 /\ Indices \subseteq 0..WORD-1
  BY HasherAssumption
<1> QED BY <1>1, <1>2

(* Arithmetic on words is that on numbers as long as these are small.       *)
LEMMA SmallWord ==
    ASSUME NEW x \in Nat, x < WORD
    PROVE  x % WORD = x
<1>1. WORD \in Nat \ {0}
  BY Bounds
<1>2. ASSUME NEW w \in Nat \ {0}, x < w PROVE x % w = x
  BY <1>2, SMT
<1> QED BY <1>1, <1>2

LEMMA AddIs ==
    ASSUME NEW a \in Nat, NEW b \in Nat, a + b < WORD
    PROVE  Binary("add", a, b) = a + b
<1>1. Binary("add", a, b) = (a + b) % WORD
  BY DEF Binary
<1>2. a + b \in Nat
  OBVIOUS
<1> QED BY <1>1, <1>2, SmallWord

LEMMA SubIs ==
    ASSUME NEW a \in Nat, NEW b \in Nat, b <= a, a - b < WORD
    PROVE  Binary("sub", a, b) = a - b
<1>1. Binary("sub", a, b) = (WORD + a - b) % WORD
  BY DEF Binary
<1>2. WORD \in Nat \ {0} /\ a - b \in Nat
  BY Bounds
<1>3. WORD + a - b = (a - b) + WORD * 1
  BY <1>2
<1>4. ((a - b) + WORD * 1) % WORD = (a - b) % WORD
  BY <1>2, ModMultiple
<1> QED BY <1>1, <1>2, <1>3, <1>4, SmallWord

LEMMA MulIs ==
    ASSUME NEW b \in Nat, 32 * b < WORD
    PROVE  Binary("mul", 32, b) = 32 * b
<1>1. Binary("mul", 32, b) = (32 * b) % WORD
  BY DEF Binary
<1>2. 32 * b \in Nat
  OBVIOUS
<1> QED BY <1>1, <1>2, SmallWord

LEMMA ShrIs ==
    ASSUME NEW x
    PROVE  Binary("shr", 1, x) = x \div 2
<1>1. Binary("shr", 1, x) = x \div 2 ^ 1
  BY DEF Binary
<1>2. 2 ^ 1 = 2
  <2>1. 2 ^ 0 = 1
    BY SMT
  <2>2. 2 ^ (0 + 1) = 2 * 2 ^ 0
    BY PowerDoubles
  <2> QED BY <2>1, <2>2
<1> QED BY <1>1, <1>2

LEMMA EqIs ==
    ASSUME NEW a, NEW b
    PROVE  Binary("eq", a, b) = IF a = b THEN 1 ELSE 0
BY DEF Binary

LEMMA AndIs ==
    ASSUME NEW x
    PROVE  Binary("and", 1, x) = x % 2
BY DEF Binary

(* Memory, and the words of a call by their addresses.                      *)
LEMMA LoadStore ==
    ASSUME NEW mem, NEW at, NEW w, NEW a
    PROVE  Load(Store(mem, at, w), a) = IF a = at THEN w ELSE Load(mem, a)
BY DEF Load, Store

LEMMA LoadWord ==
    ASSUME NEW words, IsSeq(words), NEW k \in 1..Len(words), NEW at, at = 32 * k - 28
    PROVE  Load(Encoded(words), at) = words[k] /\ Encoded(words)[at] = words[k]
<1>1. Len(words) \in Nat
  BY ConsFacts
<1>2. at \in {32 * i - 28 : i \in 1..Len(words)}
  OBVIOUS
<1>3. (at + 28) \div 32 = k
  BY <1>1
<1>4. at \in DOMAIN Encoded(words) /\ Encoded(words)[at] = words[(at + 28) \div 32]
  BY <1>2 DEF Encoded
<1> QED BY <1>3, <1>4 DEF Load

(* The words of the two kinds of call.                                      *)
MerkleWords(idx, input, s) == <<idx, input, 96>> \o Array(s)
ArrayWords(s) == <<32>> \o Array(s)

LEMMA ArrayIs ==
    ASSUME NEW s, IsSeq(s)
    PROVE  /\ IsSeq(Array(s)) /\ Len(Array(s)) = Len(s) + 1 /\ Len(s) \in Nat
           /\ Array(s)[1] = Len(s)
           /\ \A i \in 1..Len(s) : Array(s)[i + 1] = s[i]
<1>1. Array(s) = Cons(Len(s), s)
  BY DEF Array, Cons
<1> QED BY <1>1, ConsFacts

LEMMA MerkleWordsAre ==
    ASSUME NEW idx, NEW input, NEW s, IsSeq(s)
    PROVE  /\ IsSeq(MerkleWords(idx, input, s))
           /\ Len(MerkleWords(idx, input, s)) = Len(s) + 4 /\ Len(s) \in Nat
           /\ MerkleWords(idx, input, s)[1] = idx /\ MerkleWords(idx, input, s)[2] = input
           /\ MerkleWords(idx, input, s)[3] = 96 /\ MerkleWords(idx, input, s)[4] = Len(s)
           /\ \A i \in 1..Len(s) : MerkleWords(idx, input, s)[i + 4] = s[i]
<1> DEFINE head == <<idx, input, 96>>
           w == MerkleWords(idx, input, s)
<1>1. IsSeq(head) /\ Len(head) = 3 /\ head[1] = idx /\ head[2] = input /\ head[3] = 96
  <2>1. head \in Seq({idx, input, 96})
    OBVIOUS
  <2> QED BY <2>1 DEF IsSeq
<1>2. w = head \o Array(s)
  BY DEF MerkleWords
<1>3. /\ IsSeq(Array(s)) /\ Len(Array(s)) = Len(s) + 1 /\ Len(s) \in Nat
      /\ Array(s)[1] = Len(s)
      /\ \A i \in 1..Len(s) : Array(s)[i + 1] = s[i]
  BY ArrayIs
<1> HIDE DEF head, w
<1>4. IsSeq(head) /\ IsSeq(Array(s))
  BY <1>1, <1>3
<1>5. /\ IsSeq(head \o Array(s)) /\ Len(head \o Array(s)) = Len(head) + Len(Array(s))
      /\ \A i \in 1..Len(head) : (head \o Array(s))[i] = head[i]
      /\ \A i \in 1..Len(Array(s)) : (head \o Array(s))[Len(head) + i] = Array(s)[i]
  BY <1>4, SeqConcat
<1>6. IsSeq(w) /\ Len(w) = 3 + (Len(s) + 1)
  BY <1>1, <1>2, <1>3, <1>5
<1>7. \A i \in 1..3 : w[i] = head[i]
  BY <1>1, <1>2, <1>5
<1>8. \A i \in 1..Len(s) + 1 : w[3 + i] = Array(s)[i]
  BY <1>1, <1>2, <1>3, <1>5
<1>9. w[1] = idx /\ w[2] = input /\ w[3] = 96
  BY <1>1, <1>7
<1>10. w[4] = Len(s)
  <2>1. 1 \in 1..Len(s) + 1 /\ 3 + 1 = 4
    BY <1>3
  <2> QED BY <1>3, <1>8, <2>1
<1>11. ASSUME NEW i \in 1..Len(s) PROVE w[i + 4] = s[i]
  <2>1. i + 1 \in 1..Len(s) + 1 /\ 3 + (i + 1) = i + 4
    BY <1>3
  <2> QED BY <1>3, <1>8, <2>1
<1> QED BY <1>3, <1>6, <1>9, <1>10, <1>11 DEF w

LEMMA ArrayWordsAre ==
    ASSUME NEW s, IsSeq(s)
    PROVE  /\ IsSeq(ArrayWords(s))
           /\ Len(ArrayWords(s)) = Len(s) + 2 /\ Len(s) \in Nat
           /\ ArrayWords(s)[1] = 32 /\ ArrayWords(s)[2] = Len(s)
           /\ \A i \in 1..Len(s) : ArrayWords(s)[i + 2] = s[i]
<1> DEFINE w == ArrayWords(s)
<1>1. w = Cons(32, Array(s))
  BY DEF ArrayWords, Cons
<1>2. /\ IsSeq(Array(s)) /\ Len(Array(s)) = Len(s) + 1 /\ Len(s) \in Nat
      /\ Array(s)[1] = Len(s)
      /\ \A i \in 1..Len(s) : Array(s)[i + 1] = s[i]
  BY ArrayIs
<1> HIDE DEF w
<1>3. IsSeq(w) /\ Len(w) = (Len(s) + 1) + 1 /\ w[1] = 32
  BY <1>1, <1>2, ConsFacts
<1>4. \A i \in 1..Len(s) + 1 : w[i + 1] = Array(s)[i]
  BY <1>1, <1>2, ConsFacts
<1>5. w[2] = Len(s)
  <2>1. 1 \in 1..Len(s) + 1 /\ 1 + 1 = 2
    BY <1>2
  <2> QED BY <1>2, <1>4, <2>1
<1>6. ASSUME NEW i \in 1..Len(s) PROVE w[i + 2] = s[i]
  <2>1. i + 1 \in 1..Len(s) + 1 /\ (i + 1) + 1 = i + 2
    BY <1>2
  <2> QED BY <1>2, <1>4, <2>1
<1> QED BY <1>2, <1>3, <1>5, <1>6 DEF w

LEMMA SeqsAre ==
    ASSUME NEW S, NEW lo \in Nat, NEW hi \in Nat, NEW s \in SeqsUpTo(S, lo, hi)
    PROVE  IsSeq(s) /\ Len(s) \in lo..hi /\ \A i \in 1..Len(s) : s[i] \in S
<1>1. PICK n \in lo..hi : s \in [1..n -> S]
  BY DEF SeqsUpTo
<1>2. s \in Seq(S) /\ Len(s) = n
  BY <1>1
<1> QED BY <1>1, <1>2 DEF IsSeq

-----------------------------------------------------------------------------
(* The reference's permutation, hashes and sponge, step by step.            *)
AreStates(f, s) == f = [k \in 0..R_F + R_P + 1 |-> IF k = 0 THEN s ELSE Round(k, f[k-1])]
States(s) == CHOOSE f : AreStates(f, s)

LEMMA StatesAre ==
    ASSUME NEW s
    PROVE  /\ States(s)[0] = s
           /\ \A k \in 1..R_F + R_P + 1 : States(s)[k] = Round(k, States(s)[k-1])
           /\ Permutation(s) = States(s)[R_F + R_P + 1]
<1> DEFINE N == R_F + R_P + 1
           IsPrefix(g, n) == g = [k \in 0..n |-> IF k = 0 THEN s ELSE Round(k, g[k-1])]
           Have == {n \in 0..N : \E g : IsPrefix(g, n)}
<1>1. N \in Nat
  BY HalfIs
<1>2. 0 \in Have
  <2> DEFINE z == [k \in 0..0 |-> s]
  <2>1. IsPrefix(z, 0)
    OBVIOUS
  <2> HIDE DEF z
  <2>2. \E g : IsPrefix(g, 0)
    BY <2>1
  <2> QED BY <1>1, <2>2
<1>3. ASSUME NEW n \in 0..N-1, n \in Have PROVE n + 1 \in Have
  <2>1. PICK g : IsPrefix(g, n)
    BY <1>3
  <2> DEFINE h == [k \in 0..n + 1 |-> IF k = n + 1 THEN Round(n + 1, g[n]) ELSE g[k]]
  <2>2. IsPrefix(h, n + 1)
    <3> HIDE DEF N
    <3>1. ASSUME NEW k \in 0..n + 1
          PROVE  h[k] = IF k = 0 THEN s ELSE Round(k, h[k-1])
      <4>1. CASE k = n + 1
        BY <1>1, <2>1, <4>1
      <4>2. CASE k \in 0..n
        BY <1>1, <2>1, <4>2
      <4> QED BY <1>1, <4>1, <4>2
    <3> QED BY <3>1
  <2>3. n + 1 \in 0..N
    BY <1>1
  <2> QED BY <2>2, <2>3
<1> HIDE DEF Have
<1>4. N \in Have
  <2> HIDE DEF N
  <2>1. \A n \in 0..N : n \in Have
    BY <1>1, <1>2, <1>3, UpTo
  <2> QED BY <1>1, <2>1
<1>5. \E f : AreStates(f, s)
  BY <1>4 DEF Have, AreStates
<1>6. AreStates(States(s), s)
  BY <1>5 DEF States
<1>7. Permutation(s) = States(s)[N]
  BY DEF Permutation, States, AreStates
<1>8. 0 \in 0..N /\ \A k \in 1..N : k \in 0..N /\ k # 0
  BY <1>1
<1> QED BY <1>6, <1>7, <1>8 DEF AreStates

(* The states stay in the field.                                            *)
LEMMA StatesInField ==
    ASSUME NEW s \in Field
    PROVE  /\ \A k \in 0..R_F + R_P + 1 : States(s)[k] \in Field
           /\ Permutation(s) \in Field
<1> DEFINE N == R_F + R_P + 1
           Good == {k \in 0..N : States(s)[k] \in Field}
<1>1. N \in Nat
  BY HalfIs
<1>2. 0 \in Good
  BY <1>1, StatesAre
<1>3. ASSUME NEW k \in 0..N-1, k \in Good PROVE k + 1 \in Good
  <2>1. k + 1 \in 1..N /\ (k + 1) - 1 = k /\ k + 1 \in 0..N
    BY <1>1
  <2>2. States(s)[k + 1] = Round(k + 1, States(s)[k])
    BY <2>1, StatesAre
  <2>3. Round(k + 1, States(s)[k]) \in Field
    BY <1>3, <2>1, EmptyIsSeq, RoundRuns
  <2> QED BY <2>1, <2>2, <2>3
<1>4. \A k \in 0..N : k \in Good
  <2> HIDE DEF Good, N
  <2> QED BY <1>1, <1>2, <1>3, UpTo
<1> QED BY <1>1, <1>4, StatesAre

(* The siblings as merkleHash takes them, and the nodes up to the root.     *)
SistersOf(s) == [h \in 0..Len(s) - 1 |-> s[h + 1]]
Hashes(idx, input, s) == Tree!merkleHash(idx, input, SistersOf(s), Len(s))

(* The state that the permutation starts from at height j.                  *)
Pair(idx, input, s, j) ==
    IF (idx \div 2 ^ j) % 2 = 1 THEN <<0, s[j + 1], Hashes(idx, input, s)[j]>>
    ELSE <<0, Hashes(idx, input, s)[j], s[j + 1]>>

LEMMA HashesAre ==
    ASSUME NEW idx, NEW input, NEW s, IsSeq(s)
    PROVE  /\ Hashes(idx, input, s)[0] = input
           /\ \A j \in 0..Len(s) - 1 :
                Hashes(idx, input, s)[j + 1] = Permutation(Pair(idx, input, s, j))[2]
<1> DEFINE N == Len(s)
           sis == SistersOf(s)
           Step(h, x) == IF Tree!isRightChild(idx, h-1) THEN TwoToOne(sis[h-1], x)
                         ELSE TwoToOne(x, sis[h-1])
           IsPrefix(g, n) == g = [h \in 0..n |-> IF h = 0 THEN input ELSE Step(h, g[h-1])]
           Have == {n \in 0..N : \E g : IsPrefix(g, n)}
           H == Hashes(idx, input, s)
<1>1. N \in Nat
  BY ConsFacts
<1> HIDE DEF sis
<1>2. 0 \in Have
  <2> DEFINE z == [h \in 0..0 |-> input]
  <2>1. IsPrefix(z, 0)
    OBVIOUS
  <2> HIDE DEF z
  <2>2. \E g : IsPrefix(g, 0)
    BY <2>1
  <2> QED BY <1>1, <2>2
<1>3. ASSUME NEW n \in 0..N-1, n \in Have PROVE n + 1 \in Have
  <2>1. PICK g : IsPrefix(g, n)
    BY <1>3
  <2> DEFINE f == [h \in 0..n + 1 |-> IF h = n + 1 THEN Step(n + 1, g[n]) ELSE g[h]]
  <2>2. IsPrefix(f, n + 1)
    <3> HIDE DEF N, Step
    <3>1. ASSUME NEW k \in 0..n + 1
          PROVE  f[k] = IF k = 0 THEN input ELSE Step(k, f[k-1])
      <4>1. CASE k = n + 1
        BY <1>1, <2>1, <4>1
      <4>2. CASE k \in 0..n
        BY <1>1, <2>1, <4>2
      <4> QED BY <1>1, <4>1, <4>2
    <3> QED BY <3>1
  <2>3. n + 1 \in 0..N
    BY <1>1
  <2> QED BY <2>2, <2>3
<1> HIDE DEF Have
<1>4. N \in Have
  <2> HIDE DEF N
  <2>1. \A n \in 0..N : n \in Have
    BY <1>1, <1>2, <1>3, UpTo
  <2> QED BY <1>1, <2>1
<1>5. \E f : f = [h \in 0..N |-> IF h = 0 THEN input ELSE Step(h, f[h-1])]
  BY <1>4 DEF Have
<1>6. H = CHOOSE f : f = [h \in 0..N |-> IF h = 0 THEN input ELSE Step(h, f[h-1])]
  BY DEF Hashes, Tree!merkleHash, sis
<1>7. H = [h \in 0..N |-> IF h = 0 THEN input ELSE Step(h, H[h-1])]
  <2> HIDE DEF Step, N, H
  <2> QED BY <1>5, <1>6
<1>8. H[0] = input
  BY <1>1, <1>7
<1>9. ASSUME NEW j \in 0..N-1
      PROVE  H[j + 1] = Permutation(Pair(idx, input, s, j))[2]
  <2>1. j + 1 \in 0..N /\ j + 1 # 0 /\ (j + 1) - 1 = j
    BY <1>1
  <2>2. H[j + 1] = Step(j + 1, H[j])
    <3> HIDE DEF Step, H, N
    <3> QED BY <1>7, <2>1
  <2>3. sis[j] = s[j + 1]
    BY DEF sis, SistersOf
  <2>4. Step(j + 1, H[j]) = IF (idx \div 2 ^ j) % 2 = 1 THEN TwoToOne(s[j + 1], H[j])
                            ELSE TwoToOne(H[j], s[j + 1])
    <3> HIDE DEF H
    <3> QED BY <2>1, <2>3 DEF Tree!isRightChild
  <2> HIDE DEF Step
  <2> QED BY <2>2, <2>4 DEF TwoToOne, Pair
<1> QED BY <1>8, <1>9

(* What has been absorbed after each input.                                 *)
AbsorbAt(inputs, s, k) ==
    IF k % 2 = 0 THEN <<s[1], s[2], (s[3] + inputs[k]) % PRIME>>
    ELSE <<s[1], (s[2] + inputs[k]) % PRIME, s[3]>>

AbsorbNext(inputs, s, k) ==
    AbsorbAt(inputs, IF k > 1 /\ k % 2 = 1 THEN Permutation(s) ELSE s, k)

AreAbsorbed(f, inputs) ==
    f = [k \in 0..Len(inputs) |-> IF k = 0 THEN <<0, 0, 0>> ELSE AbsorbNext(inputs, f[k-1], k)]

Absorbed(inputs) == CHOOSE f : AreAbsorbed(f, inputs)

LEMMA AbsorbedAre ==
    ASSUME NEW s, IsSeq(s)
    PROVE  /\ Absorbed(s)[0] = <<0, 0, 0>>
           /\ \A k \in 1..Len(s) : Absorbed(s)[k] = AbsorbNext(s, Absorbed(s)[k-1], k)
           /\ SpongeOf(s) = Permutation(Absorbed(s)[Len(s)])[2]
<1> DEFINE N == Len(s)
           IsPrefix(g, n) == g = [k \in 0..n |-> IF k = 0 THEN <<0, 0, 0>>
                                                 ELSE AbsorbNext(s, g[k-1], k)]
           Have == {n \in 0..N : \E g : IsPrefix(g, n)}
<1>1. N \in Nat
  BY ConsFacts
<1>2. 0 \in Have
  <2> DEFINE z == [k \in 0..0 |-> <<0, 0, 0>>]
  <2>1. IsPrefix(z, 0)
    OBVIOUS
  <2> HIDE DEF z
  <2>2. \E g : IsPrefix(g, 0)
    BY <2>1
  <2> QED BY <1>1, <2>2
<1>3. ASSUME NEW n \in 0..N-1, n \in Have PROVE n + 1 \in Have
  <2>1. PICK g : IsPrefix(g, n)
    BY <1>3
  <2> DEFINE h == [k \in 0..n + 1 |-> IF k = n + 1 THEN AbsorbNext(s, g[n], n + 1) ELSE g[k]]
  <2>2. IsPrefix(h, n + 1)
    <3> HIDE DEF N
    <3>1. ASSUME NEW k \in 0..n + 1
          PROVE  h[k] = IF k = 0 THEN <<0, 0, 0>> ELSE AbsorbNext(s, h[k-1], k)
      <4>1. CASE k = n + 1
        BY <1>1, <2>1, <4>1
      <4>2. CASE k \in 0..n
        BY <1>1, <2>1, <4>2
      <4> QED BY <1>1, <4>1, <4>2
    <3> QED BY <3>1
  <2>3. n + 1 \in 0..N
    BY <1>1
  <2> QED BY <2>2, <2>3
<1> HIDE DEF Have
<1>4. N \in Have
  <2> HIDE DEF N
  <2>1. \A n \in 0..N : n \in Have
    BY <1>1, <1>2, <1>3, UpTo
  <2> QED BY <1>1, <2>1
<1>5. \E f : AreAbsorbed(f, s)
  BY <1>4 DEF Have, AreAbsorbed
<1>6. AreAbsorbed(Absorbed(s), s)
  BY <1>5 DEF Absorbed
<1>7. SpongeOf(s) = Permutation(Absorbed(s)[N])[2]
  BY DEF SpongeOf, Absorbed, AreAbsorbed, AbsorbNext, AbsorbAt
<1>8. 0 \in 0..N /\ \A k \in 1..N : k \in 0..N /\ k # 0
  BY <1>1
<1> QED BY <1>6, <1>7, <1>8 DEF AreAbsorbed

-----------------------------------------------------------------------------
(* A call of merkleHash.                                                    *)
IsMerkleCall(idx, input, s) ==
    idx \in Indices /\ input \in Elements /\ s \in SeqsUpTo(Elements, 0, MaxSisters)

LEMMA MerkleCallFacts ==
    ASSUME NEW idx, NEW input, NEW s, IsMerkleCall(idx, input, s)
    PROVE  /\ idx \in Nat /\ input \in Nat /\ IsSeq(s)
           /\ Len(s) \in Nat /\ 32 * Len(s) + 256 <= WORD
           /\ \A i \in 1..Len(s) : s[i] \in Nat
<1>1. idx \in Nat /\ input \in Nat /\ MaxSisters \in Nat /\ 32 * MaxSisters + 256 <= WORD
      /\ \A x \in Elements : x \in Nat
  BY Bounds DEF IsMerkleCall
<1>2. IsSeq(s) /\ Len(s) \in 0..MaxSisters /\ \A i \in 1..Len(s) : s[i] \in Elements
  BY <1>1, SeqsAre DEF IsMerkleCall
<1>3. WORD \in Nat
  BY Bounds
<1> QED BY <1>1, <1>2, <1>3

LEMMA HashesNat ==
    ASSUME NEW idx, NEW input \in Nat, NEW s, IsSeq(s), \A i \in 1..Len(s) : s[i] \in Nat
    PROVE  /\ \A j \in 0..Len(s) : Hashes(idx, input, s)[j] \in Nat
           /\ \A j \in 0..Len(s) - 1 : Pair(idx, input, s, j) \in Field
<1> DEFINE n == Len(s)
           H == Hashes(idx, input, s)
           Good == {j \in 0..n : H[j] \in Nat}
<1>1. n \in Nat
  BY ConsFacts
<1> HIDE DEF H, n
<1>2. ASSUME NEW j \in 0..n-1, H[j] \in Nat PROVE Pair(idx, input, s, j) \in Field
  <2>1. s[j + 1] \in Nat
    BY <1>1 DEF n
  <2>2. <<0, s[j + 1], H[j]>> \in Field /\ <<0, H[j], s[j + 1]>> \in Field
    <3>1. \A a, b \in Nat : <<0, a, b>> \in Field
      BY DEF Field
    <3> QED BY <1>2, <2>1, <3>1
  <2> QED BY <2>2 DEF Pair, H
<1>3. 0 \in Good
  BY <1>1, HashesAre DEF H
<1>4. ASSUME NEW j \in 0..n-1, j \in Good PROVE j + 1 \in Good
  <2>1. Permutation(Pair(idx, input, s, j)) \in Field
    BY <1>2, <1>4, StatesInField
  <2>2. Permutation(Pair(idx, input, s, j))[2] \in Nat
    BY <2>1, InField
  <2>3. H[j + 1] = Permutation(Pair(idx, input, s, j))[2]
    BY HashesAre DEF H, n
  <2> QED BY <1>1, <2>2, <2>3
<1>5. \A j \in 0..n : j \in Good
  <2> HIDE DEF Good
  <2> QED BY <1>1, <1>3, <1>4, UpTo
<1>6. \A j \in 0..n : H[j] \in Nat
  BY <1>5
<1>7. \A j \in 0..n-1 : Pair(idx, input, s, j) \in Field
  BY <1>1, <1>2, <1>6
<1> QED BY <1>6, <1>7 DEF H, n

(* The stack between two levels, and below the permutation of a level.      *)
LoopStack(idx, input, s, j) ==
    Cons(Len(s) - j, Cons(132 + 32 * j, Cons(Hashes(idx, input, s)[j],
      Cons(idx \div 2 ^ j, Cons(96 + 32 * j, <<>>)))))

Below(idx, s, j) ==
    Cons(132 + 32 * (j + 1), Cons(idx \div 2 ^ (j + 1), Cons(96 + 32 * j, Cons(Len(s) - j, <<>>))))

(* The memory up to the hash at height j: the array that is returned.       *)
Written(memory, idx, input, s, j) ==
    /\ Load(memory, 0) = 32 /\ Load(memory, 32) = Len(s) + 1
    /\ \A k \in 0..j : Load(memory, 64 + 32 * k) = Hashes(idx, input, s)[k]

MerkleData(idx, input, s) == Encoded(MerkleWords(idx, input, s))

MerkleResult(idx, input, s) ==
    ArrayWords([k \in 1..Len(s) + 1 |-> Hashes(idx, input, s)[k - 1]])

Between(idx, input, s, j) ==
    /\ pc = "loopStart"
    /\ m = Machine(LoopStack(idx, input, s, j), m.memory, MerkleData(idx, input, s))
    /\ Written(m.memory, idx, input, s, j)

Permuting(idx, input, s, j) ==
    /\ pc = "POSEIDON_PERM" /\ ret = "store" /\ block \in 1..R_F + R_P + 1
    /\ m = Machine(OnTop(States(Pair(idx, input, s, j))[block - 1], Below(idx, s, j)),
                   m.memory, MerkleData(idx, input, s))
    /\ Written(m.memory, idx, input, s, j)

Hashed(idx, input, s, j) ==
    /\ pc = "store"
    /\ m = Machine(OnTop(Permutation(Pair(idx, input, s, j)), Below(idx, s, j)),
                   m.memory, MerkleData(idx, input, s))
    /\ Written(m.memory, idx, input, s, j)

MerkleInv(idx, input, s) ==
    /\ selector = "merkleHash"
    /\ \/ pc \in {"MAIN", "MERKLE_HASH"} /\ m = Machine(<<>>, <<>>, MerkleData(idx, input, s))
       \/ \E j \in 0..Len(s) : Between(idx, input, s, j)
       \/ \E j \in 0..Len(s) - 1 : Permuting(idx, input, s, j) \/ Hashed(idx, input, s, j)
       \/ /\ pc = "returned" /\ output = MerkleResult(idx, input, s)
          /\ m.calldata = MerkleData(idx, input, s)

LEMMA MachineFields ==
    ASSUME NEW s, NEW mem, NEW cd
    PROVE  /\ Machine(s, mem, cd).stack = s /\ Machine(s, mem, cd).memory = mem
           /\ Machine(s, mem, cd).calldata = cd
BY DEF Machine

LEMMA MerkleDataIs ==
    ASSUME NEW idx, NEW input, NEW s, IsSeq(s)
    PROVE  /\ Load(MerkleData(idx, input, s), 4) = idx
           /\ Load(MerkleData(idx, input, s), 36) = input
           /\ Load(MerkleData(idx, input, s), 68) = 96
           /\ Load(MerkleData(idx, input, s), 100) = Len(s)
           /\ \A j \in 0..Len(s) - 1 : Load(MerkleData(idx, input, s), 132 + 32 * j) = s[j + 1]
<1> DEFINE w == MerkleWords(idx, input, s)
<1>1. /\ IsSeq(w) /\ Len(w) = Len(s) + 4 /\ Len(s) \in Nat
      /\ w[1] = idx /\ w[2] = input /\ w[3] = 96 /\ w[4] = Len(s)
      /\ \A i \in 1..Len(s) : w[i + 4] = s[i]
  BY MerkleWordsAre
<1> HIDE DEF w
<1>2. ASSUME NEW k \in 1..4 PROVE Load(Encoded(w), 32 * k - 28) = w[k]
  BY <1>1, LoadWord
<1>3. Load(Encoded(w), 4) = w[1]
  <2>1. 32 * 1 - 28 = 4 /\ 1 \in 1..4
    OBVIOUS
  <2> QED BY <1>2, <2>1
<1>4. Load(Encoded(w), 36) = w[2]
  <2>1. 32 * 2 - 28 = 36 /\ 2 \in 1..4
    OBVIOUS
  <2> QED BY <1>2, <2>1
<1>5. Load(Encoded(w), 68) = w[3]
  <2>1. 32 * 3 - 28 = 68 /\ 3 \in 1..4
    OBVIOUS
  <2> QED BY <1>2, <2>1
<1>6. Load(Encoded(w), 100) = w[4]
  <2>1. 32 * 4 - 28 = 100 /\ 4 \in 1..4
    OBVIOUS
  <2> QED BY <1>2, <2>1
<1>7. ASSUME NEW j \in 0..Len(s) - 1 PROVE Load(Encoded(w), 132 + 32 * j) = s[j + 1]
  <2>1. /\ (j + 1) + 4 \in 1..Len(w) /\ 132 + 32 * j = 32 * ((j + 1) + 4) - 28
        /\ j + 1 \in 1..Len(s)
    BY <1>1
  <2>2. Load(Encoded(w), 132 + 32 * j) = w[(j + 1) + 4]
    BY <1>1, <2>1, LoadWord
  <2> QED BY <1>1, <2>1, <2>2
<1> QED BY <1>1, <1>3, <1>4, <1>5, <1>6, <1>7 DEF MerkleData, w

LEMMA StartsLoop ==
    ASSUME NEW idx, NEW input, NEW s, IsMerkleCall(idx, input, s)
    PROVE  \E mem :
             /\ Run(Machine(<<>>, <<>>, MerkleData(idx, input, s)), MERKLE_HASH_CODE)
                  = Machine(LoopStack(idx, input, s, 0), mem, MerkleData(idx, input, s))
             /\ Written(mem, idx, input, s, 0)
<1> DEFINE cd == MerkleData(idx, input, s)
           n == Len(s)
           one == Store(<<>>, 0, 32)
           two == Store(one, 32, n + 1)
           mem == Store(two, 64, input)
<1>1. idx \in Nat /\ input \in Nat /\ IsSeq(s) /\ n \in Nat /\ 32 * n + 256 <= WORD /\ WORD \in Nat
  BY MerkleCallFacts, Bounds
<1>2. Load(cd, 4) = idx /\ Load(cd, 36) = input /\ Load(cd, 68) = 96 /\ Load(cd, 100) = n
  BY <1>1, MerkleDataIs
<1>3. Binary("add", 4, 96) = 100 /\ Binary("add", 32, 100) = 132 /\ Binary("add", 32, 64) = 96
  <2>1. 4 + 96 = 100 /\ 32 + 100 = 132 /\ 32 + 64 = 96 /\ 100 < WORD /\ 132 < WORD /\ 96 < WORD
    BY <1>1
  <2>2. Binary("add", 4, 96) = 100
    BY <2>1, AddIs
  <2>3. Binary("add", 32, 100) = 132
    BY <2>1, AddIs
  <2>4. Binary("add", 32, 64) = 96
    BY <2>1, AddIs
  <2> QED BY <2>2, <2>3, <2>4
<1>4. Binary("add", 1, n) = n + 1
  <2>1. 1 + n < WORD /\ 1 + n = n + 1
    BY <1>1
  <2> HIDE DEF n
  <2> QED BY <1>1, <2>1, AddIs
<1>5. Run(Machine(<<>>, <<>>, cd), MERKLE_HASH_CODE)
        = Machine(Cons(n, Cons(132, Cons(input, Cons(idx, Cons(96, <<>>))))), mem, cd)
  <2> HIDE DEF cd, n
  <2>1. Run(Machine(<<>>, <<>>, cd), MERKLE_HASH_CODE)
          = Machine(Cons(Load(cd, Binary("add", 4, Load(cd, 68))),
                      Cons(Binary("add", 32, Binary("add", 4, Load(cd, 68))),
                        Cons(Load(cd, 36), Cons(Load(cd, 4), Cons(Binary("add", 32, 64), <<>>))))),
                    Store(Store(Store(<<>>, 0, 32), 32,
                      Binary("add", 1, Load(cd, Binary("add", 4, Load(cd, 68))))), 64, Load(cd, 36)), cd)
    BY RunMerkleHash, EmptyIsSeq
  <2> QED BY <1>2, <1>3, <1>4, <2>1
<1>6. LoopStack(idx, input, s, 0) = Cons(n, Cons(132, Cons(input, Cons(idx, Cons(96, <<>>)))))
  <2>1. 2 ^ 0 = 1
    BY SMT
  <2>2. idx \div 2 ^ 0 = idx
    BY <1>1, <2>1
  <2>3. n - 0 = n /\ 132 + 32 * 0 = 132 /\ 96 + 32 * 0 = 96
    BY <1>1
  <2>4. Hashes(idx, input, s)[0] = input
    BY <1>1, HashesAre
  <2> QED BY <2>2, <2>3, <2>4 DEF LoopStack
<1>7. Written(mem, idx, input, s, 0)
  <2>1. ASSUME NEW a PROVE Load(mem, a) = IF a = 64 THEN input ELSE Load(two, a)
    BY LoadStore
  <2>2. ASSUME NEW a PROVE Load(two, a) = IF a = 32 THEN n + 1 ELSE Load(one, a)
    BY LoadStore
  <2>3. ASSUME NEW a PROVE Load(one, a) = IF a = 0 THEN 32 ELSE Load(<<>>, a)
    BY LoadStore
  <2> HIDE DEF mem, two, one, n
  <2>4. Load(mem, 0) = 32 /\ Load(mem, 32) = n + 1 /\ Load(mem, 64) = input
    BY <2>1, <2>2, <2>3
  <2>5. Hashes(idx, input, s)[0] = input
    BY <1>1, HashesAre
  <2>6. \A k \in 0..0 : Load(mem, 64 + 32 * k) = Hashes(idx, input, s)[k]
    BY <2>4, <2>5
  <2> QED BY <2>4, <2>6 DEF Written, n
<1> HIDE DEF mem, cd, n
<1> QED BY <1>5, <1>6, <1>7 DEF cd

LEMMA NoneLeft ==
    ASSUME NEW t, IsSeq(t), NEW mem, NEW cd, NEW r
    PROVE  Holds(Machine(Cons(r, t), mem, cd), <<dup(1), push(0), eq>>) <=> r = 0
<1> DEFINE after == Machine(Cons(Binary("eq", 0, r), Cons(r, t)), mem, cd)
<1>1. Run(Machine(Cons(r, t), mem, cd), <<dup(1), push(0), eq>>) = after
  BY RunNoneLeft
<1>2. after.stack[1] = Binary("eq", 0, r)
  <2>1. IsSeq(Cons(r, t))
    BY ConsIsSeq
  <2>2. Cons(Binary("eq", 0, r), Cons(r, t))[1] = Binary("eq", 0, r)
    BY <2>1, ConsFacts
  <2> QED BY <2>2, MachineFields
<1>3. Binary("eq", 0, r) # 0 <=> r = 0
  BY EqIs
<1> HIDE DEF after
<1> QED BY <1>1, <1>2, <1>3 DEF Holds

(* The sides of the two that are hashed.                                    *)
LEMMA TwoLeaves ==
    ASSUME NEW t, IsSeq(t), NEW mem, NEW cd, NEW h, NEW x, NEW i \in Nat
    PROVE  HASH_TWO_LEAVES(Machine(Cons(h, Cons(x, Cons(i, t))), mem, cd))
             = IF i % 2 = 1 THEN Machine(Cons(0, Cons(x, Cons(h, t))), mem, cd)
               ELSE Machine(Cons(0, Cons(h, Cons(x, t))), mem, cd)
<1> DEFINE old == Machine(Cons(h, Cons(x, Cons(i, t))), mem, cd)
           test == Machine(Cons(i % 2, Cons(x, Cons(h, t))), mem, cd)
           taken == Machine(Cons(x, Cons(h, t)), mem, cd)
           swapped == Machine(Cons(h, Cons(x, t)), mem, cd)
<1>1. Run(old, RIGHT_CHILD) = test
  BY RunRightChild, AndIs
<1>2. /\ IsSeq(Cons(h, t)) /\ IsSeq(Cons(x, t)) /\ IsSeq(Cons(x, Cons(h, t)))
      /\ IsSeq(Cons(h, Cons(x, t)))
  BY ConsIsSeq
<1>3. Run(test, <<pop>>) = taken
  BY <1>2, RunPop
<1>4. Run(taken, <<swap(1)>>) = swapped
  BY RunSwap
<1>5. test.stack[1] = i % 2
  <2>1. Cons(i % 2, Cons(x, Cons(h, t)))[1] = i % 2
    BY <1>2, ConsFacts
  <2> QED BY <2>1, MachineFields
<1>6. /\ Run(taken, POSEIDON_TWO_TO_ONE) = Machine(Cons(0, Cons(x, Cons(h, t))), mem, cd)
      /\ Run(swapped, POSEIDON_TWO_TO_ONE) = Machine(Cons(0, Cons(h, Cons(x, t))), mem, cd)
  BY <1>2, RunTwoToOne
<1>7. i % 2 # 0 <=> i % 2 = 1
  OBVIOUS
<1> HIDE DEF old, test, taken, swapped
<1>8. HASH_TWO_LEAVES(old) = Run(IF test.stack[1] # 0 THEN taken ELSE swapped, POSEIDON_TWO_TO_ONE)
  BY <1>1, <1>3, <1>4 DEF HASH_TWO_LEAVES, RIGHT_CHILD
<1> QED BY <1>5, <1>6, <1>7, <1>8 DEF old

LEMMA EntersLevel ==
    ASSUME NEW idx, NEW input, NEW s, IsMerkleCall(idx, input, s),
           NEW j \in 0..Len(s) - 1, NEW mem
    PROVE  HASH_TWO_LEAVES(Run(Machine(LoopStack(idx, input, s, j), mem, MerkleData(idx, input, s)),
                               NEXT_LEVEL))
             = Machine(OnTop(Pair(idx, input, s, j), Below(idx, s, j)), mem, MerkleData(idx, input, s))
<1> DEFINE cd == MerkleData(idx, input, s)
           r == Len(s) - j
           q == 132 + 32 * j
           h == Hashes(idx, input, s)[j]
           x == idx \div 2 ^ j
           o == 96 + 32 * j
           t == Below(idx, s, j)
<1>1. /\ idx \in Nat /\ IsSeq(s) /\ Len(s) \in Nat /\ 32 * Len(s) + 256 <= WORD /\ WORD \in Nat
      /\ j \in Nat /\ j + 1 <= Len(s)
  <2>1. idx \in Nat /\ IsSeq(s) /\ Len(s) \in Nat /\ 32 * Len(s) + 256 <= WORD
    BY MerkleCallFacts
  <2>2. WORD \in Nat
    BY Bounds
  <2>3. j \in Nat /\ j + 1 <= Len(s)
    BY <2>1
  <2> QED BY <2>1, <2>2, <2>3
<1>2. Load(cd, q) = s[j + 1]
  <2>1. IsSeq(s)
    BY <1>1
  <2>2. \A k \in 0..Len(s) - 1 : Load(MerkleData(idx, input, s), 132 + 32 * k) = s[k + 1]
    BY <2>1, MerkleDataIs
  <2> QED BY <2>2
<1>3. Binary("add", 32, q) = 132 + 32 * (j + 1)
  <2>1. 32 + q < WORD /\ 32 + q = 132 + 32 * (j + 1) /\ q \in Nat
    BY <1>1
  <2> HIDE DEF q
  <2> QED BY <2>1, AddIs
<1>4. x \in Nat /\ Binary("shr", 1, x) = idx \div 2 ^ (j + 1)
  <2>1. x \in Nat /\ idx \div 2 ^ (j + 1) = x \div 2
    BY <1>1, Halves
  <2> HIDE DEF x
  <2> QED BY <2>1, ShrIs
<1>5. t = Cons(Binary("add", 32, q), Cons(Binary("shr", 1, x), Cons(o, Cons(r, <<>>))))
  <2> HIDE DEF q, x
  <2> QED BY <1>3, <1>4 DEF Below
<1>6. LoopStack(idx, input, s, j) = Cons(r, Cons(q, Cons(h, Cons(x, Cons(o, <<>>)))))
  BY DEF LoopStack
<1>7. Pair(idx, input, s, j) = IF x % 2 = 1 THEN <<0, s[j + 1], h>> ELSE <<0, h, s[j + 1]>>
  BY DEF Pair
<1> HIDE DEF cd, r, q, h, x, o, t
<1>8. IsSeq(t)
  BY <1>5, EmptyIsSeq, ConsIsSeq
<1>9. Run(Machine(LoopStack(idx, input, s, j), mem, cd), NEXT_LEVEL)
        = Machine(Cons(h, Cons(s[j + 1], Cons(x, t))), mem, cd)
  BY <1>2, <1>5, <1>6, EmptyIsSeq, RunNextLevel
<1>10. /\ OnTop(<<0, s[j + 1], h>>, t) = Cons(0, Cons(s[j + 1], Cons(h, t)))
       /\ OnTop(<<0, h, s[j + 1]>>, t) = Cons(0, Cons(h, Cons(s[j + 1], t)))
  BY DEF OnTop
<1>11. HASH_TWO_LEAVES(Machine(Cons(h, Cons(s[j + 1], Cons(x, t))), mem, cd))
         = Machine(OnTop(Pair(idx, input, s, j), t), mem, cd)
  BY <1>4, <1>7, <1>8, <1>10, TwoLeaves
<1> QED BY <1>9, <1>11 DEF cd, t

LEMMA StoresLevel ==
    ASSUME NEW idx, NEW input, NEW s, IsMerkleCall(idx, input, s),
           NEW j \in 0..Len(s) - 1, NEW mem, Written(mem, idx, input, s, j)
    PROVE  \E new :
             /\ Run(Machine(OnTop(Permutation(Pair(idx, input, s, j)), Below(idx, s, j)), mem,
                            MerkleData(idx, input, s)), STORE_LEVEL)
                  = Machine(LoopStack(idx, input, s, j + 1), new, MerkleData(idx, input, s))
             /\ Written(new, idx, input, s, j + 1)
<1> DEFINE cd == MerkleData(idx, input, s)
           r == Len(s) - j
           q == 132 + 32 * (j + 1)
           x == idx \div 2 ^ (j + 1)
           o == 96 + 32 * j
           p == Permutation(Pair(idx, input, s, j))
           new == Store(mem, o, p[2])
<1>1. /\ IsSeq(s) /\ Len(s) \in Nat /\ 32 * Len(s) + 256 <= WORD /\ WORD \in Nat
      /\ j \in Nat /\ j + 1 <= Len(s)
  <2>1. IsSeq(s) /\ Len(s) \in Nat /\ 32 * Len(s) + 256 <= WORD
    BY MerkleCallFacts
  <2>2. WORD \in Nat
    BY Bounds
  <2>3. j \in Nat /\ j + 1 <= Len(s)
    BY <2>1
  <2> QED BY <2>1, <2>2, <2>3
<1>2. p[2] = Hashes(idx, input, s)[j + 1]
  BY <1>1, HashesAre
<1>3. Binary("sub", r, 1) = Len(s) - (j + 1)
  <2>1. r \in Nat /\ 1 <= r /\ r - 1 < WORD /\ r - 1 = Len(s) - (j + 1)
    BY <1>1
  <2> HIDE DEF r
  <2> QED BY <2>1, SubIs
<1>4. Binary("add", 32, o) = 96 + 32 * (j + 1)
  <2>1. o \in Nat /\ 32 + o < WORD /\ 32 + o = 96 + 32 * (j + 1)
    BY <1>1
  <2> HIDE DEF o
  <2> QED BY <2>1, AddIs
<1>5. OnTop(p, Below(idx, s, j))
        = Cons(p[1], Cons(p[2], Cons(p[3], Cons(q, Cons(x, Cons(o, Cons(r, <<>>)))))))
  BY DEF OnTop, Below
<1>6. LoopStack(idx, input, s, j + 1)
        = Cons(Len(s) - (j + 1), Cons(q, Cons(p[2], Cons(x, Cons(96 + 32 * (j + 1), <<>>)))))
  <2> HIDE DEF p
  <2> QED BY <1>2 DEF LoopStack
<1>7. Written(new, idx, input, s, j + 1)
  <2>1. ASSUME NEW a PROVE Load(new, a) = IF a = o THEN p[2] ELSE Load(mem, a)
    BY LoadStore
  <2>2. o # 0 /\ o # 32 /\ o = 64 + 32 * (j + 1) /\ \A k \in 0..j : 64 + 32 * k # o
    BY <1>1
  <2> HIDE DEF new, p, o
  <2>3. Load(new, 0) = 32 /\ Load(new, 32) = Len(s) + 1
    BY <2>1, <2>2 DEF Written
  <2>4. ASSUME NEW k \in 0..j + 1 PROVE Load(new, 64 + 32 * k) = Hashes(idx, input, s)[k]
    <3>1. CASE k = j + 1
      BY <1>2, <2>1, <2>2, <3>1
    <3>2. CASE k \in 0..j
      <4>1. Load(mem, 64 + 32 * k) = Hashes(idx, input, s)[k]
        BY <3>2 DEF Written
      <4> QED BY <2>1, <2>2, <3>2, <4>1
    <3> QED BY <1>1, <3>1, <3>2
  <2> QED BY <2>3, <2>4 DEF Written
<1> HIDE DEF cd, r, q, x, o, p, new
<1>8. Run(Machine(OnTop(p, Below(idx, s, j)), mem, cd), STORE_LEVEL)
        = Machine(LoopStack(idx, input, s, j + 1), Store(mem, o, p[2]), cd)
  BY <1>3, <1>4, <1>5, <1>6, EmptyIsSeq, RunStoreLevel
<1> QED BY <1>7, <1>8 DEF cd, p, new

LEMMA SameFunction ==
    ASSUME NEW t, IsSeq(t)
    PROVE  t = [k \in 1..Len(t) |-> t[k]]
<1>1. PICK S : t \in Seq(S)
  BY DEF IsSeq
<1> QED BY <1>1

LEMMA FunctionIsSeq ==
    ASSUME NEW n \in Nat, NEW f, f = [k \in 1..n |-> f[k]]
    PROVE  IsSeq(f) /\ Len(f) = n
<1>1. f \in Seq({f[k] : k \in 1..n}) /\ Len(f) = n
  BY Zenon, SMT
<1> QED BY <1>1 DEF IsSeq

LEMMA ReturnsHashes ==
    ASSUME NEW idx, NEW input, NEW s, IsMerkleCall(idx, input, s), NEW mem,
           Written(mem, idx, input, s, Len(s)), NEW machine,
           machine = Run(Machine(LoopStack(idx, input, s, Len(s)), mem, MerkleData(idx, input, s)),
                         RETURN_HASHES)
    PROVE  /\ [k \in 1..machine.stack[2] \div 32 |-> Load(machine.memory, machine.stack[1] + 32 * (k - 1))]
                = MerkleResult(idx, input, s)
           /\ machine.calldata = MerkleData(idx, input, s)
<1> DEFINE cd == MerkleData(idx, input, s)
           n == Len(s)
           t == LoopStack(idx, input, s, Len(s))
           size == 64 + 32 * (n + 1)
           hs == [k \in 1..n + 1 |-> Hashes(idx, input, s)[k - 1]]
           res == ArrayWords(hs)
<1>1. IsSeq(s) /\ n \in Nat /\ 32 * n + 256 <= WORD /\ WORD \in Nat
  BY MerkleCallFacts, Bounds
<1>2. IsSeq(t)
  BY EmptyIsSeq, ConsIsSeq DEF LoopStack
<1>3. Load(mem, 0) = 32 /\ Load(mem, 32) = n + 1
      /\ \A k \in 0..n : Load(mem, 64 + 32 * k) = Hashes(idx, input, s)[k]
  BY DEF Written
<1> HIDE DEF cd, t, n
<1>4. Binary("mul", 32, n + 1) = 32 * (n + 1) /\ Binary("add", 64, 32 * (n + 1)) = size
  <2>1. n + 1 \in Nat /\ 32 * (n + 1) < WORD /\ 32 * (n + 1) \in Nat /\ 64 + 32 * (n + 1) < WORD
    BY <1>1
  <2>2. Binary("mul", 32, n + 1) = 32 * (n + 1)
    BY <2>1, MulIs
  <2>3. Binary("add", 64, 32 * (n + 1)) = size
    BY <2>1, AddIs
  <2> QED BY <2>2, <2>3
<1> HIDE DEF size
<1>5. machine = Machine(Cons(0, Cons(size, t)), mem, cd)
  <2>1. Run(Machine(t, mem, cd), RETURN_HASHES)
          = Machine(Cons(0, Cons(Binary("add", 64, Binary("mul", 32, Load(mem, 32))), t)), mem, cd)
    BY <1>2, RunReturnHashes
  <2> QED BY <1>3, <1>4, <2>1 DEF t, cd
<1>6. machine.stack[1] = 0 /\ machine.stack[2] = size /\ machine.memory = mem /\ machine.calldata = cd
  <2>1. IsSeq(Cons(size, t)) /\ Len(Cons(size, t)) = Len(t) + 1 /\ Len(t) \in Nat
        /\ Cons(size, t)[1] = size
    BY <1>2, ConsFacts
  <2>2. Cons(0, Cons(size, t))[1] = 0 /\ Cons(0, Cons(size, t))[1 + 1] = Cons(size, t)[1]
    BY <2>1, ConsFacts
  <2>3. 1 + 1 = 2
    OBVIOUS
  <2> QED BY <1>5, <2>1, <2>2, <2>3, MachineFields
<1>7. size \div 32 = n + 3
  BY <1>1 DEF size
<1>8. /\ IsSeq(hs) /\ Len(hs) = n + 1
      /\ \A k \in 1..n + 1 : hs[k] = Hashes(idx, input, s)[k - 1]
  <2>1. n + 1 \in Nat /\ hs = [k \in 1..n + 1 |-> hs[k]]
    BY <1>1
  <2>2. \A k \in 1..n + 1 : hs[k] = Hashes(idx, input, s)[k - 1]
    OBVIOUS
  <2> HIDE DEF hs
  <2> QED BY <2>1, <2>2, FunctionIsSeq
<1> HIDE DEF hs
<1>9. /\ IsSeq(res) /\ Len(res) = n + 3 /\ res[1] = 32 /\ res[2] = n + 1
      /\ \A i \in 1..n + 1 : res[i + 2] = hs[i]
  <2>1. /\ IsSeq(res) /\ Len(res) = Len(hs) + 2 /\ res[1] = 32 /\ res[2] = Len(hs)
        /\ \A i \in 1..Len(hs) : res[i + 2] = hs[i]
    BY <1>8, ArrayWordsAre
  <2> HIDE DEF res
  <2> QED BY <1>1, <1>8, <2>1
<1>10. res = [k \in 1..n + 3 |-> res[k]]
  BY <1>9, SameFunction
<1> HIDE DEF res
<1>11. ASSUME NEW k \in 1..n + 3 PROVE res[k] = Load(mem, 0 + 32 * (k - 1))
  <2>1. CASE k = 1
    <3>1. 0 + 32 * (k - 1) = 0
      BY <2>1
    <3> QED BY <1>3, <1>9, <2>1, <3>1
  <2>2. CASE k = 2
    <3>1. 0 + 32 * (k - 1) = 32
      BY <2>2
    <3> QED BY <1>3, <1>9, <2>2, <3>1
  <2>3. CASE k \in 3..n + 3
    <3>1. /\ k - 2 \in 1..n + 1 /\ (k - 2) + 2 = k /\ (k - 2) - 1 = k - 3 /\ k - 3 \in 0..n
          /\ 0 + 32 * (k - 1) = 64 + 32 * (k - 3)
      BY <1>1, <2>3
    <3>2. res[k] = Hashes(idx, input, s)[k - 3]
      BY <1>8, <1>9, <3>1
    <3>3. Load(mem, 64 + 32 * (k - 3)) = Hashes(idx, input, s)[k - 3]
      BY <1>3, <3>1
    <3> QED BY <3>1, <3>2, <3>3
  <2> QED BY <1>1, <2>1, <2>2, <2>3
<1>12. [k \in 1..n + 3 |-> Load(mem, 0 + 32 * (k - 1))] = res
  BY <1>10, <1>11
<1> QED BY <1>6, <1>7, <1>12 DEF MerkleResult, res, hs, cd, n

LEMMA MerkleExpected ==
    ASSUME NEW idx, NEW input, NEW s, IsMerkleCall(idx, input, s),
           selector = "merkleHash", m.calldata = MerkleData(idx, input, s)
    PROVE  Expected = MerkleResult(idx, input, s)
<1> DEFINE w == MerkleWords(idx, input, s)
           n == Len(s)
<1>1. /\ IsSeq(w) /\ Len(w) = n + 4 /\ n \in Nat
      /\ w[1] = idx /\ w[2] = input /\ w[4] = n
      /\ \A i \in 1..n : w[i + 4] = s[i]
  BY MerkleCallFacts, MerkleWordsAre
<1>2. m.calldata = Encoded(w)
  BY DEF MerkleData
<1> HIDE DEF w
<1>3. ASSUME NEW k \in 1..n + 4 PROVE Word(k) = w[k]
  <2>1. Encoded(w)[32 * k - 28] = w[k]
    BY <1>1, LoadWord
  <2> QED BY <1>2, <2>1 DEF Word
<1>4. Word(1) = idx /\ Word(2) = input /\ Word(4) = n
  <2>1. 1 \in 1..n + 4 /\ 2 \in 1..n + 4 /\ 4 \in 1..n + 4
    BY <1>1
  <2> QED BY <1>1, <1>3, <2>1
<1>5. ArrayAt(4) = s
  <2>1. s = [i \in 1..n |-> s[i]]
    BY MerkleCallFacts, SameFunction
  <2> HIDE DEF n
  <2>2. ASSUME NEW i \in 1..n PROVE Word(4 + i) = s[i]
    <3>1. 4 + i \in 1..n + 4 /\ 4 + i = i + 4
      BY <1>1
    <3> QED BY <1>1, <1>3, <3>1
  <2>3. ArrayAt(4) = [i \in 1..n |-> Word(4 + i)]
    BY <1>4 DEF ArrayAt
  <2> QED BY <2>1, <2>2, <2>3
<1>6. Expected = LET hashes == Tree!merkleHash(idx, input, SistersOf(s), n)
                 IN  <<32>> \o Array([k \in 1..n + 1 |-> hashes[k - 1]])
  BY <1>4, <1>5 DEF Expected, SistersOf
<1> QED BY <1>6 DEF MerkleResult, ArrayWords, Hashes

-----------------------------------------------------------------------------
(* Every step of a call of merkleHash.                                      *)
LEMMA StatesFirst ==
    ASSUME NEW s PROVE States(s)[1 - 1] = s
<1>1. 1 - 1 = 0
  OBVIOUS
<1> QED BY <1>1, StatesAre

LEMMA PermutationStep ==
    ASSUME POSEIDON_PERM, block \in 1..R_F + R_P + 1,
           NEW s \in Field, NEW t, IsSeq(t), NEW mem, NEW cd,
           m = Machine(OnTop(States(s)[block - 1], t), mem, cd)
    PROVE  /\ m' = Machine(OnTop(States(s)[block], t), mem, cd)
           /\ UNCHANGED <<selector, ret, output>>
           /\ \/ pc' = pc /\ block' \in 1..R_F + R_P + 1 /\ States(s)[block] = States(s)[block' - 1]
              \/ pc' = ret /\ States(s)[block] = Permutation(s)
<1> DEFINE N == R_F + R_P + 1
<1>1. N \in Nat /\ Len(generate_huff_code) = N
  BY HalfIs, GeneratedCode
<1>2. block \in 1..N /\ block - 1 \in 0..N
  BY <1>1
<1>3. States(s)[block - 1] \in Field
  BY <1>2, StatesInField
<1>4. States(s)[block] = Round(block, States(s)[block - 1])
  BY <1>2, StatesAre
<1>5. Run(m, generate_huff_code[block]) = Machine(OnTop(States(s)[block], t), mem, cd)
  BY <1>2, <1>3, <1>4, RoundRuns
<1>6. m' = Run(m, generate_huff_code[block]) /\ UNCHANGED <<selector, ret, output>>
  BY DEF POSEIDON_PERM
<1>7. CASE block < N
  <2>1. block' = block + 1 /\ pc' = pc
    BY <1>1, <1>7 DEF POSEIDON_PERM
  <2>2. block' \in 1..N /\ block' - 1 = block
    BY <1>1, <1>2, <1>7, <2>1
  <2> QED BY <1>5, <1>6, <2>1, <2>2
<1>8. CASE ~(block < N)
  <2>1. pc' = ret /\ block = N
    BY <1>1, <1>2, <1>8 DEF POSEIDON_PERM
  <2>2. States(s)[block] = Permutation(s)
    BY <2>1, StatesAre
  <2> QED BY <1>5, <1>6, <2>1, <2>2
<1> QED BY <1>7, <1>8

LEMMA BelowIsSeq ==
    ASSUME NEW idx, NEW s, NEW j PROVE IsSeq(Below(idx, s, j))
BY EmptyIsSeq, ConsIsSeq DEF Below

LEMMA MerkleStarts ==
    ASSUME NEW idx, NEW input, NEW s, IsMerkleCall(idx, input, s),
           selector = "merkleHash", pc \in {"MAIN", "MERKLE_HASH"},
           m = Machine(<<>>, <<>>, MerkleData(idx, input, s)), [Next]_vars
    PROVE  MerkleInv(idx, input, s)'
<1>1. CASE MAIN
  <2>1. pc' = "MERKLE_HASH" /\ m' = m /\ selector' = selector
    BY <1>1 DEF MAIN, Jump
  <2> QED BY <2>1 DEF MerkleInv
<1>2. CASE MERKLE_HASH
  <2>1. m' = Run(m, MERKLE_HASH_CODE) /\ pc' = "loopStart" /\ selector' = selector
    BY <1>2 DEF MERKLE_HASH, MERKLE_HASH_CODE, Jump
  <2>2. PICK mem : /\ m' = Machine(LoopStack(idx, input, s, 0), mem, MerkleData(idx, input, s))
                   /\ Written(mem, idx, input, s, 0)
    BY <2>1, StartsLoop
  <2>3. m'.memory = mem
    BY <2>2, MachineFields
  <2>4. Between(idx, input, s, 0)'
    BY <2>1, <2>2, <2>3 DEF Between
  <2>5. 0 \in 0..Len(s)
    BY MerkleCallFacts
  <2> QED BY <2>1, <2>4, <2>5 DEF MerkleInv
<1>3. CASE UNCHANGED vars
  BY <1>3 DEF MerkleInv, vars
<1> QED
  BY <1>1, <1>2, <1>3 DEF Next, POSEIDON_PERM, MerkleLevel, HASH_AND_STORE_MERKLE_LEVEL,
     MerkleReturn, SPONGE_HASH, Absorb, AbsorbLoop, POSEIDON_SPONGE_SQUEEZE

LEMMA MerkleLoops ==
    ASSUME NEW idx, NEW input, NEW s, IsMerkleCall(idx, input, s),
           selector = "merkleHash", NEW j \in 0..Len(s), Between(idx, input, s, j), [Next]_vars
    PROVE  MerkleInv(idx, input, s)'
<1> DEFINE cd == MerkleData(idx, input, s)
           old == Machine(LoopStack(idx, input, s, j), m.memory, cd)
<1>1. pc = "loopStart" /\ m = old /\ Written(m.memory, idx, input, s, j)
  BY DEF Between
<1>2. /\ IsSeq(s) /\ Len(s) \in Nat /\ j \in Nat /\ idx \in Nat /\ input \in Nat
      /\ \A i \in 1..Len(s) : s[i] \in Nat
  BY MerkleCallFacts
<1>3. Holds(m, <<dup(1), push(0), eq>>) <=> j = Len(s)
  <2> DEFINE t == Cons(132 + 32 * j, Cons(Hashes(idx, input, s)[j],
                    Cons(idx \div 2 ^ j, Cons(96 + 32 * j, <<>>))))
             r == Len(s) - j
  <2>1. IsSeq(t)
    BY EmptyIsSeq, ConsIsSeq
  <2>2. LoopStack(idx, input, s, j) = Cons(r, t)
    BY DEF LoopStack
  <2> HIDE DEF t
  <2>3. r = 0 <=> j = Len(s)
    BY <1>2
  <2> HIDE DEF r, cd
  <2> QED BY <1>1, <2>1, <2>2, <2>3, NoneLeft
<1>4. CASE MerkleLevel
  <2>1. j \in 0..Len(s) - 1
    BY <1>2, <1>3, <1>4 DEF MerkleLevel
  <2>2. /\ m' = HASH_TWO_LEAVES(Run(m, NEXT_LEVEL)) /\ pc' = "POSEIDON_PERM" /\ block' = 1
        /\ ret' = "store" /\ selector' = selector
    BY <1>4 DEF MerkleLevel, Permute, NEXT_LEVEL
  <2>3. m' = Machine(OnTop(Pair(idx, input, s, j), Below(idx, s, j)), m.memory, cd)
    BY <1>1, <2>1, <2>2, EntersLevel
  <2>4. m'.memory = m.memory
    BY <2>3, MachineFields
  <2>5. block' \in 1..R_F + R_P + 1
    BY <2>2, HalfIs
  <2>6. States(Pair(idx, input, s, j))[block' - 1] = Pair(idx, input, s, j)
    BY <2>2, StatesFirst
  <2>7. Permuting(idx, input, s, j)'
    BY <1>1, <2>2, <2>3, <2>4, <2>5, <2>6 DEF Permuting
  <2> QED BY <2>1, <2>2, <2>7 DEF MerkleInv
<1>5. CASE MerkleReturn
  <2>1. j = Len(s)
    BY <1>3, <1>5 DEF MerkleReturn
  <2> DEFINE machine == Run(m, RETURN_HASHES)
  <2>2. /\ output' = [k \in 1..machine.stack[2] \div 32 |->
                        Load(machine.memory, machine.stack[1] + 32 * (k - 1))]
        /\ pc' = "returned" /\ m' = machine /\ selector' = selector
    BY <1>5 DEF MerkleReturn, Return, RETURN_HASHES
  <2>3. machine = Run(Machine(LoopStack(idx, input, s, Len(s)), m.memory, cd), RETURN_HASHES)
        /\ Written(m.memory, idx, input, s, Len(s))
    BY <1>1, <2>1
  <2> HIDE DEF machine
  <2>4. output' = MerkleResult(idx, input, s) /\ m'.calldata = cd
    BY <2>2, <2>3, ReturnsHashes
  <2> QED BY <2>2, <2>4 DEF MerkleInv
<1>6. CASE UNCHANGED vars
  <2>1. Between(idx, input, s, j)' /\ selector' = selector
    BY <1>6 DEF vars, Between
  <2> QED BY <2>1 DEF MerkleInv
<1> HIDE DEF cd, old
<1> QED
  BY <1>1, <1>4, <1>5, <1>6 DEF Next, MAIN, POSEIDON_PERM, MERKLE_HASH,
     HASH_AND_STORE_MERKLE_LEVEL, SPONGE_HASH, Absorb, AbsorbLoop, POSEIDON_SPONGE_SQUEEZE

LEMMA MerklePermutes ==
    ASSUME NEW idx, NEW input, NEW s, IsMerkleCall(idx, input, s),
           selector = "merkleHash", NEW j \in 0..Len(s) - 1, Permuting(idx, input, s, j), [Next]_vars
    PROVE  MerkleInv(idx, input, s)'
<1> DEFINE p == Pair(idx, input, s, j)
           t == Below(idx, s, j)
           cd == MerkleData(idx, input, s)
<1>1. /\ pc = "POSEIDON_PERM" /\ ret = "store" /\ block \in 1..R_F + R_P + 1
      /\ m = Machine(OnTop(States(p)[block - 1], t), m.memory, cd)
      /\ Written(m.memory, idx, input, s, j)
  BY DEF Permuting
<1>2. p \in Field /\ IsSeq(t)
  BY MerkleCallFacts, HashesNat, BelowIsSeq
<1>3. CASE POSEIDON_PERM
  <2> HIDE DEF p, t, cd
  <2>1. /\ m' = Machine(OnTop(States(p)[block], t), m.memory, cd)
        /\ UNCHANGED <<selector, ret, output>>
        /\ \/ /\ pc' = pc /\ block' \in 1..R_F + R_P + 1
              /\ States(p)[block] = States(p)[block' - 1]
           \/ pc' = ret /\ States(p)[block] = Permutation(p)
    BY <1>1, <1>2, <1>3, PermutationStep
  <2>2. m'.memory = m.memory
    BY <2>1, MachineFields
  <2>3. Permuting(idx, input, s, j)' \/ Hashed(idx, input, s, j)'
    BY <1>1, <2>1, <2>2 DEF Permuting, Hashed, p, t, cd
  <2> QED BY <2>1, <2>3 DEF MerkleInv
<1>4. CASE UNCHANGED vars
  <2>1. Permuting(idx, input, s, j)' /\ selector' = selector
    BY <1>4 DEF vars, Permuting
  <2> QED BY <2>1 DEF MerkleInv
<1> HIDE DEF p, t, cd
<1> QED
  BY <1>1, <1>3, <1>4 DEF Next, MAIN, MERKLE_HASH, MerkleLevel, HASH_AND_STORE_MERKLE_LEVEL,
     MerkleReturn, SPONGE_HASH, Absorb, AbsorbLoop, POSEIDON_SPONGE_SQUEEZE

LEMMA MerkleStores ==
    ASSUME NEW idx, NEW input, NEW s, IsMerkleCall(idx, input, s),
           selector = "merkleHash", NEW j \in 0..Len(s) - 1, Hashed(idx, input, s, j), [Next]_vars
    PROVE  MerkleInv(idx, input, s)'
<1>1. /\ pc = "store"
      /\ m = Machine(OnTop(Permutation(Pair(idx, input, s, j)), Below(idx, s, j)),
                     m.memory, MerkleData(idx, input, s))
      /\ Written(m.memory, idx, input, s, j)
  BY DEF Hashed
<1>2. CASE HASH_AND_STORE_MERKLE_LEVEL
  <2>1. m' = Run(m, STORE_LEVEL) /\ pc' = "loopStart" /\ selector' = selector
    BY <1>2 DEF HASH_AND_STORE_MERKLE_LEVEL, STORE_LEVEL, Jump
  <2>2. PICK new : /\ m' = Machine(LoopStack(idx, input, s, j + 1), new, MerkleData(idx, input, s))
                   /\ Written(new, idx, input, s, j + 1)
    BY <1>1, <2>1, StoresLevel
  <2>3. m'.memory = new
    BY <2>2, MachineFields
  <2>4. Between(idx, input, s, j + 1)'
    BY <2>1, <2>2, <2>3 DEF Between
  <2>5. j + 1 \in 0..Len(s)
    BY MerkleCallFacts
  <2> QED BY <2>1, <2>4, <2>5 DEF MerkleInv
<1>3. CASE UNCHANGED vars
  <2>1. Hashed(idx, input, s, j)' /\ selector' = selector
    BY <1>3 DEF vars, Hashed
  <2> QED BY <2>1 DEF MerkleInv
<1> QED
  BY <1>1, <1>2, <1>3 DEF Next, MAIN, POSEIDON_PERM, MERKLE_HASH, MerkleLevel,
     MerkleReturn, SPONGE_HASH, Absorb, AbsorbLoop, POSEIDON_SPONGE_SQUEEZE

LEMMA MerkleKeeps ==
    ASSUME NEW idx, NEW input, NEW s, IsMerkleCall(idx, input, s),
           MerkleInv(idx, input, s), [Next]_vars
    PROVE  MerkleInv(idx, input, s)'
<1>1. selector = "merkleHash"
  BY DEF MerkleInv
<1>2. CASE pc \in {"MAIN", "MERKLE_HASH"} /\ m = Machine(<<>>, <<>>, MerkleData(idx, input, s))
  BY <1>1, <1>2, MerkleStarts
<1>3. CASE \E j \in 0..Len(s) : Between(idx, input, s, j)
  BY <1>1, <1>3, MerkleLoops
<1>4. CASE \E j \in 0..Len(s) - 1 : Permuting(idx, input, s, j) \/ Hashed(idx, input, s, j)
  BY <1>1, <1>4, MerklePermutes, MerkleStores
<1>5. CASE /\ pc = "returned" /\ output = MerkleResult(idx, input, s)
           /\ m.calldata = MerkleData(idx, input, s)
  <2>1. UNCHANGED vars
    BY <1>5 DEF Next, MAIN, POSEIDON_PERM, MERKLE_HASH, MerkleLevel, HASH_AND_STORE_MERKLE_LEVEL,
       MerkleReturn, SPONGE_HASH, Absorb, AbsorbLoop, POSEIDON_SPONGE_SQUEEZE
  <2> QED BY <1>1, <1>5, <2>1 DEF MerkleInv, vars
<1> QED BY <1>2, <1>3, <1>4, <1>5 DEF MerkleInv

-----------------------------------------------------------------------------
(* A call of spongeHash.                                                    *)
IsSpongeCall(s) == s \in SeqsUpTo(Elements, 1, MaxInputs)

LEMMA SpongeCallFacts ==
    ASSUME NEW s, IsSpongeCall(s)
    PROVE  /\ IsSeq(s) /\ Len(s) \in Nat \ {0} /\ 32 * Len(s) + 256 <= WORD
           /\ \A i \in 1..Len(s) : s[i] \in Nat
<1>1. MaxInputs \in Nat /\ 32 * MaxInputs + 256 <= WORD /\ \A x \in Elements : x \in Nat
  BY Bounds
<1>2. IsSeq(s) /\ Len(s) \in 1..MaxInputs /\ \A i \in 1..Len(s) : s[i] \in Elements
  BY <1>1, SeqsAre DEF IsSpongeCall
<1>3. WORD \in Nat
  BY Bounds
<1> QED BY <1>1, <1>2, <1>3

LEMMA AbsorbedInField ==
    ASSUME NEW s, IsSpongeCall(s)
    PROVE  \A k \in 0..Len(s) : Absorbed(s)[k] \in Field
<1> DEFINE n == Len(s)
           Good == {k \in 0..n : Absorbed(s)[k] \in Field}
<1>1. IsSeq(s) /\ n \in Nat /\ \A i \in 1..n : s[i] \in Nat
  BY SpongeCallFacts
<1> HIDE DEF n
<1>2. 0 \in Good
  <2>1. <<0, 0, 0>> \in Field
    BY DEF Field
  <2> QED BY <1>1, <2>1, AbsorbedAre
<1>3. ASSUME NEW k \in 0..n-1, k \in Good PROVE k + 1 \in Good
  <2> DEFINE a == Absorbed(s)[k]
             b == IF k + 1 > 1 /\ (k + 1) % 2 = 1 THEN Permutation(a) ELSE a
  <2>1. a \in Field /\ b \in Field
    <3>1. a \in Field
      BY <1>3
    <3> HIDE DEF a
    <3> QED BY <3>1, StatesInField
  <2>2. k + 1 \in 1..n /\ (k + 1) - 1 = k /\ s[k + 1] \in Nat
    BY <1>1
  <2>3. Absorbed(s)[k + 1] = AbsorbAt(s, b, k + 1)
    BY <1>1, <2>2, AbsorbedAre DEF AbsorbNext, n
  <2> HIDE DEF a, b
  <2>4. AbsorbAt(s, b, k + 1) \in Field
    <3>1. b[1] \in Nat /\ b[2] \in Nat /\ b[3] \in Nat
      BY <2>1, InField
    <3>2. (b[2] + s[k + 1]) % PRIME \in Nat /\ (b[3] + s[k + 1]) % PRIME \in Nat
      <4>1. PRIME \in Nat \ {0} /\ b[2] + s[k + 1] \in Nat /\ b[3] + s[k + 1] \in Nat
        BY <2>2, <3>1, PoseidonAssumption
      <4>2. (b[2] + s[k + 1]) % PRIME \in 0..PRIME-1
        BY <4>1, ModRange
      <4>3. (b[3] + s[k + 1]) % PRIME \in 0..PRIME-1
        BY <4>1, ModRange
      <4> QED BY <4>1, <4>2, <4>3
    <3>3. /\ <<b[1], b[2], (b[3] + s[k + 1]) % PRIME>> \in Field
          /\ <<b[1], (b[2] + s[k + 1]) % PRIME, b[3]>> \in Field
      BY <3>1, <3>2 DEF Field
    <3> QED BY <3>3 DEF AbsorbAt
  <2> QED BY <1>1, <2>2, <2>3, <2>4
<1>4. \A k \in 0..n : k \in Good
  <2> HIDE DEF Good
  <2> QED BY <1>1, <1>2, <1>3, UpTo
<1> QED BY <1>4 DEF n

(* The state that a pair of inputs is absorbed into.                        *)
Mixed(s, k) == IF k = 0 THEN <<0, 0, 0>> ELSE Permutation(Absorbed(s)[k])

LEMMA AbsorbsPair ==
    ASSUME NEW s, IsSpongeCall(s), NEW k \in 0..Len(s) - 1, k % 2 = 0
    PROVE  /\ Mixed(s, k) \in Field
           /\ Absorbed(s)[k + 1]
                = <<Mixed(s, k)[1], (Mixed(s, k)[2] + s[k + 1]) % PRIME, Mixed(s, k)[3]>>
           /\ k + 2 <= Len(s) =>
                Absorbed(s)[k + 2]
                  = <<Mixed(s, k)[1], (Mixed(s, k)[2] + s[k + 1]) % PRIME,
                      (Mixed(s, k)[3] + s[k + 2]) % PRIME>>
<1> DEFINE x == Mixed(s, k)
           one == <<x[1], (x[2] + s[k + 1]) % PRIME, x[3]>>
<1>1. IsSeq(s) /\ Len(s) \in Nat /\ k \in Nat
  BY SpongeCallFacts
<1>2. x \in Field
  <2>1. <<0, 0, 0>> \in Field
    BY DEF Field
  <2>2. Absorbed(s)[k] \in Field
    BY <1>1, AbsorbedInField
  <2> QED BY <2>1, <2>2, StatesInField DEF Mixed
<1>3. Absorbed(s)[k + 1] = AbsorbNext(s, Absorbed(s)[k], k + 1)
  <2>1. k + 1 \in 1..Len(s) /\ (k + 1) - 1 = k
    BY <1>1
  <2> QED BY <1>1, <2>1, AbsorbedAre
<1>4. (IF k + 1 > 1 /\ (k + 1) % 2 = 1 THEN Permutation(Absorbed(s)[k]) ELSE Absorbed(s)[k]) = x
  <2>1. CASE k = 0
    <3>1. ~(k + 1 > 1)
      BY <2>1
    <3>2. Absorbed(s)[0] = <<0, 0, 0>>
      BY <1>1, AbsorbedAre
    <3> QED BY <2>1, <3>1, <3>2 DEF Mixed
  <2>2. CASE k # 0
    <3>1. k + 1 > 1 /\ (k + 1) % 2 = 1
      BY <1>1, <2>2
    <3> QED BY <2>2, <3>1 DEF Mixed
  <2> QED BY <2>1, <2>2
<1> HIDE DEF x
<1>5. Absorbed(s)[k + 1] = one
  <2>1. (k + 1) % 2 # 0
    BY <1>1
  <2>2. Absorbed(s)[k + 1] = AbsorbAt(s, x, k + 1)
    BY <1>3, <1>4 DEF AbsorbNext
  <2> QED BY <2>1, <2>2 DEF AbsorbAt
<1>6. ASSUME k + 2 <= Len(s)
      PROVE  Absorbed(s)[k + 2]
               = <<x[1], (x[2] + s[k + 1]) % PRIME, (x[3] + s[k + 2]) % PRIME>>
  <2>1. /\ k + 2 \in 1..Len(s) /\ (k + 2) - 1 = k + 1 /\ (k + 2) % 2 = 0
        /\ ~((k + 2) % 2 = 1)
    BY <1>1, <1>6
  <2>2. Absorbed(s)[k + 2] = AbsorbNext(s, Absorbed(s)[k + 1], k + 2)
    BY <1>1, <2>1, AbsorbedAre
  <2>3. AbsorbNext(s, one, k + 2) = AbsorbAt(s, one, k + 2)
    BY <2>1 DEF AbsorbNext
  <2>4. AbsorbAt(s, one, k + 2) = <<one[1], one[2], (one[3] + s[k + 2]) % PRIME>>
    BY <2>1 DEF AbsorbAt
  <2>5. one[1] = x[1] /\ one[2] = (x[2] + s[k + 1]) % PRIME /\ one[3] = x[3]
    OBVIOUS
  <2> HIDE DEF one
  <2> QED BY <1>5, <2>2, <2>3, <2>4, <2>5
<1> QED BY <1>2, <1>5, <1>6 DEF x

(* The stack below the state once k inputs are absorbed.                    *)
SpongeBelow(s, k) == Cons(Len(s) - k, Cons(68 + 32 * k, <<>>))

SpongeData(s) == Encoded(ArrayWords(s))

Absorbing(s, k) ==
    /\ pc = "absorb" /\ k % 2 = 0
    /\ m = Machine(OnTop(Mixed(s, k), SpongeBelow(s, k)), m.memory, SpongeData(s))

AbsorbedTwo(s, k) ==
    /\ pc = "allAbsorbed?" /\ k % 2 = 0
    /\ m = Machine(OnTop(Absorbed(s)[k], SpongeBelow(s, k)), m.memory, SpongeData(s))

Mixing(s, k) ==
    /\ pc = "POSEIDON_PERM" /\ ret = "absorb" /\ block \in 1..R_F + R_P + 1 /\ k % 2 = 0
    /\ m = Machine(OnTop(States(Absorbed(s)[k])[block - 1], SpongeBelow(s, k)),
                   m.memory, SpongeData(s))

Finishing(s, k) ==
    /\ pc = "POSEIDON_PERM" /\ ret = "squeezed" /\ block \in 1..R_F + R_P + 1
    /\ m = Machine(OnTop(States(Absorbed(s)[Len(s)])[block - 1], SpongeBelow(s, k)),
                   m.memory, SpongeData(s))

Finished(s, k) ==
    /\ pc = "squeezed"
    /\ m = Machine(OnTop(Permutation(Absorbed(s)[Len(s)]), SpongeBelow(s, k)),
                   m.memory, SpongeData(s))

SpongeInv(s) ==
    /\ selector = "spongeHash"
    /\ \/ pc \in {"MAIN", "SPONGE_HASH"} /\ m = Machine(<<>>, <<>>, SpongeData(s))
       \/ \E k \in 0..Len(s) - 1 : Absorbing(s, k)
       \/ \E k \in 1..Len(s) : AbsorbedTwo(s, k)
       \/ \E k \in 1..Len(s) - 1 : Mixing(s, k)
       \/ \E k \in 0..Len(s) : Finishing(s, k) \/ Finished(s, k)
       \/ /\ pc = "returned" /\ output = <<SpongeOf(s)>>
          /\ m.calldata = SpongeData(s)

LEMMA SpongeBelowIsSeq ==
    ASSUME NEW s, NEW k PROVE IsSeq(SpongeBelow(s, k))
BY EmptyIsSeq, ConsIsSeq DEF SpongeBelow

LEMMA SpongeDataIs ==
    ASSUME NEW s, IsSeq(s)
    PROVE  /\ Load(SpongeData(s), 4) = 32
           /\ Load(SpongeData(s), 36) = Len(s)
           /\ \A j \in 0..Len(s) - 1 : Load(SpongeData(s), 68 + 32 * j) = s[j + 1]
<1> DEFINE w == ArrayWords(s)
<1>1. /\ IsSeq(w) /\ Len(w) = Len(s) + 2 /\ Len(s) \in Nat
      /\ w[1] = 32 /\ w[2] = Len(s)
      /\ \A i \in 1..Len(s) : w[i + 2] = s[i]
  BY ArrayWordsAre
<1> HIDE DEF w
<1>2. Load(Encoded(w), 4) = w[1]
  <2>1. 32 * 1 - 28 = 4 /\ 1 \in 1..Len(w)
    BY <1>1
  <2> QED BY <1>1, <2>1, LoadWord
<1>3. Load(Encoded(w), 36) = w[2]
  <2>1. 32 * 2 - 28 = 36 /\ 2 \in 1..Len(w)
    BY <1>1
  <2> QED BY <1>1, <2>1, LoadWord
<1>4. ASSUME NEW j \in 0..Len(s) - 1 PROVE Load(Encoded(w), 68 + 32 * j) = s[j + 1]
  <2>1. /\ (j + 1) + 2 \in 1..Len(w) /\ 68 + 32 * j = 32 * ((j + 1) + 2) - 28
        /\ j + 1 \in 1..Len(s)
    BY <1>1
  <2>2. Load(Encoded(w), 68 + 32 * j) = w[(j + 1) + 2]
    BY <1>1, <2>1, LoadWord
  <2> QED BY <1>1, <2>1, <2>2
<1> QED BY <1>1, <1>2, <1>3, <1>4 DEF SpongeData, w

LEMMA SpongeExpected ==
    ASSUME NEW s, IsSpongeCall(s), selector = "spongeHash", m.calldata = SpongeData(s)
    PROVE  Expected = <<SpongeOf(s)>>
<1> DEFINE w == ArrayWords(s)
           n == Len(s)
<1>1. /\ IsSeq(w) /\ Len(w) = n + 2 /\ n \in Nat /\ w[2] = n
      /\ \A i \in 1..n : w[i + 2] = s[i]
  BY SpongeCallFacts, ArrayWordsAre
<1>2. m.calldata = Encoded(w)
  BY DEF SpongeData
<1> HIDE DEF w
<1>3. ASSUME NEW k \in 1..n + 2 PROVE Word(k) = w[k]
  <2>1. Encoded(w)[32 * k - 28] = w[k]
    BY <1>1, LoadWord
  <2> QED BY <1>2, <2>1 DEF Word
<1>4. Word(2) = n
  BY <1>1, <1>3
<1>5. ArrayAt(2) = s
  <2>1. s = [i \in 1..n |-> s[i]]
    BY SpongeCallFacts, SameFunction
  <2> HIDE DEF n
  <2>2. ASSUME NEW i \in 1..n PROVE Word(2 + i) = s[i]
    <3>1. 2 + i \in 1..n + 2 /\ 2 + i = i + 2
      BY <1>1
    <3> QED BY <1>1, <1>3, <3>1
  <2>3. ArrayAt(2) = [i \in 1..n |-> Word(2 + i)]
    BY <1>4 DEF ArrayAt
  <2> QED BY <2>1, <2>2, <2>3
<1> QED BY <1>5 DEF Expected

-----------------------------------------------------------------------------
(* Every step of a call of spongeHash.                                      *)
LEMMA StartsAbsorbing ==
    ASSUME NEW s, IsSpongeCall(s)
    PROVE  Run(Machine(<<>>, <<>>, SpongeData(s)), SPONGE_HASH_CODE)
             = Machine(OnTop(Mixed(s, 0), SpongeBelow(s, 0)), <<>>, SpongeData(s))
<1> DEFINE cd == SpongeData(s)
           n == Len(s)
<1>1. IsSeq(s) /\ n \in Nat /\ WORD \in Nat /\ 256 <= WORD
  BY SpongeCallFacts, Bounds
<1>2. Load(cd, 4) = 32 /\ Load(cd, 36) = n
  BY <1>1, SpongeDataIs
<1>3. Binary("add", 4, 32) = 36 /\ Binary("add", 32, 36) = 68
  <2>1. 4 + 32 = 36 /\ 32 + 36 = 68 /\ 36 < WORD /\ 68 < WORD
    BY <1>1
  <2>2. Binary("add", 4, 32) = 36
    BY <2>1, AddIs
  <2>3. Binary("add", 32, 36) = 68
    BY <2>1, AddIs
  <2> QED BY <2>2, <2>3
<1>4. OnTop(Mixed(s, 0), SpongeBelow(s, 0)) = Cons(0, Cons(0, Cons(0, Cons(n, Cons(68, <<>>)))))
  <2>1. n - 0 = n /\ 68 + 32 * 0 = 68
    BY <1>1
  <2> QED BY <2>1 DEF OnTop, Mixed, SpongeBelow
<1> HIDE DEF cd, n
<1>5. Run(Machine(<<>>, <<>>, cd), SPONGE_HASH_CODE)
        = Machine(Cons(0, Cons(0, Cons(0, Cons(Load(cd, Binary("add", 4, Load(cd, 4))),
                    Cons(Binary("add", 32, Binary("add", 4, Load(cd, 4))), <<>>))))), <<>>, cd)
  BY RunSpongeHash, EmptyIsSeq
<1> QED BY <1>2, <1>3, <1>4, <1>5 DEF cd

LEMMA LastTest ==
    ASSUME NEW s, NEW k, NEW x, NEW mem, NEW cd
    PROVE  /\ Holds(Machine(OnTop(x, SpongeBelow(s, k)), mem, cd), <<dup(4), push(1), eq>>)
                <=> Len(s) - k = 1
           /\ Holds(Machine(OnTop(x, SpongeBelow(s, k)), mem, cd), <<dup(4), push(0), eq>>)
                <=> Len(s) - k = 0
<1> DEFINE r == Len(s) - k
           q == Cons(68 + 32 * k, <<>>)
           old == Cons(x[1], Cons(x[2], Cons(x[3], Cons(r, q))))
<1>1. IsSeq(q) /\ IsSeq(old)
  BY EmptyIsSeq, ConsIsSeq
<1>2. OnTop(x, SpongeBelow(s, k)) = old
  BY DEF OnTop, SpongeBelow
<1> HIDE DEF q, r
<1>3. /\ Run(Machine(old, mem, cd), <<dup(4), push(1), eq>>)
           = Machine(Cons(Binary("eq", 1, r), old), mem, cd)
      /\ Run(Machine(old, mem, cd), <<dup(4), push(0), eq>>)
           = Machine(Cons(Binary("eq", 0, r), old), mem, cd)
  BY <1>1, RunIsLast, RunAllAbsorbed
<1> HIDE DEF old
<1>4. /\ Cons(Binary("eq", 1, r), old)[1] = Binary("eq", 1, r)
      /\ Cons(Binary("eq", 0, r), old)[1] = Binary("eq", 0, r)
  BY <1>1, ConsFacts
<1>5. (Binary("eq", 1, r) # 0 <=> r = 1) /\ (Binary("eq", 0, r) # 0 <=> r = 0)
  BY EqIs
<1>6. Holds(Machine(old, mem, cd), <<dup(4), push(1), eq>>) <=> r = 1
  BY <1>3, <1>4, <1>5, MachineFields DEF Holds
<1>7. Holds(Machine(old, mem, cd), <<dup(4), push(0), eq>>) <=> r = 0
  BY <1>3, <1>4, <1>5, MachineFields DEF Holds
<1> QED BY <1>2, <1>6, <1>7 DEF r

LEMMA AbsorbsLast ==
    ASSUME NEW s, IsSpongeCall(s), NEW k \in 0..Len(s) - 1, k % 2 = 0, Len(s) - k = 1, NEW mem
    PROVE  Run(Machine(OnTop(Mixed(s, k), SpongeBelow(s, k)), mem, SpongeData(s)), lastInput)
             = Machine(OnTop(Absorbed(s)[Len(s)], SpongeBelow(s, k)), mem, SpongeData(s))
<1> DEFINE cd == SpongeData(s)
           x == Mixed(s, k)
           r == Len(s) - k
           q == 68 + 32 * k
           in == s[k + 1]
<1>1. /\ IsSeq(s) /\ Len(s) \in Nat /\ k \in Nat /\ k + 1 = Len(s)
      /\ in \in Nat
  BY SpongeCallFacts
<1>2. Load(cd, q) = in
  <2>1. \A j \in 0..Len(s) - 1 : Load(SpongeData(s), 68 + 32 * j) = s[j + 1]
    BY <1>1, SpongeDataIs
  <2> QED BY <2>1
<1>3. x \in Field /\ Absorbed(s)[Len(s)] = <<x[1], (x[2] + in) % PRIME, x[3]>>
  BY <1>1, AbsorbsPair
<1>4. SpongeBelow(s, k) = Cons(r, Cons(q, <<>>))
  BY DEF SpongeBelow
<1> HIDE DEF cd, x, r, q, in
<1>5. AddMod(in, x[2], PRIME) = (x[2] + in) % PRIME
  <2>1. x[2] \in Nat
    BY <1>3, InField
  <2>2. in + x[2] = x[2] + in
    BY <1>1, <2>1
  <2> QED BY <1>1, <2>1, <2>2, AddModIs
<1>6. Run(Machine(OnTop(x, SpongeBelow(s, k)), mem, cd), lastInput)
        = Machine(Cons(x[1], Cons(AddMod(Load(cd, q), x[2], PRIME), Cons(x[3], Cons(r, Cons(q, <<>>))))),
                  mem, cd)
  BY <1>4, RunLastInput, EmptyIsSeq DEF OnTop
<1>7. OnTop(Absorbed(s)[Len(s)], SpongeBelow(s, k))
        = Cons(x[1], Cons((x[2] + in) % PRIME, Cons(x[3], Cons(r, Cons(q, <<>>)))))
  BY <1>3, <1>4 DEF OnTop
<1> QED BY <1>2, <1>5, <1>6, <1>7 DEF cd, x

LEMMA AbsorbsTwo ==
    ASSUME NEW s, IsSpongeCall(s), NEW k \in 0..Len(s) - 1, k % 2 = 0, Len(s) - k # 1, NEW mem
    PROVE  /\ k + 2 \in 1..Len(s) /\ (k + 2) % 2 = 0
           /\ Run(Machine(OnTop(Mixed(s, k), SpongeBelow(s, k)), mem, SpongeData(s)), ABSORB_NEXT_TWO)
                = Machine(OnTop(Absorbed(s)[k + 2], SpongeBelow(s, k + 2)), mem, SpongeData(s))
<1> DEFINE cd == SpongeData(s)
           x == Mixed(s, k)
           r == Len(s) - k
           q == 68 + 32 * k
           in == s[k + 1]
           next == s[k + 2]
<1>1. /\ IsSeq(s) /\ Len(s) \in Nat /\ k \in Nat /\ k + 2 <= Len(s) /\ (k + 2) % 2 = 0
      /\ WORD \in Nat /\ 32 * Len(s) + 256 <= WORD
  BY SpongeCallFacts, Bounds
<1>2. in \in Nat /\ next \in Nat
  BY <1>1, SpongeCallFacts
<1>3. Load(cd, q) = in /\ Load(cd, 68 + 32 * (k + 1)) = next
  <2>1. \A j \in 0..Len(s) - 1 : Load(SpongeData(s), 68 + 32 * j) = s[j + 1]
    BY <1>1, SpongeDataIs
  <2>2. k \in 0..Len(s) - 1 /\ k + 1 \in 0..Len(s) - 1 /\ (k + 1) + 1 = k + 2
    BY <1>1
  <2> QED BY <2>1, <2>2
<1>4. /\ x \in Field
      /\ Absorbed(s)[k + 2] = <<x[1], (x[2] + in) % PRIME, (x[3] + next) % PRIME>>
  BY <1>1, AbsorbsPair
<1>5. Binary("add", 32, q) = 68 + 32 * (k + 1)
  <2>1. q \in Nat /\ 32 + q < WORD /\ 32 + q = 68 + 32 * (k + 1)
    BY <1>1
  <2> HIDE DEF q
  <2> QED BY <2>1, AddIs
<1>6. Binary("add", 32, 68 + 32 * (k + 1)) = 68 + 32 * (k + 2)
  <2> DEFINE p == 68 + 32 * (k + 1)
  <2>1. p \in Nat /\ 32 + p < WORD /\ 32 + p = 68 + 32 * (k + 2)
    BY <1>1
  <2> HIDE DEF p
  <2>2. Binary("add", 32, p) = 32 + p
    BY <2>1, AddIs
  <2> QED BY <2>1, <2>2 DEF p
<1>7. Binary("sub", r, 2) = Len(s) - (k + 2)
  <2>1. r \in Nat /\ 2 <= r /\ r - 2 < WORD /\ r - 2 = Len(s) - (k + 2)
    BY <1>1
  <2> HIDE DEF r
  <2> QED BY <2>1, SubIs
<1>8. /\ SpongeBelow(s, k) = Cons(r, Cons(q, <<>>))
      /\ SpongeBelow(s, k + 2) = Cons(Len(s) - (k + 2), Cons(68 + 32 * (k + 2), <<>>))
  BY DEF SpongeBelow
<1> HIDE DEF cd, x, r, q, in, next
<1>9. AddMod(in, x[2], PRIME) = (x[2] + in) % PRIME /\ AddMod(next, x[3], PRIME) = (x[3] + next) % PRIME
  <2>1. x[2] \in Nat /\ x[3] \in Nat
    BY <1>4, InField
  <2>2. in + x[2] = x[2] + in /\ next + x[3] = x[3] + next
    BY <1>2, <2>1
  <2>3. AddMod(in, x[2], PRIME) = (in + x[2]) % PRIME
    BY <1>2, <2>1, AddModIs
  <2>4. AddMod(next, x[3], PRIME) = (next + x[3]) % PRIME
    BY <1>2, <2>1, AddModIs
  <2> QED BY <2>2, <2>3, <2>4
<1>10. Run(Machine(OnTop(x, SpongeBelow(s, k)), mem, cd), ABSORB_NEXT_TWO)
         = Machine(Cons(x[1], Cons(AddMod(Load(cd, q), x[2], PRIME),
                     Cons(AddMod(Load(cd, Binary("add", 32, q)), x[3], PRIME),
                       Cons(Binary("sub", r, 2),
                         Cons(Binary("add", 32, Binary("add", 32, q)), <<>>))))), mem, cd)
  BY <1>8, RunAbsorbNextTwo, EmptyIsSeq DEF OnTop
<1>11. OnTop(Absorbed(s)[k + 2], SpongeBelow(s, k + 2))
         = Cons(x[1], Cons((x[2] + in) % PRIME, Cons((x[3] + next) % PRIME,
             Cons(Len(s) - (k + 2), Cons(68 + 32 * (k + 2), <<>>)))))
  BY <1>4, <1>8 DEF OnTop
<1>12. k + 2 \in 1..Len(s)
  BY <1>1
<1>13. Run(Machine(OnTop(x, SpongeBelow(s, k)), mem, cd), ABSORB_NEXT_TWO)
         = Machine(OnTop(Absorbed(s)[k + 2], SpongeBelow(s, k + 2)), mem, cd)
  BY <1>3, <1>5, <1>6, <1>7, <1>9, <1>10, <1>11
<1> QED BY <1>1, <1>12, <1>13 DEF cd, x

LEMMA SpongeStarts ==
    ASSUME NEW s, IsSpongeCall(s), selector = "spongeHash", pc \in {"MAIN", "SPONGE_HASH"},
           m = Machine(<<>>, <<>>, SpongeData(s)), [Next]_vars
    PROVE  SpongeInv(s)'
<1>1. CASE MAIN
  <2>1. pc' = "SPONGE_HASH" /\ m' = m /\ selector' = selector
    BY <1>1 DEF MAIN, Jump
  <2> QED BY <2>1 DEF SpongeInv
<1>2. CASE SPONGE_HASH
  <2>1. m' = Run(m, SPONGE_HASH_CODE) /\ pc' = "absorb" /\ selector' = selector
    BY <1>2 DEF SPONGE_HASH, SPONGE_HASH_CODE, Jump
  <2>2. m' = Machine(OnTop(Mixed(s, 0), SpongeBelow(s, 0)), <<>>, SpongeData(s))
    BY <2>1, StartsAbsorbing
  <2>3. m'.memory = <<>>
    BY <2>2, MachineFields
  <2>4. 0 \in 0..Len(s) - 1 /\ 0 % 2 = 0
    BY SpongeCallFacts
  <2>5. Absorbing(s, 0)'
    BY <2>1, <2>2, <2>3, <2>4 DEF Absorbing
  <2> QED BY <2>1, <2>4, <2>5 DEF SpongeInv
<1>3. CASE UNCHANGED vars
  BY <1>3 DEF SpongeInv, vars
<1> QED
  BY <1>1, <1>2, <1>3 DEF Next, POSEIDON_PERM, MERKLE_HASH, MerkleLevel,
     HASH_AND_STORE_MERKLE_LEVEL, MerkleReturn, Absorb, AbsorbLoop, POSEIDON_SPONGE_SQUEEZE

LEMMA SpongeAbsorbs ==
    ASSUME NEW s, IsSpongeCall(s), selector = "spongeHash",
           NEW k \in 0..Len(s) - 1, Absorbing(s, k), [Next]_vars
    PROVE  SpongeInv(s)'
<1>1. /\ pc = "absorb" /\ k % 2 = 0
      /\ m = Machine(OnTop(Mixed(s, k), SpongeBelow(s, k)), m.memory, SpongeData(s))
  BY DEF Absorbing
<1>2. Len(s) \in Nat /\ k \in Nat
  BY SpongeCallFacts
<1>3. Holds(m, <<dup(4), push(1), eq>>) <=> Len(s) - k = 1
  BY <1>1, LastTest
<1>4. CASE Absorb /\ Len(s) - k = 1
  <2>1. /\ m' = Run(m, lastInput) /\ pc' = "POSEIDON_PERM" /\ block' = 1 /\ ret' = "squeezed"
        /\ selector' = selector
    BY <1>3, <1>4 DEF Absorb, Permute
  <2>2. m' = Machine(OnTop(Absorbed(s)[Len(s)], SpongeBelow(s, k)), m.memory, SpongeData(s))
    BY <1>1, <1>4, <2>1, AbsorbsLast
  <2>3. m'.memory = m.memory
    BY <2>2, MachineFields
  <2>4. block' \in 1..R_F + R_P + 1
    BY <2>1, HalfIs
  <2>5. States(Absorbed(s)[Len(s)])[block' - 1] = Absorbed(s)[Len(s)]
    BY <2>1, StatesFirst
  <2>6. Finishing(s, k)' /\ k \in 0..Len(s)
    BY <1>2, <2>1, <2>2, <2>3, <2>4, <2>5 DEF Finishing
  <2> QED BY <2>1, <2>6 DEF SpongeInv
<1>5. CASE Absorb /\ Len(s) - k # 1
  <2>1. m' = Run(m, ABSORB_NEXT_TWO) /\ pc' = "allAbsorbed?" /\ selector' = selector
    BY <1>3, <1>5 DEF Absorb, Jump
  <2>2. /\ k + 2 \in 1..Len(s) /\ (k + 2) % 2 = 0
        /\ m' = Machine(OnTop(Absorbed(s)[k + 2], SpongeBelow(s, k + 2)), m.memory, SpongeData(s))
    BY <1>1, <1>5, <2>1, AbsorbsTwo
  <2>3. m'.memory = m.memory
    BY <2>2, MachineFields
  <2>4. AbsorbedTwo(s, k + 2)'
    BY <2>1, <2>2, <2>3 DEF AbsorbedTwo
  <2> QED BY <2>1, <2>2, <2>4 DEF SpongeInv
<1>6. CASE UNCHANGED vars
  <2>1. Absorbing(s, k)' /\ selector' = selector
    BY <1>6 DEF vars, Absorbing
  <2> QED BY <2>1 DEF SpongeInv
<1> QED
  BY <1>1, <1>4, <1>5, <1>6 DEF Next, MAIN, POSEIDON_PERM, MERKLE_HASH, MerkleLevel,
     HASH_AND_STORE_MERKLE_LEVEL, MerkleReturn, SPONGE_HASH, AbsorbLoop, POSEIDON_SPONGE_SQUEEZE

LEMMA SpongeLoops ==
    ASSUME NEW s, IsSpongeCall(s), selector = "spongeHash",
           NEW k \in 1..Len(s), AbsorbedTwo(s, k), [Next]_vars
    PROVE  SpongeInv(s)'
<1>1. /\ pc = "allAbsorbed?" /\ k % 2 = 0
      /\ m = Machine(OnTop(Absorbed(s)[k], SpongeBelow(s, k)), m.memory, SpongeData(s))
  BY DEF AbsorbedTwo
<1>2. Len(s) \in Nat /\ k \in Nat
  BY SpongeCallFacts
<1>3. Holds(m, <<dup(4), push(0), eq>>) <=> Len(s) - k = 0
  BY <1>1, LastTest
<1>4. CASE AbsorbLoop
  <2>1. /\ m' = m /\ pc' = "POSEIDON_PERM" /\ block' = 1 /\ selector' = selector
        /\ ret' = IF Len(s) - k = 0 THEN "squeezed" ELSE "absorb"
    BY <1>3, <1>4 DEF AbsorbLoop, Permute
  <2>2. block' \in 1..R_F + R_P + 1
    BY <2>1, HalfIs
  <2>3. States(Absorbed(s)[k])[block' - 1] = Absorbed(s)[k]
    BY <2>1, StatesFirst
  <2>4. CASE Len(s) - k = 0
    <3>1. k = Len(s) /\ k \in 0..Len(s)
      BY <1>2, <2>4
    <3>2. Finishing(s, k)'
      BY <1>1, <2>1, <2>2, <2>3, <2>4, <3>1 DEF Finishing
    <3> QED BY <2>1, <3>1, <3>2 DEF SpongeInv
  <2>5. CASE Len(s) - k # 0
    <3>1. k \in 1..Len(s) - 1
      BY <1>2, <2>5
    <3>2. Mixing(s, k)'
      BY <1>1, <2>1, <2>2, <2>3, <2>5 DEF Mixing
    <3> QED BY <2>1, <3>1, <3>2 DEF SpongeInv
  <2> QED BY <2>4, <2>5
<1>5. CASE UNCHANGED vars
  <2>1. AbsorbedTwo(s, k)' /\ selector' = selector
    BY <1>5 DEF vars, AbsorbedTwo
  <2> QED BY <2>1 DEF SpongeInv
<1> QED
  BY <1>1, <1>4, <1>5 DEF Next, MAIN, POSEIDON_PERM, MERKLE_HASH, MerkleLevel,
     HASH_AND_STORE_MERKLE_LEVEL, MerkleReturn, SPONGE_HASH, Absorb, POSEIDON_SPONGE_SQUEEZE

LEMMA SpongeMixes ==
    ASSUME NEW s, IsSpongeCall(s), selector = "spongeHash",
           NEW k \in 1..Len(s) - 1, Mixing(s, k), [Next]_vars
    PROVE  SpongeInv(s)'
<1> DEFINE a == Absorbed(s)[k]
           t == SpongeBelow(s, k)
           cd == SpongeData(s)
<1>1. /\ pc = "POSEIDON_PERM" /\ ret = "absorb" /\ block \in 1..R_F + R_P + 1 /\ k % 2 = 0
      /\ m = Machine(OnTop(States(a)[block - 1], t), m.memory, cd)
  BY DEF Mixing
<1>2. a \in Field /\ IsSeq(t)
  BY SpongeCallFacts, AbsorbedInField, SpongeBelowIsSeq
<1>3. CASE POSEIDON_PERM
  <2>1. Permutation(a) = Mixed(s, k) /\ k \in 0..Len(s) - 1
    BY SpongeCallFacts DEF Mixed
  <2> HIDE DEF a, t, cd
  <2>2. /\ m' = Machine(OnTop(States(a)[block], t), m.memory, cd)
        /\ UNCHANGED <<selector, ret, output>>
        /\ \/ /\ pc' = pc /\ block' \in 1..R_F + R_P + 1
              /\ States(a)[block] = States(a)[block' - 1]
           \/ pc' = ret /\ States(a)[block] = Permutation(a)
    BY <1>1, <1>2, <1>3, PermutationStep
  <2>3. m'.memory = m.memory
    BY <2>2, MachineFields
  <2>4. Mixing(s, k)' \/ Absorbing(s, k)'
    BY <1>1, <2>1, <2>2, <2>3 DEF Mixing, Absorbing, a, t, cd
  <2> QED BY <2>1, <2>2, <2>4 DEF SpongeInv
<1>4. CASE UNCHANGED vars
  <2>1. Mixing(s, k)' /\ selector' = selector
    BY <1>4 DEF vars, Mixing
  <2> QED BY <2>1 DEF SpongeInv
<1> HIDE DEF a, t, cd
<1> QED
  BY <1>1, <1>3, <1>4 DEF Next, MAIN, MERKLE_HASH, MerkleLevel, HASH_AND_STORE_MERKLE_LEVEL,
     MerkleReturn, SPONGE_HASH, Absorb, AbsorbLoop, POSEIDON_SPONGE_SQUEEZE

LEMMA SpongeFinishes ==
    ASSUME NEW s, IsSpongeCall(s), selector = "spongeHash",
           NEW k \in 0..Len(s), Finishing(s, k), [Next]_vars
    PROVE  SpongeInv(s)'
<1> DEFINE a == Absorbed(s)[Len(s)]
           t == SpongeBelow(s, k)
           cd == SpongeData(s)
<1>1. /\ pc = "POSEIDON_PERM" /\ ret = "squeezed" /\ block \in 1..R_F + R_P + 1
      /\ m = Machine(OnTop(States(a)[block - 1], t), m.memory, cd)
  BY DEF Finishing
<1>2. a \in Field /\ IsSeq(t)
  BY SpongeCallFacts, AbsorbedInField, SpongeBelowIsSeq
<1>3. CASE POSEIDON_PERM
  <2> HIDE DEF a, t, cd
  <2>1. /\ m' = Machine(OnTop(States(a)[block], t), m.memory, cd)
        /\ UNCHANGED <<selector, ret, output>>
        /\ \/ /\ pc' = pc /\ block' \in 1..R_F + R_P + 1
              /\ States(a)[block] = States(a)[block' - 1]
           \/ pc' = ret /\ States(a)[block] = Permutation(a)
    BY <1>1, <1>2, <1>3, PermutationStep
  <2>2. m'.memory = m.memory
    BY <2>1, MachineFields
  <2>3. Finishing(s, k)' \/ Finished(s, k)'
    BY <1>1, <2>1, <2>2 DEF Finishing, Finished, a, t, cd
  <2> QED BY <2>1, <2>3 DEF SpongeInv
<1>4. CASE UNCHANGED vars
  <2>1. Finishing(s, k)' /\ selector' = selector
    BY <1>4 DEF vars, Finishing
  <2> QED BY <2>1 DEF SpongeInv
<1> HIDE DEF a, t, cd
<1> QED
  BY <1>1, <1>3, <1>4 DEF Next, MAIN, MERKLE_HASH, MerkleLevel, HASH_AND_STORE_MERKLE_LEVEL,
     MerkleReturn, SPONGE_HASH, Absorb, AbsorbLoop, POSEIDON_SPONGE_SQUEEZE

LEMMA SpongeReturns ==
    ASSUME NEW s, IsSpongeCall(s), selector = "spongeHash",
           NEW k \in 0..Len(s), Finished(s, k), [Next]_vars
    PROVE  SpongeInv(s)'
<1> DEFINE p == Permutation(Absorbed(s)[Len(s)])
           t == Cons(p[3], SpongeBelow(s, k))
           cd == SpongeData(s)
<1>1. pc = "squeezed" /\ m = Machine(Cons(p[1], Cons(p[2], t)), m.memory, cd)
  BY DEF Finished, OnTop
<1>2. IsSeq(t)
  BY SpongeBelowIsSeq, ConsIsSeq
<1>3. SpongeOf(s) = p[2]
  BY SpongeCallFacts, AbsorbedAre
<1> HIDE DEF p, t, cd
<1>4. CASE POSEIDON_SPONGE_SQUEEZE
  <2> DEFINE machine == Run(m, SQUEEZE)
             below == Cons(p[1], Cons(p[2], t))
             new == Store(m.memory, 0, p[2])
  <2>1. /\ output' = [i \in 1..machine.stack[2] \div 32 |->
                        Load(machine.memory, machine.stack[1] + 32 * (i - 1))]
        /\ pc' = "returned" /\ m' = machine /\ selector' = selector
    BY <1>4 DEF POSEIDON_SPONGE_SQUEEZE, Return, SQUEEZE
  <2>2. machine = Machine(Cons(0, Cons(32, below)), new, cd)
    BY <1>1, <1>2, RunSqueeze
  <2> HIDE DEF machine, new
  <2>3. machine.stack[1] = 0 /\ machine.stack[2] = 32 /\ machine.memory = new /\ machine.calldata = cd
    <3>1. IsSeq(below)
      BY <1>2, ConsIsSeq
    <3> HIDE DEF below
    <3>2. IsSeq(Cons(32, below)) /\ Len(Cons(32, below)) = Len(below) + 1 /\ Len(below) \in Nat
          /\ Cons(32, below)[1] = 32
      BY <3>1, ConsFacts
    <3>3. Cons(0, Cons(32, below))[1] = 0 /\ Cons(0, Cons(32, below))[1 + 1] = Cons(32, below)[1]
      BY <3>2, ConsFacts
    <3>4. 1 + 1 = 2
      OBVIOUS
    <3> QED BY <2>2, <3>2, <3>3, <3>4, MachineFields
  <2>4. Load(new, 0) = p[2]
    BY LoadStore DEF new
  <2>5. output' = [i \in 1..1 |-> Load(new, 0 + 32 * (i - 1))]
    <3>1. 32 \div 32 = 1
      OBVIOUS
    <3> QED BY <2>1, <2>3, <3>1
  <2>6. output' = <<p[2]>>
    <3>1. \A i \in 1..1 : Load(new, 0 + 32 * (i - 1)) = p[2]
      BY <2>4
    <3>2. output' = [i \in 1..1 |-> p[2]]
      BY <2>5, <3>1
    <3> QED BY <3>2
  <2> QED BY <1>3, <2>1, <2>3, <2>6 DEF SpongeInv, cd
<1>5. CASE UNCHANGED vars
  <2>1. Finished(s, k)' /\ selector' = selector
    BY <1>5 DEF vars, Finished
  <2> QED BY <2>1 DEF SpongeInv
<1> QED
  BY <1>1, <1>4, <1>5 DEF Next, MAIN, POSEIDON_PERM, MERKLE_HASH, MerkleLevel,
     HASH_AND_STORE_MERKLE_LEVEL, MerkleReturn, SPONGE_HASH, Absorb, AbsorbLoop

LEMMA SpongeKeeps ==
    ASSUME NEW s, IsSpongeCall(s), SpongeInv(s), [Next]_vars
    PROVE  SpongeInv(s)'
<1>1. selector = "spongeHash"
  BY DEF SpongeInv
<1>2. CASE pc \in {"MAIN", "SPONGE_HASH"} /\ m = Machine(<<>>, <<>>, SpongeData(s))
  BY <1>1, <1>2, SpongeStarts
<1>3. CASE \E k \in 0..Len(s) - 1 : Absorbing(s, k)
  BY <1>1, <1>3, SpongeAbsorbs
<1>4. CASE \E k \in 1..Len(s) : AbsorbedTwo(s, k)
  BY <1>1, <1>4, SpongeLoops
<1>5. CASE \E k \in 1..Len(s) - 1 : Mixing(s, k)
  BY <1>1, <1>5, SpongeMixes
<1>6. CASE \E k \in 0..Len(s) : Finishing(s, k) \/ Finished(s, k)
  BY <1>1, <1>6, SpongeFinishes, SpongeReturns
<1>7. CASE pc = "returned" /\ output = <<SpongeOf(s)>> /\ m.calldata = SpongeData(s)
  <2>1. UNCHANGED vars
    BY <1>7 DEF Next, MAIN, POSEIDON_PERM, MERKLE_HASH, MerkleLevel, HASH_AND_STORE_MERKLE_LEVEL,
       MerkleReturn, SPONGE_HASH, Absorb, AbsorbLoop, POSEIDON_SPONGE_SQUEEZE
  <2> QED BY <1>1, <1>7, <2>1 DEF SpongeInv, vars
<1> QED BY <1>2, <1>3, <1>4, <1>5, <1>6, <1>7 DEF SpongeInv

-----------------------------------------------------------------------------
(* The inductive invariant: a call of one of the two functions, at one of   *)
(* its labels, or one that is reverted.                                     *)
OtherInv == selector = "other" /\ pc \in {"MAIN", "reverted"}

IInv ==
    \/ OtherInv
    \/ \E idx \in Indices, input \in Elements, s \in SeqsUpTo(Elements, 0, MaxSisters) :
          MerkleInv(idx, input, s)
    \/ \E s \in SeqsUpTo(Elements, 1, MaxInputs) : SpongeInv(s)

MerkleCall(idx, input, s) == [selector |-> "merkleHash", words |-> <<idx, input, 96>> \o Array(s)]

LEMMA MerkleCallsAre ==
    ASSUME NEW call \in MerkleCalls
    PROVE  \E idx \in Indices, input \in Elements, s \in SeqsUpTo(Elements, 0, MaxSisters) :
              call = MerkleCall(idx, input, s)
<1>1. MerkleCalls = {MerkleCall(idx, input, s) :
                       idx \in Indices, input \in Elements, s \in SeqsUpTo(Elements, 0, MaxSisters)}
  BY DEF MerkleCalls, MerkleCall
<1> QED BY <1>1

(* It holds at the start,                                                   *)
LEMMA InitEstablishes == Init => IInv
<1> SUFFICES ASSUME Init PROVE IInv
  OBVIOUS
<1>1. pc = "MAIN"
  BY DEF Init
<1>2. PICK call \in MerkleCalls \cup SpongeCalls \cup {[selector |-> "other", words |-> <<>>]} :
         selector = call.selector /\ m = Machine(<<>>, <<>>, Encoded(call.words))
  BY DEF Init, Machine
<1>3. CASE call \in MerkleCalls
  <2>1. PICK idx \in Indices, input \in Elements, s \in SeqsUpTo(Elements, 0, MaxSisters) :
            call = MerkleCall(idx, input, s)
    BY <1>3, MerkleCallsAre
  <2>2. call.selector = "merkleHash" /\ call.words = MerkleWords(idx, input, s)
    BY <2>1 DEF MerkleCall, MerkleWords
  <2>3. MerkleInv(idx, input, s)
    BY <1>1, <1>2, <2>2 DEF MerkleInv, MerkleData
  <2> QED BY <2>3 DEF IInv
<1>4. CASE call \in SpongeCalls
  <2>1. PICK s \in SeqsUpTo(Elements, 1, MaxInputs) :
            call = [selector |-> "spongeHash", words |-> <<32>> \o Array(s)]
    BY <1>4 DEF SpongeCalls
  <2>2. call.selector = "spongeHash" /\ call.words = ArrayWords(s)
    BY <2>1 DEF ArrayWords
  <2>3. SpongeInv(s)
    BY <1>1, <1>2, <2>2 DEF SpongeInv, SpongeData
  <2> QED BY <2>3 DEF IInv
<1>5. CASE call = [selector |-> "other", words |-> <<>>]
  BY <1>1, <1>2, <1>5 DEF OtherInv, IInv
<1> QED BY <1>2, <1>3, <1>4, <1>5

(* It is kept by every step.                                                *)
LEMMA OtherKeeps ==
    ASSUME OtherInv, [Next]_vars PROVE OtherInv'
<1>1. CASE MAIN
  BY <1>1 DEF OtherInv, MAIN, Jump
<1>2. CASE UNCHANGED vars
  BY <1>2 DEF OtherInv, vars
<1> QED
  BY <1>1, <1>2 DEF OtherInv, Next, POSEIDON_PERM, MERKLE_HASH, MerkleLevel,
     HASH_AND_STORE_MERKLE_LEVEL, MerkleReturn, SPONGE_HASH, Absorb, AbsorbLoop,
     POSEIDON_SPONGE_SQUEEZE

LEMMA NextKeeps == IInv /\ [Next]_vars => IInv'
<1> SUFFICES ASSUME IInv, [Next]_vars PROVE IInv'
  OBVIOUS
<1>1. CASE OtherInv
  <2>1. OtherInv'
    BY <1>1, OtherKeeps
  <2> QED BY <2>1 DEF IInv
<1>2. ASSUME NEW idx \in Indices, NEW input \in Elements, NEW s \in SeqsUpTo(Elements, 0, MaxSisters),
             MerkleInv(idx, input, s)
      PROVE  IInv'
  <2>1. IsMerkleCall(idx, input, s)
    BY DEF IsMerkleCall
  <2>2. MerkleInv(idx, input, s)'
    BY <1>2, <2>1, MerkleKeeps
  <2> QED BY <2>2 DEF IInv
<1>3. ASSUME NEW s \in SeqsUpTo(Elements, 1, MaxInputs), SpongeInv(s)
      PROVE  IInv'
  <2>1. IsSpongeCall(s)
    BY DEF IsSpongeCall
  <2>2. SpongeInv(s)'
    BY <1>3, <2>1, SpongeKeeps
  <2> QED BY <2>2 DEF IInv
<1> QED BY <1>1, <1>2, <1>3 DEF IInv

LEMMA AlwaysIInv == Spec => []IInv
BY InitEstablishes, NextKeeps, PTL DEF Spec

-----------------------------------------------------------------------------
(* What is returned.                                                        *)
LEMMA InvReturns == IInv => ReturnsReference
<1> SUFFICES ASSUME IInv, pc = "returned" PROVE output = Expected
  BY DEF ReturnsReference
<1>1. ~OtherInv
  BY DEF OtherInv
<1>2. ASSUME NEW idx \in Indices, NEW input \in Elements, NEW s \in SeqsUpTo(Elements, 0, MaxSisters),
             MerkleInv(idx, input, s)
      PROVE  output = Expected
  <2>1. IsMerkleCall(idx, input, s)
    BY DEF IsMerkleCall
  <2>2. /\ selector = "merkleHash" /\ output = MerkleResult(idx, input, s)
        /\ m.calldata = MerkleData(idx, input, s)
    BY <1>2 DEF MerkleInv, Between, Permuting, Hashed
  <2> QED BY <2>1, <2>2, MerkleExpected
<1>3. ASSUME NEW s \in SeqsUpTo(Elements, 1, MaxInputs), SpongeInv(s)
      PROVE  output = Expected
  <2>1. IsSpongeCall(s)
    BY DEF IsSpongeCall
  <2>2. selector = "spongeHash" /\ output = <<SpongeOf(s)>> /\ m.calldata = SpongeData(s)
    BY <1>3 DEF SpongeInv, Absorbing, AbsorbedTwo, Mixing, Finishing, Finished
  <2> QED BY <2>1, <2>2, SpongeExpected
<1> QED BY <1>1, <1>2, <1>3 DEF IInv

(* Whatever the modulus, the round constants and the lengths of the arrays, *)
(* a call of merkleHash returns the leaf and every node above it, and a     *)
(* call of spongeHash the first squeezed element, as the reference computes *)
(* them.                                                                    *)
THEOREM ReturnsTheReference == Spec => []ReturnsReference
BY AlwaysIInv, InvReturns, PTL

(* The words at the top of a stack, and those below.                        *)
LEMMA TopAndBelow ==
    ASSUME NEW s \in Field, NEW t, IsSeq(t)
    PROVE  /\ SubSeq(OnTop(s, t), 1, 3) = s
           /\ SubSeq(OnTop(s, t), 4, Len(OnTop(s, t))) = t
<1> DEFINE stack == OnTop(s, t)
           one == Cons(s[3], t)
           two == Cons(s[2], one)
<1>1. IsSeq(one) /\ IsSeq(two)
  BY ConsIsSeq
<1>2. stack = Cons(s[1], two)
  BY DEF OnTop
<1>3. /\ Len(t) \in Nat /\ one[1] = s[3] /\ Len(one) = Len(t) + 1
      /\ SubSeq(t, 1, Len(t)) = t
      /\ \A i \in Nat : SubSeq(one, i + 2, Len(one)) = SubSeq(t, i + 1, Len(t))
  BY ConsFacts
<1> HIDE DEF one
<1>4. /\ two[1] = s[2] /\ Len(two) = Len(one) + 1
      /\ \A i \in 1..Len(one) : two[i + 1] = one[i]
      /\ \A i \in Nat : SubSeq(two, i + 2, Len(two)) = SubSeq(one, i + 1, Len(one))
  BY <1>1, ConsFacts
<1> HIDE DEF two
<1>5. /\ IsSeq(stack) /\ stack[1] = s[1] /\ Len(stack) = Len(two) + 1
      /\ \A i \in 1..Len(two) : stack[i + 1] = two[i]
      /\ \A i \in Nat : SubSeq(stack, i + 2, Len(stack)) = SubSeq(two, i + 1, Len(two))
  BY <1>1, <1>2, ConsFacts
<1> HIDE DEF stack
<1>6. SubSeq(stack, 4, Len(stack)) = t
  <2>1. SubSeq(stack, 2 + 2, Len(stack)) = SubSeq(two, 2 + 1, Len(two))
    BY <1>5
  <2>2. SubSeq(two, 1 + 2, Len(two)) = SubSeq(one, 1 + 1, Len(one))
    BY <1>4
  <2>3. SubSeq(one, 0 + 2, Len(one)) = SubSeq(t, 0 + 1, Len(t))
    BY <1>3
  <2>4. 2 + 2 = 4 /\ 2 + 1 = 1 + 2 /\ 1 + 1 = 0 + 2 /\ 0 + 1 = 1
    OBVIOUS
  <2> QED BY <1>3, <2>1, <2>2, <2>3, <2>4
<1>7. stack[1] = s[1] /\ stack[2] = s[2] /\ stack[3] = s[3] /\ Len(stack) >= 3
  <2>1. Len(one) \in Nat /\ Len(two) \in Nat /\ 1 \in 1..Len(one) /\ 1 \in 1..Len(two) /\ 2 \in 1..Len(two)
    BY <1>3, <1>4
  <2>2. stack[1 + 1] = two[1] /\ stack[2 + 1] = two[2] /\ two[1 + 1] = one[1]
    BY <1>4, <1>5, <2>1
  <2>3. 1 + 1 = 2 /\ 2 + 1 = 3
    OBVIOUS
  <2>4. Len(stack) >= 3
    BY <1>3, <1>4, <1>5
  <2> QED BY <1>3, <1>4, <1>5, <2>2, <2>3, <2>4
<1>8. SubSeq(stack, 1, 3) = <<stack[1], stack[2], stack[3]>>
  <2>1. PICK S : stack \in Seq(S)
    BY <1>5 DEF IsSeq
  <2> DEFINE first == SubSeq(stack, 1, 3)
             listed == <<stack[1], stack[2], stack[3]>>
  <2>2. /\ first \in Seq(S) /\ Len(first) = 3
        /\ first[1] = stack[1] /\ first[2] = stack[2] /\ first[3] = stack[3]
    BY <1>7, <2>1
  <2>3. /\ listed \in Seq({stack[1], stack[2], stack[3]}) /\ Len(listed) = 3
        /\ listed[1] = stack[1] /\ listed[2] = stack[2] /\ listed[3] = stack[3]
    OBVIOUS
  <2> HIDE DEF first, listed
  <2>4. \A i \in 1..3 : first[i] = listed[i]
    <3>1. \A i \in 1..3 : i = 1 \/ i = 2 \/ i = 3
      OBVIOUS
    <3> QED BY <2>2, <2>3, <3>1
  <2>5. first = listed
    BY <2>2, <2>3, <2>4
  <2> QED BY <2>5 DEF first, listed
<1>9. s = <<s[1], s[2], s[3]>>
  BY InField
<1> QED BY <1>6, <1>7, <1>8, <1>9 DEF stack

(* In the permutation, a state of the field is at the top of the stack.     *)
LEMMA InPermutation ==
    ASSUME IInv, pc = "POSEIDON_PERM"
    PROVE  /\ block \in 1..R_F + R_P + 1
           /\ \E s \in Field : \E t, mem, cd : IsSeq(t) /\ m = Machine(OnTop(s, t), mem, cd)
<1> DEFINE Goal == /\ block \in 1..R_F + R_P + 1
                   /\ \E s \in Field : \E t, mem, cd : IsSeq(t) /\ m = Machine(OnTop(s, t), mem, cd)
<1>1. ~OtherInv
  BY DEF OtherInv
<1>2. ASSUME NEW a \in Field, NEW t, IsSeq(t), NEW cd, block \in 1..R_F + R_P + 1,
             m = Machine(OnTop(States(a)[block - 1], t), m.memory, cd)
      PROVE  Goal
  <2>1. block - 1 \in 0..R_F + R_P + 1
    BY <1>2, HalfIs
  <2>2. States(a)[block - 1] \in Field
    BY <2>1, StatesInField
  <2> QED BY <1>2, <2>2
<1> HIDE DEF Goal
<1>3. ASSUME NEW idx \in Indices, NEW input \in Elements, NEW s \in SeqsUpTo(Elements, 0, MaxSisters),
             MerkleInv(idx, input, s)
      PROVE  Goal
  <2>1. IsMerkleCall(idx, input, s)
    BY DEF IsMerkleCall
  <2>2. PICK j \in 0..Len(s) - 1 : Permuting(idx, input, s, j)
    BY <1>3 DEF MerkleInv, Between, Hashed
  <2>3. Pair(idx, input, s, j) \in Field /\ IsSeq(Below(idx, s, j))
    BY <2>1, MerkleCallFacts, HashesNat, BelowIsSeq
  <2>4. /\ block \in 1..R_F + R_P + 1
        /\ m = Machine(OnTop(States(Pair(idx, input, s, j))[block - 1], Below(idx, s, j)),
                       m.memory, MerkleData(idx, input, s))
    BY <2>2 DEF Permuting
  <2> QED BY <1>2, <2>3, <2>4
<1>4. ASSUME NEW s \in SeqsUpTo(Elements, 1, MaxInputs), SpongeInv(s)
      PROVE  Goal
  <2>1. IsSpongeCall(s) /\ Len(s) \in Nat
    BY SpongeCallFacts DEF IsSpongeCall
  <2>2. PICK a, k : /\ a \in 0..Len(s) /\ block \in 1..R_F + R_P + 1
                    /\ m = Machine(OnTop(States(Absorbed(s)[a])[block - 1], SpongeBelow(s, k)),
                                   m.memory, SpongeData(s))
    <3>1. \/ \E k \in 1..Len(s) - 1 : Mixing(s, k)
          \/ \E k \in 0..Len(s) : Finishing(s, k)
      BY <1>4 DEF SpongeInv, Absorbing, AbsorbedTwo, Finished
    <3>2. CASE \E k \in 1..Len(s) - 1 : Mixing(s, k)
      <4>1. PICK k \in 1..Len(s) - 1 : Mixing(s, k)
        BY <3>2
      <4>2. k \in 0..Len(s)
        BY <2>1
      <4> QED BY <4>1, <4>2 DEF Mixing
    <3>3. CASE \E k \in 0..Len(s) : Finishing(s, k)
      <4>1. Len(s) \in 0..Len(s)
        BY <2>1
      <4> QED BY <3>3, <4>1 DEF Finishing
    <3> QED BY <3>1, <3>2, <3>3
  <2>3. Absorbed(s)[a] \in Field /\ IsSeq(SpongeBelow(s, k))
    BY <2>1, <2>2, AbsorbedInField, SpongeBelowIsSeq
  <2> QED BY <1>2, <2>2, <2>3
<1> QED BY <1>1, <1>3, <1>4 DEF IInv, Goal

LEMMA StepOnTop ==
    ASSUME IInv, POSEIDON_PERM
    PROVE  /\ SubSeq(m'.stack, 1, 3) = Round(block, SubSeq(m.stack, 1, 3))
           /\ SubSeq(m'.stack, 4, Len(m'.stack)) = SubSeq(m.stack, 4, Len(m.stack))
<1>1. pc = "POSEIDON_PERM" /\ m' = Run(m, generate_huff_code[block])
  BY DEF POSEIDON_PERM
<1>2. block \in 1..R_F + R_P + 1
  BY <1>1, InPermutation
<1>3. PICK s \in Field : \E t, mem, cd : IsSeq(t) /\ m = Machine(OnTop(s, t), mem, cd)
  BY <1>1, InPermutation
<1>4. PICK t, mem, cd : IsSeq(t) /\ m = Machine(OnTop(s, t), mem, cd)
  BY <1>3
<1> DEFINE r == Round(block, s)
<1>5. r \in Field /\ m' = Machine(OnTop(r, t), mem, cd)
  BY <1>1, <1>2, <1>4, RoundRuns
<1>6. m.stack = OnTop(s, t)
  BY <1>4, MachineFields
<1> HIDE DEF r
<1>7. m'.stack = OnTop(r, t)
  BY <1>5, MachineFields
<1>8. SubSeq(OnTop(s, t), 1, 3) = s /\ SubSeq(OnTop(s, t), 4, Len(OnTop(s, t))) = t
  BY <1>4, TopAndBelow
<1>9. SubSeq(OnTop(r, t), 1, 3) = r /\ SubSeq(OnTop(r, t), 4, Len(OnTop(r, t))) = t
  BY <1>4, <1>5, TopAndBelow
<1> QED BY <1>6, <1>7, <1>8, <1>9 DEF r

(* Each macro of the permutation is a round of the reference on the three   *)
(* words at the top, for any words, and keeps what is below them.           *)
THEOREM StateStaysOnTop == Spec => StateIsOnTop
<1> DEFINE Step == /\ SubSeq(m'.stack, 1, 3) = Round(block, SubSeq(m.stack, 1, 3))
                   /\ SubSeq(m'.stack, 4, Len(m'.stack)) = SubSeq(m.stack, 4, Len(m.stack))
<1>1. ASSUME IInv, Next PROVE pc = "POSEIDON_PERM" => Step
  <2> SUFFICES ASSUME pc = "POSEIDON_PERM" PROVE Step
    OBVIOUS
  <2>1. POSEIDON_PERM
    BY <1>1 DEF Next, MAIN, MERKLE_HASH, MerkleLevel, HASH_AND_STORE_MERKLE_LEVEL, MerkleReturn,
       SPONGE_HASH, Absorb, AbsorbLoop, POSEIDON_SPONGE_SQUEEZE
  <2> HIDE DEF Step
  <2> QED BY <1>1, <2>1, StepOnTop DEF Step
<1> HIDE DEF Step
<1>2. IInv /\ [Next]_vars => [pc = "POSEIDON_PERM" => Step]_vars
  BY <1>1
<1> QED BY <1>2, AlwaysIInv, PTL DEF Spec, StateIsOnTop, Step
=============================================================================
