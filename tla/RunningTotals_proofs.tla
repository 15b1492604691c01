------------------------ MODULE RunningTotals_proofs ------------------------
(***************************************************************************)
(* The arithmetic that the components' proofs share: how a running total,   *)
(* and the sum of a function over a finite set, behave when the summands    *)
(* change; powers of two and the indices that they divide; quotients that   *)
(* are rounded down.  Induction, over a length, a height or the number of   *)
(* elements, has the form of the least counterexample: Least gives the      *)
(* smallest member of a set of naturals, and UpTo follows from it.          *)
(***************************************************************************)
EXTENDS RunningTotals, FiniteSetTheorems, FunctionTheorems, TLAPS

(* g lists the totals of f over the prefixes of 1..n.                       *)
Totals(g, f, n) ==
    /\ g \in [0..n -> Int]
    /\ g[0] = 0
    /\ \A i \in 1..n : g[i] = g[i-1] + f[i]

(* A non-empty set of naturals has a least member.                          *)
LEMMA Least ==
    ASSUME NEW T \in SUBSET Nat, T # {}
    PROVE  \E m \in T : \A k \in T : m <= k
<1> DEFINE Below == {ss \in Nat \X Nat : ss[1] < ss[2]}
<1>1. IsWellFoundedOn(Below, Nat)
  BY NatLessThanWellFounded, Zenon DEF OpToRel
<1>2. PICK m \in T : \A k \in T : <<k, m>> \notin Below
  <2> HIDE DEF Below
  <2> QED BY <1>1, WFMin, Zenon
<1>3. ASSUME NEW k \in T PROVE m <= k
  <2>1. m \in Nat /\ k \in Nat /\ <<k, m>> \notin Below
    BY <1>2
  <2> QED BY <2>1
<1> QED BY <1>3

(* Induction up to d, by the least height that is left out.                 *)
LEMMA UpTo ==
    ASSUME NEW d \in Nat, NEW S, 0 \in S, \A h \in 0..d-1 : h \in S => h + 1 \in S
    PROVE  \A h \in 0..d : h \in S
<1> DEFINE Out == {h \in 0..d : h \notin S}
<1>1. SUFFICES ASSUME Out # {} PROVE FALSE
  OBVIOUS
<1>2. PICK m \in Out : \A k \in Out : m <= k
  <2>1. Out \in SUBSET Nat
    OBVIOUS
  <2> HIDE DEF Out
  <2> QED BY <1>1, <2>1, Least
<1>3. m \in 0..d /\ m # 0 /\ m \notin S
  OBVIOUS
<1>4. m - 1 \in 0..d-1 /\ m - 1 \notin Out
  BY <1>2, <1>3
<1>5. m - 1 \in S /\ (m - 1) + 1 = m
  BY <1>4
<1> QED BY <1>3, <1>4, <1>5

(* Powers of two, as the number of subsets of an interval.                  *)
LEMMA PowerOfTwo ==
    ASSUME NEW d \in Nat
    PROVE  2 ^ d \in Nat /\ 2 ^ d >= 1
<1> DEFINE S == 1..d
<1>1. IsFiniteSet(S) /\ Cardinality(S) = d
  BY FS_Interval
<1>2. IsFiniteSet(SUBSET S) /\ Cardinality(SUBSET S) = 2 ^ d
  BY <1>1, FS_SUBSET
<1>3. SUBSET S # {}
  OBVIOUS
<1>4. Cardinality(SUBSET S) \in Nat /\ Cardinality(SUBSET S) # 0
  BY <1>2, <1>3, FS_CardinalityType, FS_EmptySet
<1> HIDE DEF S
<1> QED BY <1>2, <1>4

LEMMA SubsetsOfOneMore ==
    ASSUME NEW S, NEW x, x \notin S, IsFiniteSet(SUBSET S)
    PROVE  Cardinality(SUBSET (S \cup {x})) = 2 * Cardinality(SUBSET S)
<1> DEFINE With == {T \cup {x} : T \in SUBSET S}
           f    == [T \in SUBSET S |-> T \cup {x}]
<1>1. f \in Bijection(SUBSET S, With)
  <2>1. f \in [SUBSET S -> With]
    OBVIOUS
  <2>2. ASSUME NEW T \in SUBSET S, NEW U \in SUBSET S, f[T] = f[U] PROVE T = U
    <3>1. T \cup {x} = U \cup {x}
      BY <2>2
    <3>2. x \notin T /\ x \notin U
      OBVIOUS
    <3> QED BY <3>1, <3>2
  <2>3. \A y \in With : \E T \in SUBSET S : f[T] = y
    OBVIOUS
  <2> HIDE DEF f, With
  <2>4. f \in Surjection(SUBSET S, With)
    BY <2>1, <2>3, Fun_IsSurj
  <2> QED BY <2>1, <2>2, <2>4, Fun_IsBij
<1>2. ExistsBijection(SUBSET S, With)
  BY <1>1, Fun_ExistsBij
<1>3. IsFiniteSet(With) /\ Cardinality(With) = Cardinality(SUBSET S)
  BY <1>2, FS_Bijection
<1>4. SUBSET (S \cup {x}) = (SUBSET S) \cup With
  <2>1. ASSUME NEW U \in SUBSET (S \cup {x}), x \in U PROVE U \in With
    <3>1. U \ {x} \in SUBSET S /\ U = (U \ {x}) \cup {x}
      BY <2>1
    <3> QED BY <3>1
  <2>2. ASSUME NEW U \in SUBSET (S \cup {x}), x \notin U PROVE U \in SUBSET S
    BY <2>2
  <2>3. ASSUME NEW U \in With PROVE U \in SUBSET (S \cup {x})
    OBVIOUS
  <2> HIDE DEF With
  <2> QED BY <2>1, <2>2, <2>3
<1>5. (SUBSET S) \cap With = {}
  OBVIOUS
<1> HIDE DEF With
<1>6. Cardinality(SUBSET S) \in Nat
  BY FS_CardinalityType
<1>7. Cardinality((SUBSET S) \cup With)
        = Cardinality(SUBSET S) + Cardinality(With) - Cardinality((SUBSET S) \cap With)
  BY <1>3, FS_Union
<1>8. Cardinality((SUBSET S) \cap With) = 0
  BY <1>5, FS_EmptySet
<1> HIDE DEF f
<1>9. ASSUME NEW a, NEW b, NEW c, NEW u \in Nat, a = u + b - c, b = u, c = 0 PROVE a = 2 * u
  BY <1>9
<1>10. Cardinality(SUBSET (S \cup {x})) = Cardinality((SUBSET S) \cup With)
  BY <1>4
<1> QED BY <1>3, <1>6, <1>7, <1>8, <1>9, <1>10

LEMMA PowerDoubles ==
    ASSUME NEW d \in Nat
    PROVE  2 ^ (d + 1) = 2 * 2 ^ d
<1> DEFINE S == 1..d
<1>1. IsFiniteSet(S) /\ Cardinality(S) = d
  BY FS_Interval
<1>2. IsFiniteSet(SUBSET S) /\ Cardinality(SUBSET S) = 2 ^ d
  BY <1>1, FS_SUBSET
<1>3. IsFiniteSet(1..(d + 1)) /\ Cardinality(1..(d + 1)) = d + 1
  BY FS_Interval
<1>4. Cardinality(SUBSET (1..(d + 1))) = 2 ^ (d + 1)
  BY <1>3, FS_SUBSET
<1>5. 1..(d + 1) = S \cup {d + 1} /\ d + 1 \notin S
  OBVIOUS
<1> HIDE DEF S
<1> QED BY <1>2, <1>4, <1>5, SubsetsOfOneMore

(* Halving an index goes up a level.                                        *)
LEMMA Halves ==
    ASSUME NEW n \in Nat, NEW h \in Nat
    PROVE  /\ n \div 2 ^ h \in Nat
           /\ n \div 2 ^ (h + 1) = (n \div 2 ^ h) \div 2
<1>1. ASSUME NEW b \in Nat \ {0}
      PROVE  n \div b \in Nat /\ n \div (2 * b) = (n \div b) \div 2
  BY SMT
<1>2. 2 ^ h \in Nat \ {0}
  BY PowerOfTwo
<1>3. 2 ^ (h + 1) = 2 * 2 ^ h
  BY PowerDoubles
<1> QED BY <1>1, <1>2, <1>3

(* Quotients are rounded down,                                              *)
LEMMA QuotientDown ==
    ASSUME NEW a \in Nat, NEW p \in Nat \ {0}
    PROVE  a \div p \in Nat /\ p * (a \div p) <= a
OBVIOUS

(* are monotone,                                                            *)
LEMMA QuotientMonotone ==
    ASSUME NEW a \in Nat, NEW b \in Nat, a <= b, NEW p \in Nat \ {0}
    PROVE  a \div p <= b \div p
OBVIOUS

(* and at most the factor that the dividend is within.                      *)
LEMMA QuotientWithin ==
    ASSUME NEW a \in Nat, NEW p \in Nat \ {0}, NEW x \in Nat, a <= x * p
    PROVE  a \div p <= x
<1>1. a \div p \in Nat /\ p * (a \div p) <= a
  BY QuotientDown
<1>2. ASSUME NEW u \in Nat, p * u <= x * p PROVE u <= x
  BY <1>2
<1>3. p * (a \div p) <= x * p
  BY <1>1
<1> QED BY <1>1, <1>2, <1>3

(* Every integer function on 1..n has its list of totals.                   *)
LEMMA TotalsExist ==
    ASSUME NEW n \in Nat, NEW f, \A i \in 1..n : f[i] \in Int
    PROVE  \E g : Totals(g, f, n)
<1> DEFINE Without == {m \in 0..n : ~ \E g : Totals(g, f, m)}
<1>1. SUFFICES ASSUME Without # {} PROVE FALSE
  OBVIOUS
<1>2. PICK m \in Without : \A k \in Without : m <= k
  <2>1. Without \in SUBSET Nat
    OBVIOUS
  <2> HIDE DEF Without
  <2> QED BY <1>1, <2>1, Least
<1>3. CASE m = 0
  <2>1. Totals([i \in 0..0 |-> 0], f, 0)
    BY DEF Totals
  <2> QED BY <1>3, <2>1
<1>4. CASE m # 0
  <2>1. m - 1 \in 0..n /\ m - 1 \notin Without
    BY <1>2, <1>4
  <2>2. PICK g : Totals(g, f, m - 1)
    BY <2>1
  <2> DEFINE h == [i \in 0..m |-> IF i = m THEN g[m-1] + f[m] ELSE g[i]]
  <2>3. Totals(h, f, m)
    BY <1>4, <2>2 DEF Totals
  <2> QED BY <2>3
<1> QED BY <1>3, <1>4

(* The recursive function of RunningTotal is that list.                     *)
LEMMA RunningTotalIsTotal ==
    ASSUME NEW n \in Nat, NEW f, \A i \in 1..n : f[i] \in Int
    PROVE  \E g : Totals(g, f, n) /\ RunningTotal(f, n) = g[n]
<1> DEFINE IsRec(g) == g = [i \in 0..n |-> IF i = 0 THEN 0 ELSE g[i-1] + f[i]]
<1>1. PICK g : Totals(g, f, n)
  BY TotalsExist
<1>2. IsRec(g)
  BY <1>1 DEF Totals
<1>3. PICK h : IsRec(h) /\ RunningTotal(f, n) = h[n]
  BY <1>2 DEF RunningTotal
<1>4. \A i \in 0..n : h[i] = g[i]
  <2> DEFINE Differ == {i \in 0..n : h[i] # g[i]}
  <2>1. SUFFICES ASSUME Differ # {} PROVE FALSE
    OBVIOUS
  <2>2. PICK m \in Differ : \A k \in Differ : m <= k
    <3>1. Differ \in SUBSET Nat
      OBVIOUS
    <3> HIDE DEF Differ
    <3> QED BY <2>1, <3>1, Least
  <2>3. m # 0 /\ h[m-1] = g[m-1]
    BY <1>1, <1>3, <2>2 DEF Totals
  <2> QED BY <1>1, <1>3, <2>2, <2>3 DEF Totals
<1> QED BY <1>1, <1>3, <1>4

(* If no summand grows and one of them falls by v, the total falls by v.    *)
LEMMA TotalsFall ==
    ASSUME NEW n \in Nat, NEW f, NEW ff, NEW g, NEW gg,
           Totals(g, f, n), Totals(gg, ff, n),
           \A i \in 1..n : f[i] \in Int /\ ff[i] \in Int /\ ff[i] <= f[i],
           NEW j \in 1..n, NEW v \in Nat, ff[j] + v <= f[j]
    PROVE  gg[n] + v <= g[n]
<1> DEFINE Wrong == {i \in 0..n : ~ (gg[i] + (IF i >= j THEN v ELSE 0) <= g[i])}
<1>1. SUFFICES ASSUME Wrong # {} PROVE FALSE
  <2>1. n \in 0..n /\ n >= j
    OBVIOUS
  <2> QED BY <2>1
<1>2. PICK m \in Wrong : \A k \in Wrong : m <= k
  <2>1. Wrong \in SUBSET Nat
    OBVIOUS
  <2> HIDE DEF Wrong
  <2> QED BY <1>1, <2>1, Least
<1>3. m # 0 /\ m - 1 \notin Wrong /\ m - 1 \in 0..n
  <2>1. m \in 0..n
    OBVIOUS
  <2>2. m # 0
    BY DEF Totals
  <2>3. m - 1 \in 0..n /\ m - 1 < m
    BY <2>1, <2>2
  <2>4. m - 1 \notin Wrong
    <3> HIDE DEF Wrong
    <3> QED BY <1>2, <2>1, <2>3
  <2> HIDE DEF Wrong
  <2> QED BY <2>2, <2>3, <2>4
<1>4. gg[m-1] + (IF m - 1 >= j THEN v ELSE 0) <= g[m-1]
  BY <1>3
<1>5. gg[m] = gg[m-1] + ff[m] /\ g[m] = g[m-1] + f[m]
  BY <1>3 DEF Totals
<1>6. g[m] \in Int /\ gg[m] \in Int /\ g[m-1] \in Int /\ gg[m-1] \in Int
  BY <1>3 DEF Totals
<1> QED BY <1>2, <1>3, <1>4, <1>5, <1>6

(* Two lists of totals of the same summands agree.                          *)
LEMMA TotalsUnique ==
    ASSUME NEW n \in Nat, NEW f, NEW ff, NEW g, NEW gg,
           Totals(g, f, n), Totals(gg, ff, n),
           \A i \in 1..n : f[i] \in Int /\ ff[i] = f[i]
    PROVE  gg[n] = g[n]
<1> DEFINE Differ == {i \in 0..n : gg[i] # g[i]}
<1>1. SUFFICES ASSUME Differ # {} PROVE FALSE
  BY DEF Totals
<1>2. PICK m \in Differ : \A k \in Differ : m <= k
  <2>1. Differ \in SUBSET Nat
    OBVIOUS
  <2> HIDE DEF Differ
  <2> QED BY <1>1, <2>1, Least
<1>3. m # 0 /\ gg[m-1] = g[m-1]
  BY <1>2 DEF Totals
<1> QED BY <1>2, <1>3 DEF Totals

(* Appending a summand adds it to the total.                                *)
LEMMA RunningTotalAppend ==
    ASSUME NEW n \in Nat, NEW f, NEW ff,
           \A i \in 1..n : f[i] \in Int /\ ff[i] = f[i], ff[n+1] \in Int
    PROVE  RunningTotal(ff, n+1) = RunningTotal(f, n) + ff[n+1]
<1>1. PICK g : Totals(g, f, n) /\ RunningTotal(f, n) = g[n]
  BY RunningTotalIsTotal
<1>2. \A i \in 1..(n+1) : ff[i] \in Int
  OBVIOUS
<1>3. PICK gg : Totals(gg, ff, n+1) /\ RunningTotal(ff, n+1) = gg[n+1]
  BY <1>2, RunningTotalIsTotal
<1> DEFINE h == [i \in 0..n |-> gg[i]]
<1>4. Totals(h, ff, n)
  BY <1>3 DEF Totals
<1>5. h[n] = g[n]
  BY <1>1, <1>4, TotalsUnique
<1>6. gg[n+1] = gg[n] + ff[n+1]
  BY <1>3 DEF Totals
<1> QED BY <1>1, <1>3, <1>5, <1>6

(* A summand that falls by v, none growing, takes v off the total.          *)
LEMMA RunningTotalFall ==
    ASSUME NEW n \in Nat, NEW f, NEW ff,
           \A i \in 1..n : f[i] \in Int /\ ff[i] \in Int /\ ff[i] <= f[i],
           NEW j \in 1..n, NEW v \in Nat, ff[j] + v <= f[j]
    PROVE  RunningTotal(ff, n) + v <= RunningTotal(f, n)
<1>1. PICK g : Totals(g, f, n) /\ RunningTotal(f, n) = g[n]
  BY RunningTotalIsTotal
<1>2. PICK gg : Totals(gg, ff, n) /\ RunningTotal(ff, n) = gg[n]
  BY RunningTotalIsTotal
<1>3. gg[n] + v <= g[n]
  BY <1>1, <1>2, TotalsFall
<1> QED BY <1>1, <1>2, <1>3

(* A total is an integer, and equal summands have equal totals.             *)
LEMMA RunningTotalInt ==
    ASSUME NEW n \in Nat, NEW f, \A i \in 1..n : f[i] \in Int
    PROVE  RunningTotal(f, n) \in Int
BY RunningTotalIsTotal DEF Totals

-----------------------------------------------------------------------------
(* Sums over finite sets: SumFunctionOnSet takes the members out one by one *)
(* in an order of its own.                                                  *)

OneOf(T) == CHOOSE x \in T : TRUE

(* g sums f over each of the sets in Sets, in that order.                   *)
SumsInOrder(g, f, Sets) ==
    /\ g \in [Sets -> Int]
    /\ \A T \in Sets :
         g[T] = IF T = {} THEN 0 ELSE f[OneOf(T)] + g[T \ {OneOf(T)}]

(* The members of a finite set are taken out until none is left.            *)
LEMMA OneOut ==
    ASSUME NEW S, IsFiniteSet(S), NEW T \in SUBSET S, NEW x \in T
    PROVE  /\ IsFiniteSet(T) /\ Cardinality(T) \in Nat \ {0}
           /\ T \ {x} \in SUBSET S
           /\ Cardinality(T \ {x}) = Cardinality(T) - 1
<1>1. IsFiniteSet(T) /\ Cardinality(T) \in Nat
  BY FS_Subset, FS_CardinalityType
<1>2. Cardinality(T \ {x}) = Cardinality(T) - 1
  BY <1>1, FS_RemoveElement
<1>3. Cardinality(T) # 0
  BY <1>1, FS_EmptySet
<1> QED BY <1>1, <1>2, <1>3

(* The subsets with at most k members.                                      *)
Upto(S, k) == {T \in SUBSET S : Cardinality(T) <= k}

LEMMA SumsInOrderExist ==
    ASSUME NEW S, IsFiniteSet(S), NEW f, \A x \in S : f[x] \in Int
    PROVE  \E g : SumsInOrder(g, f, SUBSET S)
<1> DEFINE c == Cardinality(S)
           Without == {k \in 0..c : ~ \E g : SumsInOrder(g, f, Upto(S, k))}
<1>1. c \in Nat /\ \A T \in SUBSET S : IsFiniteSet(T) /\ Cardinality(T) \in 0..c
  BY FS_CardinalityType, FS_Subset
<1>2. Upto(S, c) = SUBSET S
  BY <1>1 DEF Upto
<1>3. SUFFICES ASSUME Without # {} PROVE FALSE
  <2> SUFFICES ASSUME ~ \E g : SumsInOrder(g, f, SUBSET S) PROVE Without # {}
    OBVIOUS
  <2>1. c \in Without
    BY <1>1, <1>2
  <2> QED BY <2>1
<1>4. PICK m \in Without : \A k \in Without : m <= k
  <2>1. Without \in SUBSET Nat
    BY <1>1
  <2> HIDE DEF Without
  <2> QED BY <1>3, <2>1, Least
<1> HIDE DEF c
<1>5. CASE m = 0
  <2>1. \A T \in Upto(S, 0) : T = {}
    BY <1>1, FS_EmptySet DEF Upto
  <2>2. SumsInOrder([T \in Upto(S, 0) |-> 0], f, Upto(S, 0))
    BY <2>1 DEF SumsInOrder
  <2> QED BY <1>4, <1>5, <2>2
<1>6. CASE m # 0
  <2>1. m - 1 \in 0..c /\ m - 1 \notin Without /\ m \in Nat
    BY <1>1, <1>4, <1>6
  <2>2. PICK g : SumsInOrder(g, f, Upto(S, m - 1))
    BY <2>1
  <2> DEFINE h == [T \in Upto(S, m) |->
                     IF T = {} THEN 0 ELSE f[OneOf(T)] + g[T \ {OneOf(T)}]]
  <2>3. ASSUME NEW T \in Upto(S, m), T # {}
        PROVE  /\ OneOf(T) \in S
               /\ T \ {OneOf(T)} \in Upto(S, m - 1) /\ T \ {OneOf(T)} \in Upto(S, m)
    <3>1. OneOf(T) \in T /\ T \in SUBSET S /\ Cardinality(T) <= m
      BY <2>3 DEF OneOf, Upto
    <3>2. /\ Cardinality(T) \in Nat \ {0}
          /\ T \ {OneOf(T)} \in SUBSET S
          /\ Cardinality(T \ {OneOf(T)}) = Cardinality(T) - 1
      BY <3>1, OneOut
    <3> QED BY <2>1, <3>1, <3>2 DEF Upto
  <2>4. \A T \in Upto(S, m - 1) : h[T] = g[T]
    <3>1. Upto(S, m - 1) \subseteq Upto(S, m)
      BY <1>1, <2>1 DEF Upto
    <3> QED BY <2>2, <3>1 DEF SumsInOrder
  <2>5. SumsInOrder(h, f, Upto(S, m))
    <3>1. \A T \in Upto(S, m) : T # {} => f[OneOf(T)] \in Int /\ g[T \ {OneOf(T)}] \in Int
      BY <2>2, <2>3 DEF SumsInOrder
    <3>2. h \in [Upto(S, m) -> Int]
      BY <3>1
    <3> QED BY <2>3, <2>4, <3>2 DEF SumsInOrder
  <2> QED BY <1>4, <2>5
<1> QED BY <1>5, <1>6

(* g sums f over every subset of S, in whatever order.                      *)
SetTotals(g, f, S) ==
    /\ g \in [SUBSET S -> Int]
    /\ g[{}] = 0
    /\ \A T \in SUBSET S : \A x \in T : g[T] = f[x] + g[T \ {x}]

LEMMA OrderIsFree ==
    ASSUME NEW S, IsFiniteSet(S), NEW f, \A x \in S : f[x] \in Int,
           NEW g, SumsInOrder(g, f, SUBSET S)
    PROVE  SetTotals(g, f, S)
<1> DEFINE Bad(T) == \E x \in T : g[T] # f[x] + g[T \ {x}]
           Sizes == {k \in Nat : \E T \in SUBSET S : Cardinality(T) = k /\ Bad(T)}
<1>1. SUFFICES ASSUME Sizes # {} PROVE FALSE
  <2>1. \A T \in SUBSET S : Cardinality(T) \in Nat
    BY FS_Subset, FS_CardinalityType
  <2> QED BY <2>1 DEF SumsInOrder, SetTotals
<1>2. PICK m \in Sizes : \A k \in Sizes : m <= k
  <2>1. Sizes \in SUBSET Nat
    OBVIOUS
  <2> HIDE DEF Sizes
  <2> QED BY <1>1, <2>1, Least
<1>3. PICK T \in SUBSET S : Cardinality(T) = m /\ Bad(T)
  BY <1>2
<1>4. PICK x \in T : g[T] # f[x] + g[T \ {x}]
  BY <1>3
<1> DEFINE y == OneOf(T)
<1>5. y \in T /\ g[T] = f[y] + g[T \ {y}] /\ y # x
  BY <1>4 DEF SumsInOrder, OneOf
<1> HIDE DEF y
<1>6. \A U \in SUBSET S : Cardinality(U) = m - 1 => ~ Bad(U)
  <2> SUFFICES ASSUME NEW U \in SUBSET S, Cardinality(U) = m - 1, Bad(U) PROVE FALSE
    OBVIOUS
  <2>1. m \in Nat /\ Cardinality(U) \in Nat
    BY FS_Subset, FS_CardinalityType
  <2>2. m - 1 \in Sizes
    BY <2>1
  <2> QED BY <1>2, <2>1, <2>2
<1>7. /\ T \ {x} \in SUBSET S /\ Cardinality(T \ {x}) = m - 1
      /\ T \ {y} \in SUBSET S /\ Cardinality(T \ {y}) = m - 1
  BY <1>3, <1>5, OneOut
<1>8. /\ g[T \ {y}] = f[x] + g[(T \ {y}) \ {x}]
      /\ g[T \ {x}] = f[y] + g[(T \ {x}) \ {y}]
  BY <1>5, <1>6, <1>7
<1> DEFINE U == (T \ {x}) \ {y}
<1>9. (T \ {y}) \ {x} = U /\ U \in SUBSET S
  OBVIOUS
<1>10. g[T \ {y}] = f[x] + g[U] /\ g[T \ {x}] = f[y] + g[U]
  BY <1>8, <1>9
<1>11. f[x] \in Int /\ f[y] \in Int /\ g[U] \in Int
  BY <1>5, <1>9 DEF SumsInOrder
<1> HIDE DEF U
<1> QED BY <1>4, <1>5, <1>10, <1>11

(* Two that sum the same summands agree.                                    *)
LEMMA SetTotalsUnique ==
    ASSUME NEW S, IsFiniteSet(S), NEW f, NEW ff, \A x \in S : ff[x] = f[x],
           NEW g, NEW gg, SetTotals(g, f, S), SetTotals(gg, ff, S)
    PROVE  gg[S] = g[S]
<1> DEFINE Differ == {k \in Nat : \E T \in SUBSET S : Cardinality(T) = k /\ gg[T] # g[T]}
<1>1. SUFFICES ASSUME Differ # {} PROVE FALSE
  <2> SUFFICES ASSUME gg[S] # g[S] PROVE Differ # {}
    OBVIOUS
  <2>1. Cardinality(S) \in Differ
    BY FS_CardinalityType
  <2> QED BY <2>1
<1>2. PICK m \in Differ : \A k \in Differ : m <= k
  <2>1. Differ \in SUBSET Nat
    OBVIOUS
  <2> HIDE DEF Differ
  <2> QED BY <1>1, <2>1, Least
<1>3. PICK T \in SUBSET S : Cardinality(T) = m /\ gg[T] # g[T]
  BY <1>2
<1>4. PICK x \in T : TRUE
  BY <1>3 DEF SetTotals
<1> DEFINE U == T \ {x}
<1>5. U \in SUBSET S /\ Cardinality(U) = m - 1 /\ m - 1 \in Nat
  BY <1>3, <1>4, OneOut
<1>6. g[T] = f[x] + g[U] /\ gg[T] = f[x] + gg[U]
  BY <1>4 DEF SetTotals
<1> HIDE DEF U
<1>7. m - 1 \in Differ
  BY <1>3, <1>5, <1>6
<1> QED BY <1>2, <1>5, <1>7

(* The library's sum is that.                                               *)
LEMMA SumIsTotal ==
    ASSUME NEW S, IsFiniteSet(S), NEW f, \A x \in S : f[x] \in Int
    PROVE  \E g : SetTotals(g, f, S) /\ SumFunctionOnSet(f, S) = g[S]
<1> DEFINE IsRec(g) == g = [T \in SUBSET S |->
                             IF T = {} THEN 0
                             ELSE LET x == CHOOSE x \in T : TRUE IN f[x] + g[T \ {x}]]
<1>1. PICK g : SumsInOrder(g, f, SUBSET S)
  BY SumsInOrderExist
<1>2. IsRec(g)
  BY <1>1 DEF SumsInOrder, OneOf
<1>3. PICK h : IsRec(h) /\ SumFunctionOnSet(f, S) = h[S]
  BY <1>2 DEF SumFunctionOnSet, FoldFunctionOnSet, MapThenFoldSet
<1>4. \A T \in SUBSET S : h[T] = IF T = {} THEN 0 ELSE f[OneOf(T)] + h[T \ {OneOf(T)}]
  BY <1>3 DEF OneOf
<1>5. h[S] = g[S]
  <2> DEFINE Differ == {k \in Nat : \E T \in SUBSET S : Cardinality(T) = k /\ h[T] # g[T]}
  <2>1. SUFFICES ASSUME Differ # {} PROVE FALSE
    <3> SUFFICES ASSUME h[S] # g[S] PROVE Differ # {}
      OBVIOUS
    <3>1. Cardinality(S) \in Differ
      BY FS_CardinalityType
    <3> QED BY <3>1
  <2>2. PICK m \in Differ : \A k \in Differ : m <= k
    <3>1. Differ \in SUBSET Nat
      OBVIOUS
    <3> HIDE DEF Differ
    <3> QED BY <2>1, <3>1, Least
  <2>3. PICK T \in SUBSET S : Cardinality(T) = m /\ h[T] # g[T]
    BY <2>2
  <2>4. T # {}
    BY <1>1, <1>4, <2>3 DEF SumsInOrder
  <2> DEFINE U == T \ {OneOf(T)}
  <2>5. U \in SUBSET S /\ Cardinality(U) = m - 1 /\ m - 1 \in Nat
    <3>1. OneOf(T) \in T
      BY <2>4 DEF OneOf
    <3> QED BY <2>3, <3>1, OneOut
  <2>6. h[T] = f[OneOf(T)] + h[U] /\ g[T] = f[OneOf(T)] + g[U]
    BY <1>1, <1>4, <2>4 DEF SumsInOrder
  <2> HIDE DEF U
  <2>7. m - 1 \in Differ
    BY <2>3, <2>5, <2>6
  <2> QED BY <2>2, <2>5, <2>7
<1>6. SetTotals(g, f, S)
  BY <1>1, OrderIsFree
<1> QED BY <1>3, <1>5, <1>6

(* The facts about a sum: it is an integer, depends on the summands alone,  *)
(* is nothing over no set, and grows by the summand that is added.          *)
LEMMA SumInt ==
    ASSUME NEW S, IsFiniteSet(S), NEW f, \A x \in S : f[x] \in Int
    PROVE  SumFunctionOnSet(f, S) \in Int
<1>1. PICK g : SetTotals(g, f, S) /\ SumFunctionOnSet(f, S) = g[S]
  BY SumIsTotal
<1> QED BY <1>1 DEF SetTotals

LEMMA SumEmpty == \A f : SumFunctionOnSet(f, {}) = 0
BY SumIsTotal, FS_EmptySet DEF SetTotals

LEMMA SumAdd ==
    ASSUME NEW S, IsFiniteSet(S), NEW f, \A x \in S : f[x] \in Int,
           NEW y, y \notin S, NEW ff, ff[y] \in Int, \A x \in S : ff[x] = f[x]
    PROVE  SumFunctionOnSet(ff, S \cup {y}) = SumFunctionOnSet(f, S) + ff[y]
<1>1. PICK g : SetTotals(g, f, S) /\ SumFunctionOnSet(f, S) = g[S]
  BY SumIsTotal
<1>2. IsFiniteSet(S \cup {y}) /\ \A x \in S \cup {y} : ff[x] \in Int
  BY FS_AddElement
<1>3. PICK gg : SetTotals(gg, ff, S \cup {y}) /\ SumFunctionOnSet(ff, S \cup {y}) = gg[S \cup {y}]
  BY <1>2, SumIsTotal
<1>4. gg[S \cup {y}] = ff[y] + gg[S]
  <2>1. (S \cup {y}) \ {y} = S /\ y \in S \cup {y}
    OBVIOUS
  <2> QED BY <1>3, <2>1 DEF SetTotals
<1>5. gg[S] = g[S]
  <2>1. SetTotals([T \in SUBSET S |-> gg[T]], ff, S)
    BY <1>3 DEF SetTotals
  <2> QED BY <1>1, <2>1, SetTotalsUnique
<1>6. gg[S] \in Int
  BY <1>3 DEF SetTotals
<1> QED BY <1>1, <1>3, <1>4, <1>5, <1>6

LEMMA SumInsert ==
    ASSUME NEW S, IsFiniteSet(S), NEW f, NEW y, y \notin S,
           f[y] \in Int, \A x \in S : f[x] \in Int
    PROVE  SumFunctionOnSet(f, S \cup {y}) = SumFunctionOnSet(f, S) + f[y]
<1>1. \A x \in S : f[x] = f[x]
  OBVIOUS
<1> QED BY <1>1, SumAdd

LEMMA SumSame ==
    ASSUME NEW S, IsFiniteSet(S), NEW f, NEW ff,
           \A x \in S : f[x] \in Int /\ ff[x] = f[x]
    PROVE  SumFunctionOnSet(ff, S) = SumFunctionOnSet(f, S)
<1>1. PICK g : SetTotals(g, f, S) /\ SumFunctionOnSet(f, S) = g[S]
  BY SumIsTotal
<1>2. PICK gg : SetTotals(gg, ff, S) /\ SumFunctionOnSet(ff, S) = gg[S]
  BY SumIsTotal
<1>3. gg[S] = g[S]
  BY <1>1, <1>2, SetTotalsUnique
<1> QED BY <1>1, <1>2, <1>3

(* A change of one summand.                                                 *)
LEMMA SumChange ==
    ASSUME NEW S, IsFiniteSet(S), NEW y \in S, NEW f, NEW ff,
           \A x \in S : f[x] \in Int /\ ff[x] \in Int,
           \A x \in S \ {y} : ff[x] = f[x]
    PROVE  SumFunctionOnSet(ff, S) = SumFunctionOnSet(f, S) + ff[y] - f[y]
<1> DEFINE R == S \ {y}
<1>1. IsFiniteSet(R) /\ y \notin R
  BY FS_RemoveElement
<1>2. R \cup {y} = S
  OBVIOUS
<1>3. f[y] \in Int /\ ff[y] \in Int /\ \A x \in R : f[x] \in Int /\ ff[x] = f[x]
  OBVIOUS
<1> HIDE DEF R
<1>4. SumFunctionOnSet(ff, R \cup {y}) = SumFunctionOnSet(f, R) + ff[y]
  BY <1>1, <1>3, SumAdd
<1>5. SumFunctionOnSet(f, R \cup {y}) = SumFunctionOnSet(f, R) + f[y]
  <2>1. f[y] \in Int /\ \A x \in R : f[x] \in Int
    BY <1>3
  <2> QED BY <1>1, <2>1, SumInsert
<1>6. SumFunctionOnSet(f, R) \in Int
  BY <1>1, <1>3, SumInt
<1>7. SumFunctionOnSet(ff, S) = SumFunctionOnSet(f, R) + ff[y]
  BY <1>2, <1>4
<1>8. SumFunctionOnSet(f, S) = SumFunctionOnSet(f, R) + f[y]
  BY <1>2, <1>5
<1> QED BY <1>3, <1>6, <1>7, <1>8

(* A sum of zeros, of whatever size.                                        *)
LEMMA SumZero ==
    ASSUME NEW S, IsFiniteSet(S), NEW f, \A x \in S : f[x] = 0
    PROVE  SumFunctionOnSet(f, S) = 0
<1> DEFINE Wrong == {k \in Nat : \E T \in SUBSET S :
                        Cardinality(T) = k /\ SumFunctionOnSet(f, T) # 0}
<1>1. SUFFICES ASSUME Wrong # {} PROVE FALSE
  <2>1. Cardinality(S) \in Nat
    BY FS_CardinalityType
  <2> QED BY <2>1
<1>2. PICK k \in Wrong : \A j \in Wrong : k <= j
  <2>1. Wrong \in SUBSET Nat
    OBVIOUS
  <2> HIDE DEF Wrong
  <2> QED BY <1>1, <2>1, Least
<1>3. PICK T \in SUBSET S : Cardinality(T) = k /\ SumFunctionOnSet(f, T) # 0
  OBVIOUS
<1>4. T # {}
  BY <1>3, SumEmpty
<1>5. PICK x \in T : TRUE
  BY <1>4
<1> DEFINE R == T \ {x}
<1>6. /\ IsFiniteSet(T) /\ R \in SUBSET S /\ x \notin R /\ R \cup {x} = T
      /\ k \in Nat /\ Cardinality(R) = k - 1 /\ k - 1 \in Nat
  <2>1. /\ IsFiniteSet(T) /\ Cardinality(T) \in Nat \ {0} /\ R \in SUBSET S
        /\ Cardinality(R) = Cardinality(T) - 1
    BY OneOut
  <2>2. x \notin R /\ R \cup {x} = T
    OBVIOUS
  <2> HIDE DEF R
  <2> QED BY <1>3, <2>1, <2>2
<1> HIDE DEF R
<1>7. SumFunctionOnSet(f, R) = 0
  <2>1. k - 1 \notin Wrong
    <3> HIDE DEF Wrong
    <3> QED BY <1>2, <1>6
  <2> QED BY <1>6, <2>1
<1> HIDE DEF Wrong
<1>8. IsFiniteSet(R) /\ f[x] = 0 /\ \A y \in R : f[y] \in Int
  BY <1>6, FS_Subset
<1>9. SumFunctionOnSet(f, R \cup {x}) = SumFunctionOnSet(f, R) + f[x]
  BY <1>6, <1>8, SumInsert
<1>10. SumFunctionOnSet(f, R \cup {x}) = 0
  BY <1>7, <1>8, <1>9
<1> QED BY <1>3, <1>6, <1>10

(* Without a positive summand there is no positive total.                   *)
LEMMA RunningTotalNotPositive ==
    ASSUME NEW n \in Nat, NEW f, \A i \in 1..n : f[i] \in Int /\ f[i] <= 0
    PROVE  RunningTotal(f, n) <= 0
<1>1. PICK g : Totals(g, f, n) /\ RunningTotal(f, n) = g[n]
  BY RunningTotalIsTotal
<1> DEFINE Wrong == {i \in 0..n : g[i] > 0}
<1>2. SUFFICES ASSUME Wrong # {} PROVE FALSE
  <2>1. n \in 0..n /\ g[n] \in Int
    BY <1>1 DEF Totals
  <2> QED BY <1>1, <2>1
<1>3. PICK m \in Wrong : \A k \in Wrong : m <= k
  <2>1. Wrong \in SUBSET Nat
    OBVIOUS
  <2> HIDE DEF Wrong
  <2> QED BY <1>2, <2>1, Least
<1>4. m # 0
  BY <1>1 DEF Totals
<1>5. m - 1 \in 0..n /\ m \in 1..n /\ m - 1 \notin Wrong
  BY <1>3, <1>4
<1>6. g[m - 1] <= 0 /\ g[m - 1] \in Int /\ g[m] = g[m - 1] + f[m]
  BY <1>1, <1>5 DEF Totals
<1> QED BY <1>3, <1>5, <1>6
=============================================================================
