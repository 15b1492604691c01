--------------------------- MODULE Darkpool_proofs ---------------------------
(***************************************************************************)
(* Proofs about Darkpool for every value of its constants.  The facts about *)
(* the storage libraries are stated of a pool value s and not of the        *)
(* variable, because a handler may apply several of them in one step.       *)
(***************************************************************************)
EXTENDS Darkpool, RunningTotals_proofs

PoolType ==
    [leaves : Seq(Element), rootHistory : SUBSET Seq(Element),
     nullifierSet : SUBSET [nullifies : Element],
     publicBlinderSet : SUBSET Blinders]

Committed(s, e) == \E i \in DOMAIN s.leaves : s.leaves[i] = e

NonNegative(e) ==
    \A t \in Tokens :
        IF e \in Wallet
        THEN e.bal[t] >= 0 /\ e.relayerFee[t] >= 0 /\ e.protocolFee[t] >= 0
        ELSE e.amount >= 0

(* The inductive invariant of the storage libraries.                        *)
RootsCommitted(s) == \A r \in s.rootHistory : \A i \in DOMAIN r : Committed(s, r[i])

BlindersMarked(s) ==
    \A i \in DOMAIN s.leaves :
        s.leaves[i] \in Wallet => s.leaves[i].blinder \in s.publicBlinderSet

BlindersIdentify(s) ==
    \A i, j \in DOMAIN s.leaves :
        ( /\ s.leaves[i] \in Wallet /\ s.leaves[j] \in Wallet
          /\ s.leaves[i].blinder = s.leaves[j].blinder ) => i = j

SpentCommitted(s) ==
    \A x \in s.nullifierSet : \E i \in DOMAIN s.leaves : x = Nullifier(s.leaves[i])

LeavesNonNegative(s) == \A i \in DOMAIN s.leaves : NonNegative(s.leaves[i])

PoolOK(s) ==
    /\ s \in PoolType
    /\ RootsCommitted(s)
    /\ BlindersMarked(s)
    /\ BlindersIdentify(s)
    /\ SpentCommitted(s)
    /\ LeavesNonNegative(s)

-----------------------------------------------------------------------------
(* Elements.                                                                *)

LEMMA NoteNotWallet == ASSUME NEW e \in Note PROVE e \notin Wallet
BY DEF Note, Wallet

LEMMA ValueNat ==
    ASSUME NEW e \in Element, NonNegative(e), NEW t \in Tokens
    PROVE  Value(e, t) \in Nat
<1>1. CASE e \in Wallet
  BY <1>1 DEF Value, NonNegative, Wallet
<1>2. CASE e \in Note
  BY <1>2, NoteNotWallet DEF Value, NonNegative, Note
<1> QED BY <1>1, <1>2 DEF Element

(* The summands of Owed are naturals.                                       *)
LEMMA EntitlesNat ==
    ASSUME NEW s, PoolOK(s), NEW t \in Tokens
    PROVE  /\ Len(s.leaves) \in Nat
           /\ DOMAIN s.leaves = 1..Len(s.leaves)
           /\ \A i \in 1..Len(s.leaves) :
                /\ s.leaves[i] \in Element
                /\ Value(s.leaves[i], t) \in Nat
                /\ Entitles(s, t)[i] \in Nat
<1>1. Len(s.leaves) \in Nat /\ DOMAIN s.leaves = 1..Len(s.leaves)
  BY DEF PoolOK, PoolType
<1>2. ASSUME NEW i \in 1..Len(s.leaves)
      PROVE  s.leaves[i] \in Element /\ NonNegative(s.leaves[i])
  BY <1>1 DEF PoolOK, PoolType, LeavesNonNegative
<1>3. ASSUME NEW i \in 1..Len(s.leaves) PROVE Value(s.leaves[i], t) \in Nat
  BY <1>2, ValueNat
<1> QED BY <1>1, <1>2, <1>3 DEF Entitles

LEMMA OwedInt ==
    ASSUME NEW s, PoolOK(s), NEW t \in Tokens
    PROVE  Owed(s, t) \in Int
<1>1. Len(s.leaves) \in Nat /\ \A i \in 1..Len(s.leaves) : Entitles(s, t)[i] \in Int
  BY EntitlesNat
<1> HIDE DEF PoolOK
<1> QED BY <1>1, RunningTotalInt DEF Owed

-----------------------------------------------------------------------------
(* The storage libraries.                                                   *)

(* Whatever a prover opens under a root of the history was committed.       *)
LEMMA OpeningCommitted ==
    ASSUME NEW s, PoolOK(s), NEW o \in Openings(s), o.root \in s.rootHistory
    PROVE  Committed(s, o.element) /\ o.element \in Element
<1>1. CASE \E i \in DOMAIN s.leaves :
            o = [element |-> s.leaves[i], root |-> SubSeq(s.leaves, 1, i)]
  BY <1>1 DEF Committed, PoolOK, PoolType
<1>2. CASE \E e \in Forged : o = [element |-> e, root |-> <<e>>]
  <2>1. PICK e \in Forged : o = [element |-> e, root |-> <<e>>]
    BY <1>2
  <2>2. 1 \in DOMAIN o.root /\ o.root[1] = e /\ o.element = e
    BY <2>1
  <2>3. e \in Element
    BY ConstantsAssumption
  <2> QED BY <2>2, <2>3 DEF PoolOK, RootsCommitted
<1> QED BY <1>1, <1>2 DEF Openings

(* Spending a committed element takes its value off what is owed.           *)
LEMMA SpendOK ==
    ASSUME NEW s, PoolOK(s), NEW e \in Element, Committed(s, e), CanSpend(s, e)
    PROVE  /\ PoolOK(Spend(s, e))
           /\ \A t \in Tokens : Owed(Spend(s, e), t) + Value(e, t) <= Owed(s, t)
<1> DEFINE z == Spend(s, e)
<1>1. z.leaves = s.leaves /\ z.nullifierSet = s.nullifierSet \cup {Nullifier(e)}
  BY DEF Spend
<1>2. PoolOK(z)
  <2>1. z \in PoolType
    BY DEF PoolOK, PoolType, Spend, Nullifier
  <2>2. SpentCommitted(z)
    BY <1>1 DEF PoolOK, SpentCommitted, Committed
  <2> QED BY <2>1, <2>2 DEF PoolOK, Spend, RootsCommitted, BlindersMarked,
             BlindersIdentify, LeavesNonNegative, Committed
<1>3. ASSUME NEW t \in Tokens
      PROVE  Owed(z, t) + Value(e, t) <= Owed(s, t)
  <2> DEFINE n == Len(s.leaves)
             f == Entitles(s, t)
             ff == Entitles(z, t)
  <2>1. PICK j \in 1..n : s.leaves[j] = e
    BY EntitlesNat DEF Committed
  <2>2. /\ n \in Nat
        /\ \A i \in 1..n : f[i] \in Int
        /\ \A i \in 1..n : ff[i] \in Int
    <3>1. n \in Nat /\ \A i \in 1..n : f[i] \in Nat
      BY EntitlesNat
    <3>2. \A i \in 1..Len(z.leaves) : ff[i] \in Nat
      <4> HIDE DEF z
      <4> QED BY <1>2, EntitlesNat
    <3> QED BY <1>1, <3>1, <3>2
  <2>3. \A i \in 1..n :
          LET Worth == Value(s.leaves[i], t)
              x == Nullifier(s.leaves[i])
          IN  /\ Worth \in Nat
              /\ f[i] = IF x \notin s.nullifierSet THEN Worth ELSE 0
              /\ ff[i] = IF x \notin s.nullifierSet \cup {Nullifier(e)} THEN Worth ELSE 0
    <3>1. DOMAIN s.leaves = 1..n /\ \A i \in 1..n : Value(s.leaves[i], t) \in Nat
      BY EntitlesNat
    <3> HIDE DEF z
    <3> QED BY <1>1, <3>1 DEF Entitles, CanSpend
  <2>4. \A i \in 1..n : ff[i] <= f[i]
    BY <2>3
  <2>5. ff[j] + Value(e, t) <= f[j] /\ Value(e, t) \in Nat
    BY <2>1, <2>3 DEF CanSpend
  <2> HIDE DEF n, f, ff
  <2>6. RunningTotal(ff, n) + Value(e, t) <= RunningTotal(f, n)
    BY <2>1, <2>2, <2>4, <2>5, RunningTotalFall
  <2> QED BY <1>1, <2>6 DEF Owed, n, f, ff
<1> QED BY <1>2, <1>3

(* A new blinder changes nothing that is owed.                              *)
LEMMA MarkBlinderOK ==
    ASSUME NEW s, PoolOK(s), NEW b \in Blinders
    PROVE  /\ PoolOK(MarkBlinder(s, b))
           /\ \A t \in Tokens : Owed(MarkBlinder(s, b), t) = Owed(s, t)
<1>1. PoolOK(MarkBlinder(s, b))
  BY DEF PoolOK, PoolType, MarkBlinder, RootsCommitted, BlindersMarked,
         BlindersIdentify, LeavesNonNegative, SpentCommitted, Committed
<1>2. \A t \in Tokens : Owed(MarkBlinder(s, b), t) = Owed(s, t)
  BY DEF Owed, Entitles, CanSpend, MarkBlinder
<1> QED BY <1>1, <1>2

(* A leaf adds at most its value.  A wallet needs a blinder that is marked  *)
(* and that no other wallet has.                                            *)
LEMMA InsertLeafOK ==
    ASSUME NEW s, PoolOK(s), NEW e \in Element, NonNegative(e),
           e \in Wallet =>
             /\ e.blinder \in s.publicBlinderSet
             /\ \A i \in DOMAIN s.leaves :
                  s.leaves[i] \in Wallet => s.leaves[i].blinder # e.blinder
    PROVE  /\ PoolOK(InsertLeaf(s, e))
           /\ Committed(InsertLeaf(s, e), e)
           /\ \A x : Committed(s, x) => Committed(InsertLeaf(s, e), x)
           /\ \A t \in Tokens : Owed(InsertLeaf(s, e), t) <= Owed(s, t) + Value(e, t)
<1> DEFINE z == InsertLeaf(s, e)
           n == Len(s.leaves)
<1>1. /\ n \in Nat /\ DOMAIN s.leaves = 1..n
      /\ z.leaves = Append(s.leaves, e)
      /\ Len(z.leaves) = n + 1 /\ DOMAIN z.leaves = 1..(n+1)
      /\ \A i \in 1..n : z.leaves[i] = s.leaves[i]
      /\ z.leaves[n+1] = e
      /\ s.leaves \in Seq(Element) /\ z.leaves \in Seq(Element)
  BY DEF InsertLeaf, PoolOK, PoolType
<1>2. /\ z.rootHistory = s.rootHistory \cup {z.leaves}
      /\ z.nullifierSet = s.nullifierSet
      /\ z.publicBlinderSet = s.publicBlinderSet
  BY DEF InsertLeaf
<1>3. Committed(z, e) /\ \A x : Committed(s, x) => Committed(z, x)
  BY <1>1 DEF Committed
<1>4. PoolOK(z)
  <2>1. z \in PoolType
    BY <1>1 DEF PoolOK, PoolType, InsertLeaf
  <2>2. RootsCommitted(z)
    <3>1. ASSUME NEW r \in s.rootHistory, NEW i \in DOMAIN r PROVE Committed(z, r[i])
      BY <1>3 DEF PoolOK, RootsCommitted
    <3>2. \A i \in DOMAIN z.leaves : Committed(z, z.leaves[i])
      BY DEF Committed
    <3> HIDE DEF z
    <3> QED BY <1>2, <3>1, <3>2 DEF RootsCommitted
  <2>3. BlindersMarked(z)
    BY <1>1, <1>2 DEF PoolOK, BlindersMarked
  <2>4. BlindersIdentify(z)
    <3> SUFFICES ASSUME NEW i \in 1..(n+1), NEW j \in 1..(n+1),
                        z.leaves[i] \in Wallet, z.leaves[j] \in Wallet,
                        z.leaves[i].blinder = z.leaves[j].blinder
                 PROVE  i = j
      BY <1>1 DEF BlindersIdentify
    <3> HIDE DEF z
    <3> QED BY <1>1 DEF PoolOK, BlindersIdentify
  <2>5. SpentCommitted(z)
    BY <1>1, <1>2 DEF PoolOK, SpentCommitted
  <2>6. LeavesNonNegative(z)
    BY <1>1 DEF PoolOK, LeavesNonNegative
  <2> QED BY <2>1, <2>2, <2>3, <2>4, <2>5, <2>6 DEF PoolOK
<1>5. ASSUME NEW t \in Tokens
      PROVE  Owed(z, t) <= Owed(s, t) + Value(e, t)
  <2> DEFINE f == Entitles(s, t)
             ff == Entitles(z, t)
  <2>1. \A i \in 1..n : f[i] \in Int /\ ff[i] = f[i]
    <3>1. ASSUME NEW i \in 1..n PROVE ff[i] = f[i]
      <4>1. i \in DOMAIN z.leaves /\ i \in DOMAIN s.leaves /\ z.leaves[i] = s.leaves[i]
        BY <1>1
      <4> HIDE DEF z
      <4> QED BY <1>2, <4>1 DEF Entitles, CanSpend
    <3> QED BY <3>1, EntitlesNat
  <2>2. ff[n+1] \in Int /\ ff[n+1] <= Value(e, t)
    BY <1>1, <1>2, ValueNat DEF Entitles
  <2>3. Value(e, t) \in Int /\ Owed(s, t) \in Int
    BY ValueNat, OwedInt
  <2> HIDE DEF f, ff, n
  <2>4. RunningTotal(ff, n+1) = RunningTotal(f, n) + ff[n+1]
    BY <1>1, <2>1, <2>2, RunningTotalAppend
  <2> QED BY <1>1, <2>2, <2>3, <2>4 DEF Owed, f, ff, n
<1> QED BY <1>3, <1>4, <1>5

(* A rotation trades the value of w for that of n.                          *)
LEMMA RotateOK ==
    ASSUME NEW s, PoolOK(s), NEW w \in Wallet, Committed(s, w), NEW root,
           NEW n \in Wallet, NonNegative(n), CanRotate(s, w, root, n)
    PROVE  /\ PoolOK(Rotate(s, w, n))
           /\ Committed(Rotate(s, w, n), n)
           /\ \A x : Committed(s, x) => Committed(Rotate(s, w, n), x)
           /\ \A t \in Tokens :
                Owed(Rotate(s, w, n), t) + Value(w, t) <= Owed(s, t) + Value(n, t)
<1> DEFINE a == Spend(s, w)
           b == MarkBlinder(a, n.blinder)
           c == InsertLeaf(b, n)
<1>1. w \in Element /\ n \in Element /\ n.blinder \in Blinders
  BY DEF Element, Wallet
<1>2. PoolOK(a) /\ \A t \in Tokens : Owed(a, t) + Value(w, t) <= Owed(s, t)
  BY <1>1, SpendOK DEF CanRotate
<1>3. PoolOK(b) /\ \A t \in Tokens : Owed(b, t) = Owed(a, t)
  <2> HIDE DEF a
  <2> QED BY <1>1, <1>2, MarkBlinderOK
<1>4. b.leaves = s.leaves /\ b.publicBlinderSet = s.publicBlinderSet \cup {n.blinder}
  BY DEF Spend, MarkBlinder
<1>5. \A i \in DOMAIN b.leaves : b.leaves[i] \in Wallet => b.leaves[i].blinder # n.blinder
  <2> HIDE DEF b
  <2> QED BY <1>4 DEF PoolOK, BlindersMarked, CanRotate, CanMarkBlinder
<1>6. /\ PoolOK(c) /\ Committed(c, n)
      /\ \A x : Committed(b, x) => Committed(c, x)
      /\ \A t \in Tokens : Owed(c, t) <= Owed(b, t) + Value(n, t)
  <2>1. n.blinder \in b.publicBlinderSet
    BY <1>4
  <2> HIDE DEF b
  <2> QED BY <1>1, <1>3, <1>5, <2>1, InsertLeafOK
<1>7. \A x : Committed(s, x) => Committed(c, x)
  <2> HIDE DEF b, c
  <2> QED BY <1>4, <1>6 DEF Committed
<1>8. Rotate(s, w, n) = c
  BY DEF Rotate
<1>9. ASSUME NEW t \in Tokens
      PROVE  Owed(c, t) + Value(w, t) <= Owed(s, t) + Value(n, t)
  <2>1. NonNegative(w)
    BY DEF PoolOK, LeavesNonNegative, Committed
  <2>2. Value(w, t) \in Nat /\ Value(n, t) \in Nat
    BY <1>1, <2>1, ValueNat
  <2> HIDE DEF a, b, c
  <2>3. Owed(s, t) \in Int /\ Owed(a, t) \in Int /\ Owed(b, t) \in Int /\ Owed(c, t) \in Int
    BY <1>2, <1>3, <1>6, OwedInt
  <2> QED BY <1>2, <1>3, <1>6, <2>2, <2>3
<1> QED BY <1>6, <1>7, <1>8, <1>9

-----------------------------------------------------------------------------
(* Match arithmetic.                                                        *)

(* A match moves a wallet's worth by the two legs, fees included, and keeps *)
(* it non-negative when it can pay the leg it sends.                        *)
LEMMA ApplyMatchOK ==
    ASSUME NEW w \in Wallet, NonNegative(w), NEW b \in Blinders,
           NEW send \in Tokens, NEW recv \in Tokens, send # recv,
           NEW sendAmount \in Nat, NEW recvAmount \in Nat, NEW fee,
           fee.relayer \in Nat, fee.protocol \in Nat, total(fee) <= recvAmount,
           sendAmount <= w.bal[send]
    PROVE  LET n == ApplyMatch(w, b, send, sendAmount, recv, recvAmount, fee)
           IN  /\ n \in Wallet /\ NonNegative(n)
               /\ \A t \in Tokens :
                    Value(n, t) = Value(w, t)
                                  + (IF t = recv THEN recvAmount ELSE 0)
                                  - (IF t = send THEN sendAmount ELSE 0)
<1> DEFINE n == ApplyMatch(w, b, send, sendAmount, recv, recvAmount, fee)
<1>1. \A t \in Tokens : /\ w.bal[t] \in Nat /\ w.relayerFee[t] \in Nat
                        /\ w.protocolFee[t] \in Nat
  BY DEF Wallet, NonNegative
<1>2. total(fee) = fee.relayer + fee.protocol
  BY DEF total
<1>3. \A t \in Tokens :
        /\ n.bal[t] = w.bal[t] + (IF t = recv THEN recvAmount - total(fee) ELSE 0)
                              - (IF t = send THEN sendAmount ELSE 0)
        /\ n.relayerFee[t] = w.relayerFee[t] + IF t = recv THEN fee.relayer ELSE 0
        /\ n.protocolFee[t] = w.protocolFee[t] + IF t = recv THEN fee.protocol ELSE 0
  BY DEF ApplyMatch
<1>4. n \in Wallet
  <2>1. \A t \in Tokens : /\ n.bal[t] \in Int /\ n.relayerFee[t] \in Int
                          /\ n.protocolFee[t] \in Int
    <3> HIDE DEF n
    <3> QED BY <1>1, <1>2, <1>3
  <2> QED BY <2>1 DEF ApplyMatch, Wallet
<1>5. NonNegative(n)
  <2> HIDE DEF n
  <2> QED BY <1>1, <1>2, <1>3, <1>4 DEF NonNegative
<1>6. ASSUME NEW t \in Tokens
      PROVE  Value(n, t) = Value(w, t) + (IF t = recv THEN recvAmount ELSE 0)
                                       - (IF t = send THEN sendAmount ELSE 0)
  <2> HIDE DEF n
  <2> QED BY <1>1, <1>2, <1>3, <1>4 DEF Value
<1> QED BY <1>4, <1>5, <1>6

(* An update moves a wallet's worth by what is transferred.                 *)
LEMMA UpdatedOK ==
    ASSUME NEW w \in Wallet, NonNegative(w), NEW key \in Keys, NEW b \in Blinders,
           NEW mint \in Tokens, NEW change \in Int, w.bal[mint] + change >= 0
    PROVE  LET n == Updated(w, key, b, mint, change)
           IN  /\ n \in Wallet /\ NonNegative(n)
               /\ \A t \in Tokens :
                    Value(n, t) = Value(w, t) + IF t = mint THEN change ELSE 0
<1> DEFINE n == Updated(w, key, b, mint, change)
<1>1. \A t \in Tokens : /\ w.bal[t] \in Nat /\ w.relayerFee[t] \in Nat
                        /\ w.protocolFee[t] \in Nat
  BY DEF Wallet, NonNegative
<1>2. \A t \in Tokens :
        /\ n.bal[t] = w.bal[t] + IF t = mint THEN change ELSE 0
        /\ n.relayerFee[t] = w.relayerFee[t] /\ n.protocolFee[t] = w.protocolFee[t]
  BY DEF Updated
<1>3. n \in Wallet
  <2>1. \A t \in Tokens : n.bal[t] \in Int
    <3> HIDE DEF n
    <3> QED BY <1>1, <1>2
  <2> QED BY <2>1 DEF Updated, Wallet
<1> HIDE DEF n
<1>4. NonNegative(n)
  BY <1>1, <1>2, <1>3 DEF NonNegative
<1>5. \A t \in Tokens : Value(n, t) = Value(w, t) + IF t = mint THEN change ELSE 0
  BY <1>1, <1>2, <1>3 DEF Value
<1> QED BY <1>3, <1>4, <1>5 DEF n

(* Paying a fee into a note splits a wallet's worth.                        *)
LEMMA FeePaidOK ==
    ASSUME NEW w \in Wallet, NonNegative(w), NEW b \in Blinders, NEW mint \in Tokens,
           NEW kind \in {"relayer", "protocol"}
    PROVE  LET n == FeePaid(w, b, mint, kind)
               owed == IF kind = "relayer" THEN w.relayerFee[mint] ELSE w.protocolFee[mint]
           IN  /\ n \in Wallet /\ NonNegative(n) /\ owed \in Nat
               /\ \A t \in Tokens :
                    Value(n, t) = Value(w, t) - IF t = mint THEN owed ELSE 0
<1> DEFINE n == FeePaid(w, b, mint, kind)
           owed == IF kind = "relayer" THEN w.relayerFee[mint] ELSE w.protocolFee[mint]
<1>1. \A t \in Tokens : /\ w.bal[t] \in Nat /\ w.relayerFee[t] \in Nat
                        /\ w.protocolFee[t] \in Nat
  BY DEF Wallet, NonNegative
<1>2. \A t \in Tokens :
        /\ n.bal[t] = w.bal[t]
        /\ n.relayerFee[t] = IF kind = "relayer" /\ t = mint THEN 0 ELSE w.relayerFee[t]
        /\ n.protocolFee[t] = IF kind = "protocol" /\ t = mint THEN 0 ELSE w.protocolFee[t]
  BY DEF FeePaid, Wallet
<1>3. n \in Wallet
  BY DEF FeePaid, Wallet
<1> HIDE DEF n
<1>4. NonNegative(n) /\ owed \in Nat
  BY <1>1, <1>2, <1>3 DEF NonNegative
<1>5. \A t \in Tokens : Value(n, t) = Value(w, t) - IF t = mint THEN owed ELSE 0
  BY <1>1, <1>2, <1>3 DEF Value
<1> QED BY <1>3, <1>4, <1>5 DEF n

-----------------------------------------------------------------------------
(* The handlers.                                                            *)

IInv == TypeOK /\ PoolOK(pool) /\ Solvent

(* What an accepted witness of a wallet is.                                 *)
LEMMA WalletOpened ==
    ASSUME NEW s, PoolOK(s), NEW o \in WalletOpenings(s), o.root \in s.rootHistory
    PROVE  o.element \in Wallet /\ Committed(s, o.element) /\ NonNegative(o.element)
<1>1. o \in Openings(s) /\ o.element \in Wallet
  BY DEF WalletOpenings
<1>2. Committed(s, o.element)
  BY <1>1, OpeningCommitted
<1> QED BY <1>1, <1>2 DEF PoolOK, LeavesNonNegative, Committed

(* An element that is committed is worth nothing negative.                  *)
LEMMA CommittedNat ==
    ASSUME NEW s, PoolOK(s), NEW e \in Element, Committed(s, e), NEW t \in Tokens
    PROVE  Value(e, t) \in Nat
BY ValueNat DEF PoolOK, LeavesNonNegative, Committed

(* TypeOK and Solvent after a step that moves custody by d.                 *)
LEMMA SolventStep ==
    ASSUME IInv, PoolOK(pool'), NEW d,
           \A t \in Tokens : d[t] \in Int /\ custody'[t] = custody[t] + d[t],
           custody' \in [Tokens -> Int], poolEth' \in Int,
           protocolFeeRate' \in FeeRates, protocolFeeKey' \in FeeKeys,
           perTokenFeeOverrides' \in [Mints -> FeeRates \cup {0}],
           paused' \in BOOLEAN,
           \A t \in Tokens : Owed(pool', t) <= Owed(pool, t) + d[t]
    PROVE  IInv'
<1>1. TypeOK'
  BY DEF TypeOK, PoolOK, PoolType
<1>2. Solvent'
  <2> SUFFICES ASSUME NEW t \in Tokens PROVE Owed(pool', t) <= custody'[t]
    BY DEF Solvent
  <2>1. Owed(pool, t) \in Int /\ Owed(pool', t) \in Int /\ custody[t] \in Int
    BY OwedInt DEF IInv, TypeOK
  <2>2. Owed(pool, t) <= custody[t]
    BY DEF IInv, Solvent
  <2> QED BY <2>1, <2>2
<1> QED BY <1>1, <1>2 DEF IInv

(* The parts of the state that the user handlers leave alone.               *)
LEMMA ConfigUnchanged ==
    ASSUME IInv, UNCHANGED config
    PROVE  /\ protocolFeeRate' \in FeeRates /\ protocolFeeKey' \in FeeKeys
           /\ perTokenFeeOverrides' \in [Mints -> FeeRates \cup {0}]
           /\ paused' \in BOOLEAN
BY DEF IInv, TypeOK, config

-----------------------------------------------------------------------------
(* What a step issues and spends, as the ledger sees it, and which wallets  *)
(* it makes and consumes.                                                   *)

Issued(s) == {s.leaves[i] : i \in DOMAIN s.leaves}
SpentBy(s) == {x.nullifies : x \in s.nullifierSet}

LedgerStep == [Ledger!Next]_(Ledger!vars)

LEMMA InsertLeafIssues ==
    ASSUME NEW s, s.leaves \in Seq(Element), NEW e
    PROVE  /\ Issued(InsertLeaf(s, e)) = Issued(s) \cup {e}
           /\ SpentBy(InsertLeaf(s, e)) = SpentBy(s)
<1> DEFINE n == Len(s.leaves)
           z == InsertLeaf(s, e)
<1>1. /\ n \in Nat /\ DOMAIN s.leaves = 1..n /\ DOMAIN z.leaves = 1..(n+1)
      /\ \A i \in 1..n : z.leaves[i] = s.leaves[i]
      /\ z.leaves[n+1] = e
      /\ z.nullifierSet = s.nullifierSet
  BY DEF InsertLeaf
<1> HIDE DEF z, n
<1>2. Issued(z) = Issued(s) \cup {e}
  <2>1. ASSUME NEW x \in Issued(z) PROVE x \in Issued(s) \cup {e}
    BY <1>1 DEF Issued
  <2>2. ASSUME NEW x \in Issued(s) \cup {e} PROVE x \in Issued(z)
    <3>1. CASE x = e
      <4>1. n + 1 \in DOMAIN z.leaves
        BY <1>1
      <4> QED BY <1>1, <3>1, <4>1 DEF Issued
    <3>2. CASE x \in Issued(s)
      <4>1. PICK i \in DOMAIN s.leaves : x = s.leaves[i]
        BY <3>2 DEF Issued
      <4> QED BY <1>1, <4>1 DEF Issued
    <3> QED BY <3>1, <3>2
  <2> QED BY <2>1, <2>2
<1> QED BY <1>1, <1>2 DEF SpentBy, z

LEMMA SpendSpends ==
    ASSUME NEW s, PoolOK(s), NEW e \in Element
    PROVE  /\ Issued(Spend(s, e)) = Issued(s)
           /\ SpentBy(Spend(s, e)) = SpentBy(s) \cup {e}
           /\ CanSpend(s, e) => e \notin SpentBy(s)
<1>1. SpentBy(Spend(s, e)) = SpentBy(s) \cup {e}
  <2> DEFINE z == Spend(s, e)
  <2>1. z.nullifierSet = s.nullifierSet \cup {Nullifier(e)} /\ Nullifier(e).nullifies = e
    BY DEF Spend, Nullifier
  <2> HIDE DEF z
  <2>2. SpentBy(z) = SpentBy(s) \cup {e}
    BY <2>1 DEF SpentBy
  <2> QED BY <2>2 DEF z
<1>2. ASSUME NEW x \in s.nullifierSet, x.nullifies = e PROVE x = Nullifier(e)
  BY <1>2 DEF PoolOK, PoolType, Nullifier
<1> QED BY <1>1, <1>2 DEF Issued, Spend, CanSpend, SpentBy

LEMMA RotateTrades ==
    ASSUME NEW s, PoolOK(s), NEW w \in Wallet, NEW root, NEW n \in Wallet,
           CanRotate(s, w, root, n)
    PROVE  /\ Issued(Rotate(s, w, n)) = Issued(s) \cup {n}
           /\ SpentBy(Rotate(s, w, n)) = SpentBy(s) \cup {w}
           /\ w \notin SpentBy(s)
           /\ Rotate(s, w, n).leaves = Append(s.leaves, n)
           /\ Rotate(s, w, n).nullifierSet = s.nullifierSet \cup {Nullifier(w)}
           /\ Rotate(s, w, n).publicBlinderSet = s.publicBlinderSet \cup {n.blinder}
<1> DEFINE a == Spend(s, w)
           b == MarkBlinder(a, n.blinder)
<1>1. w \in Element
  BY DEF Element
<1>2. Issued(a) = Issued(s) /\ SpentBy(a) = SpentBy(s) \cup {w} /\ w \notin SpentBy(s)
  BY <1>1, SpendSpends DEF CanRotate
<1>3. Issued(b) = Issued(a) /\ SpentBy(b) = SpentBy(a)
  BY DEF Issued, SpentBy, MarkBlinder
<1>4. b.leaves = s.leaves /\ s.leaves \in Seq(Element)
  BY DEF Spend, MarkBlinder, PoolOK, PoolType
<1>5. Issued(InsertLeaf(b, n)) = Issued(b) \cup {n} /\ SpentBy(InsertLeaf(b, n)) = SpentBy(b)
  <2> HIDE DEF b
  <2> QED BY <1>4, InsertLeafIssues
<1> QED BY <1>2, <1>3, <1>5 DEF Rotate, InsertLeaf, MarkBlinder, Spend

(* A wallet that a rotation may publish was never committed.                *)
LEMMA FreshWallet ==
    ASSUME NEW s, PoolOK(s), NEW w \in Wallet, Committed(s, w), NEW n \in Wallet,
           CanMarkBlinder(s, n.blinder)
    PROVE  n # w
BY DEF PoolOK, BlindersMarked, Committed, CanMarkBlinder

(* A step that issues m and n, spends e and f and moves custody by the      *)
(* difference is a step of the ledger.                                      *)
Trades(e, f, m, n) ==
    /\ e = f => e = Nil
    /\ ({e, f} \ {Nil}) \cap SpentBy(pool) = {}
    /\ {e, f} \ {Nil} \subseteq Issued(pool')
    /\ Issued(pool') = Issued(pool) \cup ({m, n} \ {Nil})
    /\ SpentBy(pool') = SpentBy(pool) \cup ({e, f} \ {Nil})
    /\ \A t \in Tokens :
         custody'[t] - custody[t] = Ledger!Worth(m, t) + Ledger!Worth(n, t)
                                    - Ledger!Worth(e, t) - Ledger!Worth(f, t)

LEMMA Traded ==
    ASSUME NEW e, NEW f, NEW m, NEW n, Trades(e, f, m, n)
    PROVE  LedgerStep
<1>1. Ledger!Transact(e, f, m, n)
  BY DEF Trades, Ledger!Transact, Issued, SpentBy, Leaves
<1>2. {e, f, m, n} \subseteq Issued(pool') \cup {Nil}
  BY DEF Trades
<1> QED BY <1>1, <1>2 DEF LedgerStep, Ledger!Next, Issued, Leaves

(* The worth of nothing and of an element.                                  *)
LEMMA WorthIs ==
    /\ \A t \in Tokens : Ledger!Worth(Nil, t) = 0
    /\ \A e \in Element, t \in Tokens : Ledger!Worth(e, t) = Value(e, t)
BY ConstantsAssumption DEF Ledger!Worth

(* The wallets a step makes, from the leaves it appends.                    *)
LEMMA Makes ==
    ASSUME IInv, NEW n, NEW m
    PROVE  /\ pool'.leaves = Append(pool.leaves, n) => Created = {n} \cap Wallet
           /\ pool'.leaves = Append(Append(pool.leaves, n), m)
                => Created = {n, m} \cap Wallet
<1> DEFINE k == Len(pool.leaves)
<1>1. k \in Nat /\ pool.leaves \in Seq(Element)
  BY DEF IInv, PoolOK, PoolType
<1>2. ASSUME pool'.leaves = Append(pool.leaves, n) PROVE Created = {n} \cap Wallet
  <2>1. Len(pool'.leaves) = k + 1 /\ pool'.leaves[k+1] = n
    BY <1>1, <1>2
  <2>2. k + 1 .. k + 1 = {k + 1}
    BY <1>1
  <2> HIDE DEF k
  <2> QED BY <2>1, <2>2 DEF Created, k
<1>3. ASSUME pool'.leaves = Append(Append(pool.leaves, n), m)
      PROVE  Created = {n, m} \cap Wallet
  <2>1. Len(pool'.leaves) = k + 2 /\ pool'.leaves[k+1] = n /\ pool'.leaves[k+2] = m
    BY <1>1, <1>3
  <2>2. k + 1 .. k + 2 = {k + 1, k + 2}
    BY <1>1
  <2> HIDE DEF k
  <2> QED BY <2>1, <2>2 DEF Created, k
<1> QED BY <1>2, <1>3

(* The wallets a step consumes, from the elements it spends.                *)
LEMMA Consumes ==
    ASSUME NEW e, NEW f, CanSpend(pool, e), CanSpend(pool, f),
           pool'.nullifierSet = pool.nullifierSet \cup {Nullifier(e), Nullifier(f)}
    PROVE  Consumed = {e, f} \cap Wallet
<1>1. pool'.nullifierSet \ pool.nullifierSet = {Nullifier(e), Nullifier(f)}
  BY DEF CanSpend
<1>2. Nullifier(e).nullifies = e /\ Nullifier(f).nullifies = f
  BY DEF Nullifier
<1> QED BY <1>1, <1>2 DEF Consumed

(* A cut at one of the rates.                                               *)
ChargedAt(Rates, n, w) ==
    \A t \in Tokens :
        n.protocolFee[t] - w.protocolFee[t] > 0 =>
            \E rate \in Rates :
                n.protocolFee[t] - w.protocolFee[t]
                  = unsafeFixedPointMul(rate, Value(n, t) - Value(w, t))

RatesInForce == {getTokenExternalMatchFeeRate(m) : m \in Mints}

LEMMA OneCharged ==
    ASSUME NEW w, NEW n, Created = {n}, Consumed = {w}, n # w, ChargedAt(RatesInForce, n, w)
    PROVE  ChargesRateInForce
<1> DEFINE from == [x \in Created |-> w]
<1>1. from \in [Created -> Consumed] /\ from[n] = w
  OBVIOUS
<1>2. ~ \E x, y \in Created : x # y
  OBVIOUS
<1> HIDE DEF from
<1> QED BY <1>1, <1>2 DEF ChargesRateInForce, ChargedAt, RatesInForce

LEMMA TwoCharged ==
    ASSUME NEW w0, NEW n0, NEW w1, NEW n1, Created = {n0, n1}, Consumed = {w0, w1},
           n0 # w0, n1 # w1, n0 # n1, w0 # w1,
           ChargedAt({protocolFeeRate}, n0, w0), ChargedAt({protocolFeeRate}, n1, w1)
    PROVE  ChargesRateInForce
<1> DEFINE from == [x \in Created |-> IF x = n0 THEN w0 ELSE w1]
<1>1. from \in [Created -> Consumed] /\ from[n0] = w0 /\ from[n1] = w1
  OBVIOUS
<1>2. \E x, y \in Created : x # y
  OBVIOUS
<1> HIDE DEF from
<1> QED BY <1>1, <1>2 DEF ChargesRateInForce, ChargedAt

(* What every step of the contract is shown to do.                          *)
StepOK == IInv' /\ LedgerStep /\ ChargesRateInForce

LEMMA CreateWalletStep == ASSUME IInv, CreateWallet PROVE StepOK
<1>1. PICK key \in Keys, b \in BlinderChoices(pool) : createWallet(key, b)
  BY DEF CreateWallet
<1> DEFINE n == [key |-> key, blinder |-> b, bal |-> NoBalance,
                 relayerFee |-> NoBalance, protocolFee |-> NoBalance]
           m == MarkBlinder(pool, b)
<1>2. /\ CanMarkBlinder(pool, b) /\ pool' = InsertLeaf(m, n)
      /\ UNCHANGED <<custody, poolEth, config>>
  BY <1>1 DEF createWallet
<1>3. b \in Blinders
  BY DEF BlinderChoices
<1>4. n \in Wallet /\ n \in Element /\ NonNegative(n) /\ \A t \in Tokens : Value(n, t) = 0
  BY <1>3 DEF NonNegative, Value, NoBalance, Wallet, Element
<1>5. PoolOK(m) /\ \A t \in Tokens : Owed(m, t) = Owed(pool, t)
  BY <1>3, MarkBlinderOK DEF IInv
<1>6. /\ b \in m.publicBlinderSet
      /\ \A i \in DOMAIN m.leaves : m.leaves[i] \in Wallet => m.leaves[i].blinder # b
  BY <1>2 DEF MarkBlinder, CanMarkBlinder, IInv, PoolOK, BlindersMarked
<1>7. PoolOK(pool') /\ \A t \in Tokens : Owed(pool', t) <= Owed(m, t) + Value(n, t)
  <2>1. n.blinder = b
    OBVIOUS
  <2> HIDE DEF n, m
  <2> QED BY <1>2, <1>4, <1>5, <1>6, <2>1, InsertLeafOK
<1>8. \A t \in Tokens : Owed(pool', t) <= Owed(pool, t) + NoBalance[t]
  BY <1>4, <1>5, <1>7 DEF NoBalance
<1>9. \A t \in Tokens : NoBalance[t] \in Int /\ custody'[t] = custody[t] + NoBalance[t]
  BY <1>2 DEF NoBalance, IInv, TypeOK
<1>10. custody' \in [Tokens -> Int] /\ poolEth' \in Int /\ UNCHANGED config
  BY <1>2 DEF IInv, TypeOK
<1>11. IInv'
  BY <1>7, <1>8, <1>9, <1>10, ConfigUnchanged, SolventStep
<1>12. /\ Issued(pool') = Issued(pool) \cup {n} /\ SpentBy(pool') = SpentBy(pool)
       /\ pool'.nullifierSet = pool.nullifierSet
  <2>1. /\ m.leaves = pool.leaves /\ m.nullifierSet = pool.nullifierSet
        /\ m.leaves \in Seq(Element)
    BY DEF MarkBlinder, IInv, PoolOK, PoolType
  <2>2. pool'.nullifierSet = m.nullifierSet
    BY <1>2 DEF InsertLeaf
  <2>3. Issued(m) = Issued(pool) /\ SpentBy(m) = SpentBy(pool)
    BY <2>1 DEF Issued, SpentBy
  <2> HIDE DEF m, n
  <2> QED BY <1>2, <2>1, <2>2, <2>3, InsertLeafIssues
<1>13. LedgerStep
  <2>1. \A t \in Tokens : custody'[t] - custody[t] = 0 /\ Ledger!Worth(n, t) = 0
    BY <1>2, <1>4, WorthIs DEF IInv, TypeOK
  <2> HIDE DEF n
  <2>2. \A t \in Tokens :
          custody'[t] - custody[t] = Ledger!Worth(n, t) + Ledger!Worth(Nil, t)
                                     - Ledger!Worth(Nil, t) - Ledger!Worth(Nil, t)
    BY <2>1, WorthIs
  <2>3. n # Nil
    BY <1>4, ConstantsAssumption
  <2>4. {n, Nil} \ {Nil} = {n} /\ {Nil, Nil} \ {Nil} = {}
    BY <2>3
  <2>5. Trades(Nil, Nil, n, Nil)
    BY <1>12, <2>2, <2>4 DEF Trades
  <2> QED BY <2>5, Traded
<1>14. ChargesRateInForce
  BY <1>12 DEF ChargesRateInForce, Consumed
<1> QED BY <1>11, <1>13, <1>14 DEF StepOK

(* A rotation that gains what the external transfers bring in.              *)
LEMMA RotateStep ==
    ASSUME IInv, NEW o \in WalletOpenings(pool), NEW n \in Wallet, NonNegative(n),
           CanRotate(pool, o.element, o.root, n), pool' = Rotate(pool, o.element, n),
           NEW d,
           \A t \in Tokens : /\ d[t] \in Int /\ custody'[t] = custody[t] + d[t]
                             /\ Value(n, t) = Value(o.element, t) + d[t],
           custody' \in [Tokens -> Int], poolEth' \in Int, UNCHANGED config,
           ChargedAt(RatesInForce, n, o.element)
    PROVE  StepOK
<1> DEFINE w == o.element
<1>1. w \in Wallet /\ Committed(pool, w) /\ NonNegative(w)
  BY WalletOpened DEF IInv, CanRotate
<1>2. /\ PoolOK(pool')
      /\ \A t \in Tokens : Owed(pool', t) + Value(w, t) <= Owed(pool, t) + Value(n, t)
  <2> HIDE DEF w
  <2> QED BY <1>1, RotateOK DEF IInv, w
<1>3. ASSUME NEW t \in Tokens PROVE Owed(pool', t) <= Owed(pool, t) + d[t]
  <2>1. Value(w, t) \in Nat
    BY <1>1, ValueNat DEF Element
  <2>2. Owed(pool, t) \in Int /\ Owed(pool', t) \in Int
    BY <1>2, OwedInt DEF IInv
  <2> HIDE DEF w
  <2> QED BY <1>2, <2>1, <2>2 DEF w
<1>4. IInv'
  BY <1>2, <1>3, ConfigUnchanged, SolventStep
<1>5. /\ CanSpend(pool, w) /\ CanMarkBlinder(pool, n.blinder)
      /\ CanRotate(pool, w, o.root, n) /\ pool' = Rotate(pool, w, n)
  BY DEF CanRotate
<1>6. /\ Issued(pool') = Issued(pool) \cup {n} /\ w \in Issued(pool)
      /\ SpentBy(pool') = SpentBy(pool) \cup {w} /\ w \notin SpentBy(pool)
      /\ pool'.leaves = Append(pool.leaves, n)
      /\ pool'.nullifierSet = pool.nullifierSet \cup {Nullifier(w)}
  <2>1. w \in Issued(pool) /\ PoolOK(pool)
    BY <1>1 DEF IInv, Committed, Issued
  <2> HIDE DEF w
  <2> QED BY <1>1, <1>5, <2>1, RotateTrades
<1>7. LedgerStep
  <2>1. /\ n \in Element /\ w \in Element /\ n # Nil /\ w # Nil
    BY <1>1, ConstantsAssumption DEF Element
  <2>2. \A t \in Tokens : Value(w, t) \in Int
    BY <1>1, <2>1, ValueNat
  <2>3. \A t \in Tokens : custody[t] \in Int /\ d[t] \in Int /\ custody'[t] = custody[t] + d[t]
                          /\ Value(n, t) = Value(w, t) + d[t]
    BY DEF IInv, TypeOK
  <2> HIDE DEF w
  <2>4. \A t \in Tokens :
          custody'[t] - custody[t] = Ledger!Worth(n, t) + Ledger!Worth(Nil, t)
                                     - Ledger!Worth(w, t) - Ledger!Worth(Nil, t)
    BY <2>1, <2>2, <2>3, WorthIs
  <2>5. {w, Nil} \ {Nil} = {w} /\ {n, Nil} \ {Nil} = {n}
    BY <2>1
  <2>6. Trades(w, Nil, n, Nil)
    BY <1>6, <2>1, <2>4, <2>5 DEF Trades
  <2> QED BY <2>6, Traded
<1>8. ChargesRateInForce
  <2>1. Created = {n} /\ n # w
    <3>1. n # w
      BY <1>1, <1>5, FreshWallet DEF IInv
    <3> HIDE DEF w
    <3> QED BY <1>1, <1>5, <1>6, <3>1, Makes DEF IInv
  <2>2. Consumed = {w}
    <3> HIDE DEF w
    <3>1. pool'.nullifierSet = pool.nullifierSet \cup {Nullifier(w), Nullifier(w)}
      BY <1>6
    <3> QED BY <1>1, <1>5, <3>1, Consumes
  <2> QED BY <2>1, <2>2, OneCharged
<1> QED BY <1>4, <1>7, <1>8 DEF StepOK

LEMMA UpdateWalletStep == ASSUME IInv, UpdateWallet PROVE StepOK
<1>1. PICK o \in WalletOpenings(pool), b \in BlinderChoices(pool),
           signer \in Keys, key \in Keys, mint \in Tokens,
           a \in Amounts \cup {0}, sign \in {-1, 1} :
        updateWallet(o.root, o.element, signer, key, b, mint, sign * a)
  BY DEF UpdateWallet
<1> DEFINE w == o.element
           change == sign * a
           n == Updated(w, key, b, mint, change)
           d == [t \in Tokens |-> IF t = mint THEN change ELSE 0]
<1>2. /\ w.bal[mint] + change >= 0
      /\ CanRotate(pool, w, o.root, n)
      /\ pool' = Rotate(pool, w, n)
      /\ change > 0 => CanDeposit(mint, change)
      /\ custody' = [custody EXCEPT ![mint] =
                       @ + IF change > 0 THEN Delivered(mint, change) ELSE change]
      /\ UNCHANGED <<poolEth, config>>
  BY <1>1 DEF updateWallet
<1>3. change \in Int /\ b \in Blinders
  <2> HIDE DEF n, d
  <2>1. b \in Blinders
    BY DEF BlinderChoices
  <2>2. Amounts \subseteq Nat
    BY ConstantsAssumption
  <2>3. a \in Int
    BY <2>2
  <2>4. CASE sign = 1
    BY <2>1, <2>3, <2>4
  <2>5. CASE sign = -1
    BY <2>1, <2>3, <2>5
  <2> QED BY <2>4, <2>5
<1>4. w \in Wallet /\ Committed(pool, w) /\ NonNegative(w)
  BY <1>2, WalletOpened DEF IInv, CanRotate
<1>5. /\ n \in Wallet /\ NonNegative(n)
      /\ \A t \in Tokens : Value(n, t) = Value(w, t) + IF t = mint THEN change ELSE 0
  <2> HIDE DEF w, change
  <2> QED BY <1>2, <1>3, <1>4, UpdatedOK
<1>6. custody' = [custody EXCEPT ![mint] = @ + change]
  BY <1>2, <1>3 DEF CanDeposit, BalanceMatches
<1>7. /\ \A t \in Tokens : d[t] \in Int /\ custody'[t] = custody[t] + d[t]
      /\ custody' \in [Tokens -> Int]
  <2> HIDE DEF change
  <2> QED BY <1>3, <1>6 DEF IInv, TypeOK
<1>8. \A t \in Tokens : Value(n, t) = Value(w, t) + d[t]
  <2> HIDE DEF w, n
  <2> QED BY <1>5
<1>9. poolEth' \in Int /\ UNCHANGED config
  BY <1>2 DEF IInv, TypeOK
<1>10. ChargedAt(RatesInForce, n, w)
  <2>1. \A t \in Tokens : n.protocolFee[t] = w.protocolFee[t] /\ w.protocolFee[t] \in Int
    BY <1>4 DEF Updated, Wallet
  <2>2. \A t \in Tokens : n.protocolFee[t] - w.protocolFee[t] = 0
    <3> HIDE DEF n, w
    <3> QED BY <2>1
  <2> QED BY <2>2 DEF ChargedAt
<1> HIDE DEF d, n
<1> QED BY <1>2, <1>5, <1>7, <1>8, <1>9, <1>10, RotateStep

(* A product by a rate or a price is rounded down,                          *)
LEMMA FixedPointMulNat ==
    ASSUME NEW rate \in Nat, NEW x \in Nat
    PROVE  /\ unsafeFixedPointMul(rate, x) \in Nat
           /\ Precision * unsafeFixedPointMul(rate, x) <= rate * x
<1>1. Precision \in Nat \ {0} /\ rate * x \in Nat
  BY PrecisionAssumption
<1> QED BY <1>1, QuotientDown DEF unsafeFixedPointMul

(* and a larger amount never costs less.                                    *)
LEMMA FixedPointMulMonotone ==
    ASSUME NEW rate \in Nat, NEW x \in Nat, NEW y \in Nat, x <= y
    PROVE  unsafeFixedPointMul(rate, x) <= unsafeFixedPointMul(rate, y)
<1>1. Precision \in Nat \ {0}
  BY PrecisionAssumption
<1>2. rate * x \in Nat /\ rate * y \in Nat /\ rate * x <= rate * y
  OBVIOUS
<1> QED BY <1>1, <1>2, QuotientMonotone DEF unsafeFixedPointMul

(* Rates that add up to at most one take at most the amount.                *)
LEMMA FeesWithinAmount ==
    ASSUME NEW r \in Nat, NEW p \in Nat, r + p <= Precision, NEW x \in Nat
    PROVE  /\ computeFeeTake(r, p, x).relayer \in Nat
           /\ computeFeeTake(r, p, x).protocol \in Nat
           /\ total(computeFeeTake(r, p, x)) <= x
<1> DEFINE a == unsafeFixedPointMul(r, x)
           b == unsafeFixedPointMul(p, x)
<1>1. a \in Nat /\ b \in Nat /\ Precision * a <= r * x /\ Precision * b <= p * x
  BY FixedPointMulNat
<1>2. Precision \in Nat \ {0}
  BY PrecisionAssumption
<1>3. a + b <= x
  <2> HIDE DEF a, b
  <2>1. r * x + p * x = (r + p) * x
    OBVIOUS
  <2>2. (r + p) * x <= Precision * x
    BY <1>2
  <2>3. Precision * (a + b) = Precision * a + Precision * b
    BY <1>1, <1>2
  <2>4. Precision * (a + b) <= Precision * x
    BY <1>1, <1>2, <2>1, <2>2, <2>3
  <2>5. ASSUME NEW u \in Nat, NEW v \in Nat, NEW q \in Nat \ {0}, q * u <= q * v
        PROVE  u <= v
    BY <2>5
  <2> QED BY <1>1, <1>2, <2>4, <2>5
<1> QED BY <1>1, <1>3 DEF computeFeeTake, total

(* The rates that statements carry take at most what a wallet receives.     *)
LEMMA StatementFees ==
    ASSUME NEW r \in RelayerRates, NEW p \in FeeRates, NEW x \in Nat
    PROVE  /\ computeFeeTake(r, p, x).relayer \in Nat
           /\ computeFeeTake(r, p, x).protocol \in Nat
           /\ total(computeFeeTake(r, p, x)) <= x
<1>1. r \in Nat /\ p \in Nat /\ r + p <= Precision
  BY ConstantsAssumption
<1> QED BY <1>1, FeesWithinAmount

(* A match accrues the protocol's rate of what the wallet receives.         *)
LEMMA MatchCharges ==
    ASSUME NEW w \in Wallet, NonNegative(w), NEW b \in Blinders,
           NEW send \in Tokens, NEW recv \in Tokens, send # recv,
           NEW sendAmount \in Nat, NEW recvAmount \in Nat,
           NEW r \in RelayerRates, NEW p \in FeeRates, sendAmount <= w.bal[send],
           NEW Rates, p \in Rates
    PROVE  ChargedAt(Rates, ApplyMatch(w, b, send, sendAmount, recv, recvAmount,
                                       computeFeeTake(r, p, recvAmount)), w)
<1> DEFINE fee == computeFeeTake(r, p, recvAmount)
           n == ApplyMatch(w, b, send, sendAmount, recv, recvAmount, fee)
<1>1. /\ fee.relayer \in Nat /\ fee.protocol \in Nat /\ total(fee) <= recvAmount
      /\ fee.protocol = unsafeFixedPointMul(p, recvAmount)
  BY StatementFees DEF computeFeeTake
<1>2. \A t \in Tokens : w.protocolFee[t] \in Int /\ Value(w, t) \in Int
  BY ValueNat DEF Wallet, Element
<1>3. \A t \in Tokens : n.protocolFee[t] = w.protocolFee[t] + IF t = recv THEN fee.protocol ELSE 0
  BY DEF ApplyMatch
<1> HIDE DEF fee
<1>4. \A t \in Tokens : Value(n, t) = Value(w, t) + (IF t = recv THEN recvAmount ELSE 0)
                                                  - (IF t = send THEN sendAmount ELSE 0)
  BY <1>1, ApplyMatchOK
<1> HIDE DEF n
<1>5. ASSUME NEW t \in Tokens, n.protocolFee[t] - w.protocolFee[t] > 0
      PROVE  n.protocolFee[t] - w.protocolFee[t]
               = unsafeFixedPointMul(p, Value(n, t) - Value(w, t))
  <2>1. t = recv
    BY <1>2, <1>3, <1>5
  <2>2. Value(n, t) - Value(w, t) = recvAmount
    BY <1>2, <1>4, <2>1
  <2>3. n.protocolFee[t] - w.protocolFee[t] = fee.protocol
    BY <1>1, <1>2, <1>3, <2>1
  <2> QED BY <1>1, <2>2, <2>3
<1> QED BY <1>5 DEF ChargedAt, n, fee

LEMMA MatchPartyOK ==
    ASSUME NEW w \in Wallet, NonNegative(w), NEW b \in Blinders,
           NEW send \in Tokens, NEW recv \in Tokens, send # recv,
           NEW sendAmount \in Nat, NEW recvAmount \in Nat,
           NEW r \in RelayerRates, NEW p \in FeeRates, sendAmount <= w.bal[send]
    PROVE  LET n == MatchParty(w, b, send, sendAmount, recv, recvAmount, r, p)
           IN  /\ n \in Wallet /\ NonNegative(n)
               /\ \A t \in Tokens :
                    Value(n, t) = Value(w, t)
                                  + (IF t = recv THEN recvAmount ELSE 0)
                                  - (IF t = send THEN sendAmount ELSE 0)
               /\ \A Rates : p \in Rates => ChargedAt(Rates, n, w)
BY StatementFees, ApplyMatchOK, MatchCharges DEF MatchParty

LEMMA ProcessMatchSettleStep == ASSUME IInv, ProcessMatchSettle PROVE StepOK
<1>1. PICK o0 \in WalletOpenings(pool), b0 \in BlinderChoices(pool),
           t0 \in Tokens, t1 \in Tokens, a0 \in Amounts, a1 \in Amounts,
           r \in RelayerRates, p \in FeeRates :
        LET n0  == MatchParty(o0.element, b0, t0, a0, t1, a1, r, p)
            mid == Rotate(pool, o0.element, n0)
        IN  \E o1 \in WalletOpenings(mid), b1 \in BlinderChoices(mid) :
              /\ t0 # t1
              /\ processMatchSettle(o0, b0, o1, b1, t0, a0, t1, a1, r, p)
  BY DEF ProcessMatchSettle
<1> DEFINE w0 == o0.element
           n0 == MatchParty(w0, b0, t0, a0, t1, a1, r, p)
           mid == Rotate(pool, w0, n0)
<1>2. PICK o1 \in WalletOpenings(mid), b1 \in BlinderChoices(mid) :
        /\ t0 # t1
        /\ processMatchSettle(o0, b0, o1, b1, t0, a0, t1, a1, r, p)
  BY <1>1
<1> DEFINE w1 == o1.element
           n1 == MatchParty(w1, b1, t1, a1, t0, a0, r, p)
           d == [t \in Tokens |-> 0]
<1>3. /\ p = protocolFeeRate
      /\ w0.bal[t0] >= a0 /\ w1.bal[t1] >= a1
      /\ CanRotate(pool, w0, o0.root, n0)
      /\ CanRotate(mid, w1, o1.root, n1)
      /\ pool' = Rotate(mid, w1, n1)
      /\ UNCHANGED <<custody, poolEth, config>>
  BY <1>2 DEF processMatchSettle, ProtocolFeeRateValid
<1>4. a0 \in Nat /\ a1 \in Nat /\ b0 \in Blinders /\ b1 \in Blinders
  BY ConstantsAssumption DEF BlinderChoices
<1>5. w0 \in Wallet /\ Committed(pool, w0) /\ NonNegative(w0)
  BY <1>3, WalletOpened DEF IInv, CanRotate
<1>6. /\ n0 \in Wallet /\ NonNegative(n0)
      /\ \A t \in Tokens : Value(n0, t) = Value(w0, t) + (IF t = t1 THEN a1 ELSE 0)
                                                       - (IF t = t0 THEN a0 ELSE 0)
      /\ ChargedAt({protocolFeeRate}, n0, w0)
  <2> HIDE DEF w0
  <2> QED BY <1>2, <1>3, <1>4, <1>5, MatchPartyOK
<1>7. /\ PoolOK(mid) /\ Committed(mid, n0)
      /\ \A t \in Tokens : Owed(mid, t) + Value(w0, t) <= Owed(pool, t) + Value(n0, t)
  <2> HIDE DEF w0, n0
  <2> QED BY <1>3, <1>5, <1>6, RotateOK DEF IInv
<1>8. w1 \in Wallet /\ Committed(mid, w1) /\ NonNegative(w1)
  <2> HIDE DEF mid
  <2> QED BY <1>3, <1>7, WalletOpened DEF CanRotate
<1>9. /\ n1 \in Wallet /\ NonNegative(n1)
      /\ \A t \in Tokens : Value(n1, t) = Value(w1, t) + (IF t = t0 THEN a0 ELSE 0)
                                                       - (IF t = t1 THEN a1 ELSE 0)
      /\ ChargedAt({protocolFeeRate}, n1, w1)
  <2> HIDE DEF w1, mid
  <2> QED BY <1>2, <1>3, <1>4, <1>8, MatchPartyOK
<1>10. /\ PoolOK(pool')
       /\ \A t \in Tokens : Owed(pool', t) + Value(w1, t) <= Owed(mid, t) + Value(n1, t)
  <2> HIDE DEF w1, n1, mid
  <2> QED BY <1>3, <1>7, <1>8, <1>9, RotateOK
<1>11. ASSUME NEW t \in Tokens PROVE Owed(pool', t) <= Owed(pool, t) + d[t]
  <2>1. Value(w0, t) \in Nat /\ Value(w1, t) \in Nat
    BY <1>5, <1>8, ValueNat DEF Element
  <2> HIDE DEF w0, w1, n0, n1, mid
  <2>2. Owed(pool, t) \in Int /\ Owed(mid, t) \in Int /\ Owed(pool', t) \in Int
    BY <1>7, <1>10, OwedInt DEF IInv
  <2>3. Owed(mid, t) + Value(w0, t) <= Owed(pool, t) + Value(n0, t)
    BY <1>7
  <2>4. Owed(pool', t) + Value(w1, t) <= Owed(mid, t) + Value(n1, t)
    BY <1>10
  <2>5. Value(n0, t) + Value(n1, t) = Value(w0, t) + Value(w1, t)
        /\ Value(n0, t) \in Int /\ Value(n1, t) \in Int
    BY <1>2, <1>4, <1>6, <1>9, <2>1
  <2> QED BY <2>1, <2>2, <2>3, <2>4, <2>5
<1>12. /\ \A t \in Tokens : d[t] \in Int /\ custody'[t] = custody[t] + d[t]
       /\ custody' \in [Tokens -> Int] /\ poolEth' \in Int /\ UNCHANGED config
  BY <1>3 DEF IInv, TypeOK
<1>13. IInv'
  <2> HIDE DEF d
  <2> QED BY <1>10, <1>11, <1>12, ConfigUnchanged, SolventStep
<1>14. /\ Issued(mid) = Issued(pool) \cup {n0} /\ w0 \in Issued(pool)
       /\ SpentBy(mid) = SpentBy(pool) \cup {w0} /\ w0 \notin SpentBy(pool)
       /\ mid.leaves = Append(pool.leaves, n0)
       /\ mid.nullifierSet = pool.nullifierSet \cup {Nullifier(w0)}
       /\ CanSpend(pool, w0) /\ CanMarkBlinder(pool, n0.blinder) /\ n0 # w0
  <2>1. /\ w0 \in Issued(pool) /\ PoolOK(pool)
        /\ CanSpend(pool, w0) /\ CanMarkBlinder(pool, n0.blinder)
    BY <1>3, <1>5 DEF IInv, Committed, Issued, CanRotate
  <2> HIDE DEF w0, n0
  <2> QED BY <1>3, <1>5, <1>6, <2>1, RotateTrades, FreshWallet
<1>15. /\ Issued(pool') = Issued(mid) \cup {n1} /\ w1 \in Issued(mid)
       /\ SpentBy(pool') = SpentBy(mid) \cup {w1} /\ w1 \notin SpentBy(mid)
       /\ pool'.leaves = Append(mid.leaves, n1)
       /\ pool'.nullifierSet = mid.nullifierSet \cup {Nullifier(w1)}
       /\ CanSpend(mid, w1) /\ CanMarkBlinder(mid, n1.blinder) /\ n1 # w1
       /\ n0 # n1
  <2>1. /\ w1 \in Issued(mid)
        /\ CanSpend(mid, w1) /\ CanMarkBlinder(mid, n1.blinder)
    <3> HIDE DEF mid
    <3> QED BY <1>3, <1>8 DEF Committed, Issued, CanRotate
  <2> HIDE DEF w0, n0, w1, n1, mid
  <2> QED BY <1>3, <1>6, <1>7, <1>8, <1>9, <2>1, RotateTrades, FreshWallet
<1>16. LedgerStep
  <2>1. /\ n0 \in Element /\ w0 \in Element /\ n0 # Nil /\ w0 # Nil
        /\ n1 \in Element /\ w1 \in Element /\ n1 # Nil /\ w1 # Nil
    BY <1>5, <1>6, <1>8, <1>9, ConstantsAssumption DEF Element
  <2> HIDE DEF w0, n0, w1, n1, mid
  <2>2. w0 # w1
    BY <1>14, <1>15
  <2>3. ASSUME NEW t \in Tokens
        PROVE  custody'[t] - custody[t] = Ledger!Worth(n0, t) + Ledger!Worth(n1, t)
                                          - Ledger!Worth(w0, t) - Ledger!Worth(w1, t)
    <3>1. /\ Value(w0, t) \in Nat /\ Value(w1, t) \in Nat
      BY <1>5, <1>8, <2>1, ValueNat
    <3>2. custody'[t] - custody[t] = 0
      BY <1>3 DEF IInv, TypeOK
    <3>3. Value(n0, t) + Value(n1, t) = Value(w0, t) + Value(w1, t)
          /\ Value(n0, t) \in Int /\ Value(n1, t) \in Int
      BY <1>2, <1>4, <1>6, <1>9, <3>1
    <3> QED BY <2>1, <3>1, <3>2, <3>3, WorthIs
  <2>4. {w0, w1} \ {Nil} = {w0, w1} /\ {n0, n1} \ {Nil} = {n0, n1}
    BY <2>1
  <2>5. /\ Issued(pool') = Issued(pool) \cup {n0, n1} /\ {w0, w1} \subseteq Issued(pool')
        /\ SpentBy(pool') = SpentBy(pool) \cup {w0, w1} /\ {w0, w1} \cap SpentBy(pool) = {}
    BY <1>14, <1>15
  <2>6. Trades(w0, w1, n0, n1)
    BY <2>2, <2>3, <2>4, <2>5 DEF Trades
  <2> QED BY <2>6, Traded
<1>17. ChargesRateInForce
  <2> HIDE DEF w0, n0, w1, n1, mid
  <2>1. w0 # w1 /\ CanSpend(pool, w1)
    BY <1>14, <1>15 DEF CanSpend
  <2>2. Created = {n0, n1}
    <3>1. pool'.leaves = Append(Append(pool.leaves, n0), n1)
      BY <1>14, <1>15
    <3>2. Created = {n0, n1} \cap Wallet
      BY <3>1, Makes
    <3> QED BY <1>6, <1>9, <3>2
  <2>3. Consumed = {w0, w1}
    <3>1. pool'.nullifierSet = pool.nullifierSet \cup {Nullifier(w0), Nullifier(w1)}
      BY <1>14, <1>15
    <3> QED BY <1>5, <1>8, <1>14, <2>1, <3>1, Consumes
  <2> QED BY <1>6, <1>9, <1>14, <1>15, <2>1, <2>2, <2>3, TwoCharged
<1> QED BY <1>13, <1>16, <1>17 DEF StepOK

(* The tokens of an external match move custody by its two legs.            *)
LEMMA AtomicTransfersOK ==
    ASSUME IInv, NEW m, NEW fee, NEW v \in Int,
           Resolve(externalPartySell(m).mint) \in Tokens,
           Resolve(externalPartyBuy(m).mint) \in Tokens,
           externalPartySell(m).amount \in Nat, externalPartyBuy(m).amount \in Nat,
           AtomicTransfers(m, fee, v)
    PROVE  LET sell == externalPartySell(m)
               buy  == externalPartyBuy(m)
               d == [t \in Tokens |-> (IF t = Resolve(sell.mint) THEN sell.amount ELSE 0)
                                      - (IF t = Resolve(buy.mint) THEN buy.amount ELSE 0)]
           IN  /\ \A t \in Tokens : d[t] \in Int /\ custody'[t] = custody[t] + d[t]
               /\ custody' \in [Tokens -> Int] /\ poolEth' \in Int
<1> DEFINE sell == externalPartySell(m)
           buy  == externalPartyBuy(m)
           st == Resolve(sell.mint)
           bt == Resolve(buy.mint)
           wrapped == IF sell.mint = NATIVE THEN sell.amount ELSE 0
           d == [t \in Tokens |-> (IF t = st THEN sell.amount ELSE 0)
                                  - (IF t = bt THEN buy.amount ELSE 0)]
<1>1. /\ Delivered(st, sell.amount) = sell.amount
      /\ custody' = [t \in Tokens |->
                       custody[t]
                       + (IF t = st THEN Delivered(t, sell.amount) ELSE 0)
                       - (IF t = bt THEN buy.amount ELSE 0)]
      /\ poolEth' = poolEth + v - wrapped
  BY DEF AtomicTransfers, CanDeposit, BalanceMatches
<1>2. custody \in [Tokens -> Int] /\ poolEth \in Int
  BY DEF IInv, TypeOK
<1>3. sell.amount \in Nat /\ buy.amount \in Nat
  OBVIOUS
<1> HIDE DEF sell, buy, st, bt
<1>4. poolEth' \in Int
  BY <1>1, <1>2, <1>3
<1>5. \A t \in Tokens : d[t] \in Int /\ custody'[t] = custody[t] + d[t]
  BY <1>1, <1>2, <1>3
<1>6. custody' \in [Tokens -> Int]
  BY <1>1, <1>2, <1>3
<1> QED BY <1>4, <1>5, <1>6 DEF sell, buy, st, bt

(* The legs of an external match are traded in two different ERC-20s.       *)
LEMMA LegsOK ==
    ASSUME NEW m, m.baseMint \in Mints, m.quoteMint \in Tokens,
           Resolve(m.baseMint) # m.quoteMint,
           m.baseAmount \in Nat, m.quoteAmount \in Nat, m.direction \in Direction
    PROVE  LET sell == externalPartySell(m)
               buy  == externalPartyBuy(m)
           IN  /\ Resolve(sell.mint) \in Tokens /\ Resolve(buy.mint) \in Tokens
               /\ Resolve(sell.mint) # Resolve(buy.mint)
               /\ sell.amount \in Nat /\ buy.amount \in Nat
<1>1. Resolve(m.quoteMint) = m.quoteMint /\ Resolve(m.baseMint) \in Tokens
  BY ConstantsAssumption DEF Resolve, Mints
<1>2. CASE m.direction = "InternalPartyBuy"
  BY <1>1, <1>2 DEF externalPartySell, externalPartyBuy
<1>3. CASE m.direction = "InternalPartySell"
  BY <1>1, <1>3 DEF externalPartySell, externalPartyBuy
<1> QED BY <1>2, <1>3 DEF Direction

LEMMA ProcessAtomicMatchSettleStep == ASSUME IInv, ProcessAtomicMatchSettle PROVE StepOK
<1>1. PICK o \in WalletOpenings(pool), b \in BlinderChoices(pool), m \in MatchResults,
           r \in RelayerRates, p \in FeeRates, v \in EthValues :
        processAtomicMatchSettle(o.root, o.element, b, m, r, p, v)
  BY DEF ProcessAtomicMatchSettle
<1> DEFINE w == o.element
           sell == externalPartySell(m)
           buy  == externalPartyBuy(m)
           st == Resolve(sell.mint)
           bt == Resolve(buy.mint)
           n == MatchParty(w, b, bt, buy.amount, st, sell.amount, r, p)
           fee == computeFeeTake(r, p, buy.amount)
           d == [t \in Tokens |-> (IF t = st THEN sell.amount ELSE 0)
                                  - (IF t = bt THEN buy.amount ELSE 0)]
<1>2. /\ p = getTokenExternalMatchFeeRate(m.baseMint)
      /\ w.bal[bt] >= buy.amount
      /\ CanRotate(pool, w, o.root, n)
      /\ pool' = Rotate(pool, w, n)
      /\ AtomicTransfers(m, fee, v)
      /\ UNCHANGED config
  BY <1>1 DEF processAtomicMatchSettle, ProtocolFeeRateValid
<1>3. /\ st \in Tokens /\ bt \in Tokens /\ st # bt
      /\ sell.amount \in Nat /\ buy.amount \in Nat
  <2>1. Amounts \subseteq Nat
    BY ConstantsAssumption
  <2> QED BY <2>1, LegsOK DEF MatchResults
<1>4. b \in Blinders /\ v \in Int
  BY ConstantsAssumption DEF BlinderChoices
<1>5. w \in Wallet /\ NonNegative(w)
  BY <1>2, WalletOpened DEF IInv, CanRotate
<1>6. /\ n \in Wallet /\ NonNegative(n)
      /\ \A t \in Tokens : Value(n, t) = Value(w, t) + (IF t = st THEN sell.amount ELSE 0)
                                                     - (IF t = bt THEN buy.amount ELSE 0)
      /\ ChargedAt(RatesInForce, n, w)
  <2>1. p \in RatesInForce
    BY <1>2 DEF MatchResults, RatesInForce
  <2> HIDE DEF w, st, bt, sell, buy
  <2> QED BY <1>2, <1>3, <1>4, <1>5, <2>1, MatchPartyOK
<1>7. /\ \A t \in Tokens : d[t] \in Int /\ custody'[t] = custody[t] + d[t]
      /\ custody' \in [Tokens -> Int] /\ poolEth' \in Int
  <2> HIDE DEF fee
  <2> QED BY <1>2, <1>3, <1>4, AtomicTransfersOK
<1>8. \A t \in Tokens : Value(n, t) = Value(w, t) + d[t]
  <2>1. \A t \in Tokens : Value(w, t) \in Nat
    BY <1>5, ValueNat DEF Element
  <2> HIDE DEF w, n, st, bt, sell, buy
  <2> QED BY <1>3, <1>6, <2>1
<1> HIDE DEF d, n
<1> QED BY <1>2, <1>6, <1>7, <1>8, RotateStep

(* What the validated amounts of a malleable match ask of the internal      *)
(* party is at most what it was proved to hold.                             *)
LEMMA CapitalizedCovers ==
    ASSUME NEW w \in Wallet, NEW bounds \in BoundedMatchResults,
           NEW quote \in Nat, NEW base \in Nat, Capitalized(w, bounds),
           validateBaseAmount(bounds, base), validateQuoteAmount(bounds, quote, base),
           NEW m, m.direction = bounds.direction, m.baseAmount = base,
           m.quoteAmount = quote, m.baseMint = bounds.baseMint,
           m.quoteMint = bounds.quoteMint
    PROVE  externalPartyBuy(m).amount <= w.bal[Resolve(externalPartyBuy(m).mint)]
<1>1. /\ bounds.price \in Nat /\ bounds.maxBaseAmount \in Nat
      /\ bounds.direction \in Direction
      /\ bounds.baseMint \in Mints /\ bounds.quoteMint \in Tokens
  BY ConstantsAssumption DEF BoundedMatchResults
<1>2. Resolve(bounds.quoteMint) = bounds.quoteMint /\ Resolve(bounds.baseMint) \in Tokens
  BY <1>1, ConstantsAssumption DEF Resolve, Mints
<1>3. w.bal[bounds.quoteMint] \in Int /\ w.bal[Resolve(bounds.baseMint)] \in Int
  BY <1>1, <1>2 DEF Wallet
<1>4. base <= bounds.maxBaseAmount
  BY DEF validateBaseAmount
<1>5. CASE bounds.direction = "InternalPartyBuy"
  <2>1. quote <= unsafeFixedPointMul(bounds.price, base)
    BY <1>5 DEF validateQuoteAmount
  <2>2. unsafeFixedPointMul(bounds.price, bounds.maxBaseAmount) <= w.bal[bounds.quoteMint]
    BY <1>5 DEF Capitalized
  <2>3. unsafeFixedPointMul(bounds.price, base)
          <= unsafeFixedPointMul(bounds.price, bounds.maxBaseAmount)
    BY <1>1, <1>4, FixedPointMulMonotone
  <2>4. /\ unsafeFixedPointMul(bounds.price, base) \in Nat
        /\ unsafeFixedPointMul(bounds.price, bounds.maxBaseAmount) \in Nat
    BY <1>1, FixedPointMulNat
  <2>5. quote <= w.bal[bounds.quoteMint]
    BY <1>3, <2>1, <2>2, <2>3, <2>4
  <2> QED BY <1>2, <1>5, <2>5 DEF externalPartyBuy
<1>6. CASE bounds.direction = "InternalPartySell"
  <2>1. bounds.maxBaseAmount <= w.bal[Resolve(bounds.baseMint)]
    BY <1>6 DEF Capitalized
  <2>2. base <= w.bal[Resolve(bounds.baseMint)]
    BY <1>1, <1>3, <1>4, <2>1
  <2> QED BY <1>6, <2>2 DEF externalPartyBuy
<1> QED BY <1>1, <1>5, <1>6 DEF Direction

LEMMA ProcessMalleableAtomicMatchSettleStep ==
    ASSUME IInv, ProcessMalleableAtomicMatchSettle PROVE StepOK
<1>1. PICK o \in WalletOpenings(pool), b \in BlinderChoices(pool),
           bounds \in BoundedMatchResults, base \in Amounts, quote \in Amounts,
           r \in RelayerRates, p \in FeeRates, x \in FeeRates, v \in EthValues :
        processMalleableAtomicMatchSettle(o, b, bounds, quote, base,
            [relayer |-> r, internal |-> p, external |-> x], v)
  BY DEF ProcessMalleableAtomicMatchSettle
<1> DEFINE w == o.element
           m == [baseMint |-> bounds.baseMint, quoteMint |-> bounds.quoteMint,
                 baseAmount |-> base, quoteAmount |-> quote,
                 direction |-> bounds.direction]
           sell == externalPartySell(m)
           buy  == externalPartyBuy(m)
           st == Resolve(sell.mint)
           bt == Resolve(buy.mint)
           fee == computeFeeTake(r, p, sell.amount)
           n == ApplyMatch(w, b, bt, buy.amount, st, sell.amount, fee)
           externalFee == computeFeeTake(r, x, buy.amount)
           d == [t \in Tokens |-> (IF t = st THEN sell.amount ELSE 0)
                                  - (IF t = bt THEN buy.amount ELSE 0)]
<1>2. /\ p = getTokenExternalMatchFeeRate(m.baseMint)
      /\ Capitalized(w, bounds)
      /\ validateBaseAmount(bounds, base) /\ validateQuoteAmount(bounds, quote, base)
      /\ CanRotate(pool, w, o.root, n)
      /\ pool' = Rotate(pool, w, n)
      /\ AtomicTransfers(m, externalFee, v)
      /\ UNCHANGED config
  BY <1>1 DEF processMalleableAtomicMatchSettle, validateAmounts, buildExternalMatchResult,
                ProtocolFeeRateValid
<1>3. b \in Blinders /\ v \in Int /\ base \in Nat /\ quote \in Nat
  BY ConstantsAssumption DEF BlinderChoices
<1>4. /\ st \in Tokens /\ bt \in Tokens /\ st # bt
      /\ sell.amount \in Nat /\ buy.amount \in Nat
  <2>1. /\ m.baseMint \in Mints /\ m.quoteMint \in Tokens
        /\ Resolve(m.baseMint) # m.quoteMint /\ m.direction \in Direction
        /\ m.baseAmount \in Nat /\ m.quoteAmount \in Nat
    BY <1>3 DEF BoundedMatchResults
  <2> HIDE DEF m
  <2> QED BY <2>1, LegsOK
<1>5. w \in Wallet /\ NonNegative(w)
  BY <1>2, WalletOpened DEF IInv, CanRotate
<1>6. buy.amount <= w.bal[bt]
  <2>1. /\ m.direction = bounds.direction /\ m.baseAmount = base /\ m.quoteAmount = quote
        /\ m.baseMint = bounds.baseMint /\ m.quoteMint = bounds.quoteMint
    OBVIOUS
  <2> HIDE DEF m, w
  <2> QED BY <1>2, <1>3, <1>5, <2>1, CapitalizedCovers
<1>7. /\ n \in Wallet /\ NonNegative(n)
      /\ \A t \in Tokens : Value(n, t) = Value(w, t) + (IF t = st THEN sell.amount ELSE 0)
                                                     - (IF t = bt THEN buy.amount ELSE 0)
      /\ ChargedAt(RatesInForce, n, w)
  <2>1. fee.relayer \in Nat /\ fee.protocol \in Nat /\ total(fee) <= sell.amount
    <3> HIDE DEF sell
    <3> QED BY <1>4, StatementFees
  <2> DEFINE bought == buy.amount
             sold   == sell.amount
  <2>2. /\ bought \in Nat /\ sold \in Nat /\ bought <= w.bal[bt] /\ total(fee) <= sold
        /\ n = ApplyMatch(w, b, bt, bought, st, sold, fee)
        /\ fee = computeFeeTake(r, p, sold)
    BY <1>4, <1>6, <2>1
  <2> HIDE DEF w, fee, st, bt, bought, sold, n
  <2>3. /\ n \in Wallet /\ NonNegative(n)
        /\ \A t \in Tokens : Value(n, t) = Value(w, t) + (IF t = st THEN sold ELSE 0)
                                                       - (IF t = bt THEN bought ELSE 0)
    BY <1>3, <1>4, <1>5, <2>1, <2>2, ApplyMatchOK
  <2>4. p \in RatesInForce
    BY <1>2 DEF BoundedMatchResults, RatesInForce
  <2>5. ChargedAt(RatesInForce, n, w)
    BY <1>3, <1>4, <1>5, <2>2, <2>4, MatchCharges
  <2> QED BY <2>3, <2>5 DEF bought, sold
<1>8. /\ \A t \in Tokens : d[t] \in Int /\ custody'[t] = custody[t] + d[t]
      /\ custody' \in [Tokens -> Int] /\ poolEth' \in Int
  <2> HIDE DEF externalFee, m
  <2> QED BY <1>2, <1>3, <1>4, AtomicTransfersOK
<1>9. \A t \in Tokens : Value(n, t) = Value(w, t) + d[t]
  <2>1. \A t \in Tokens : Value(w, t) \in Nat
    BY <1>5, ValueNat DEF Element
  <2> HIDE DEF w, n, st, bt, sell, buy
  <2> QED BY <1>4, <1>7, <2>1
<1> HIDE DEF d, n
<1> QED BY <1>2, <1>7, <1>8, <1>9, RotateStep

LEMMA SettleOfflineFeeStep == ASSUME IInv, SettleOfflineFee PROVE StepOK
<1>1. PICK o \in WalletOpenings(pool), b \in BlinderChoices(pool), mint \in Tokens,
           kind \in {"relayer", "protocol"}, protocolKey \in FeeKeys,
           receiver \in FeeKeys, id \in NoteIds, v \in EthValues :
        settleOfflineFee(o.root, o.element, b, mint, kind, protocolKey, receiver, id, v)
  BY DEF SettleOfflineFee
<1> DEFINE w == o.element
           owed == IF kind = "relayer" THEN w.relayerFee[mint] ELSE w.protocolFee[mint]
           n == FeePaid(w, b, mint, kind)
           note == [mint |-> mint, amount |-> owed, receiver |-> receiver, id |-> id]
           mid == Rotate(pool, w, n)
           d == [t \in Tokens |-> 0]
<1>2. /\ CanRotate(pool, w, o.root, n)
      /\ pool' = InsertLeaf(mid, note)
      /\ poolEth' = poolEth + v
      /\ UNCHANGED <<custody, config>>
  BY <1>1 DEF settleOfflineFee
<1>3. b \in Blinders /\ v \in Int
  BY ConstantsAssumption DEF BlinderChoices
<1>4. w \in Wallet /\ Committed(pool, w) /\ NonNegative(w)
  BY <1>2, WalletOpened DEF IInv, CanRotate
<1>5. /\ n \in Wallet /\ NonNegative(n) /\ owed \in Nat
      /\ \A t \in Tokens : Value(n, t) = Value(w, t) - IF t = mint THEN owed ELSE 0
  <2> HIDE DEF w
  <2> QED BY <1>3, <1>4, FeePaidOK
<1>6. /\ PoolOK(mid)
      /\ \A t \in Tokens : Owed(mid, t) + Value(w, t) <= Owed(pool, t) + Value(n, t)
  <2> HIDE DEF w, n
  <2> QED BY <1>2, <1>4, <1>5, RotateOK DEF IInv
<1>7. /\ note \in Note /\ note \notin Wallet /\ note \in Element /\ NonNegative(note)
      /\ \A t \in Tokens : Value(note, t) = IF t = mint THEN owed ELSE 0
  <2> HIDE DEF owed
  <2>1. note \in Note
    BY <1>5 DEF Note
  <2>2. note \notin Wallet
    BY <2>1, NoteNotWallet
  <2> QED BY <1>5, <2>1, <2>2 DEF Element, NonNegative, Value
<1>8. /\ PoolOK(pool')
      /\ \A t \in Tokens : Owed(pool', t) <= Owed(mid, t) + Value(note, t)
  <2> HIDE DEF mid, note
  <2> QED BY <1>2, <1>6, <1>7, InsertLeafOK
<1>9. ASSUME NEW t \in Tokens PROVE Owed(pool', t) <= Owed(pool, t) + d[t]
  <2>1. Value(w, t) \in Nat
    BY <1>4, ValueNat DEF Element
  <2> HIDE DEF w, owed, n, note, mid
  <2>2. Owed(pool, t) \in Int /\ Owed(mid, t) \in Int /\ Owed(pool', t) \in Int
    BY <1>6, <1>8, OwedInt DEF IInv
  <2>3. Value(n, t) + Value(note, t) = Value(w, t)
        /\ Value(n, t) \in Int /\ Value(note, t) \in Int
    BY <1>5, <1>7, <2>1
  <2> QED BY <1>6, <1>8, <2>1, <2>2, <2>3
<1>10. /\ \A t \in Tokens : d[t] \in Int /\ custody'[t] = custody[t] + d[t]
       /\ custody' \in [Tokens -> Int] /\ poolEth' \in Int /\ UNCHANGED config
  BY <1>2, <1>3 DEF IInv, TypeOK
<1>11. IInv'
  <2> HIDE DEF d
  <2> QED BY <1>8, <1>9, <1>10, ConfigUnchanged, SolventStep
<1>12. /\ Issued(mid) = Issued(pool) \cup {n} /\ w \in Issued(pool)
       /\ SpentBy(mid) = SpentBy(pool) \cup {w} /\ w \notin SpentBy(pool)
       /\ mid.leaves = Append(pool.leaves, n)
       /\ mid.nullifierSet = pool.nullifierSet \cup {Nullifier(w)}
       /\ CanSpend(pool, w) /\ n # w
  <2>1. /\ w \in Issued(pool) /\ PoolOK(pool)
        /\ CanSpend(pool, w) /\ CanMarkBlinder(pool, n.blinder)
    BY <1>2, <1>4 DEF IInv, Committed, Issued, CanRotate
  <2> HIDE DEF w, n
  <2> QED BY <1>2, <1>4, <1>5, <2>1, RotateTrades, FreshWallet
<1>13. /\ Issued(pool') = Issued(mid) \cup {note} /\ SpentBy(pool') = SpentBy(mid)
       /\ pool'.leaves = Append(mid.leaves, note)
       /\ pool'.nullifierSet = mid.nullifierSet
  <2> HIDE DEF mid, note
  <2>1. mid.leaves \in Seq(Element)
    BY <1>6 DEF PoolOK, PoolType
  <2> QED BY <1>2, <2>1, InsertLeafIssues DEF InsertLeaf
<1>14. LedgerStep
  <2>1. /\ n \in Element /\ w \in Element /\ n # Nil /\ w # Nil /\ note # Nil
    BY <1>4, <1>5, <1>7, ConstantsAssumption DEF Element
  <2> HIDE DEF w, owed, n, note, mid
  <2>2. ASSUME NEW t \in Tokens
        PROVE  custody'[t] - custody[t] = Ledger!Worth(n, t) + Ledger!Worth(note, t)
                                          - Ledger!Worth(w, t) - Ledger!Worth(Nil, t)
    <3>1. Value(w, t) \in Nat
      BY <1>4, <2>1, ValueNat
    <3>2. custody'[t] - custody[t] = 0
      BY <1>2 DEF IInv, TypeOK
    <3>3. Value(n, t) + Value(note, t) = Value(w, t)
          /\ Value(n, t) \in Int /\ Value(note, t) \in Int
      BY <1>5, <1>7, <3>1
    <3> QED BY <1>7, <2>1, <3>1, <3>2, <3>3, WorthIs
  <2>3. {w, Nil} \ {Nil} = {w} /\ {n, note} \ {Nil} = {n, note}
    BY <2>1
  <2>4. /\ Issued(pool') = Issued(pool) \cup {n, note} /\ {w} \subseteq Issued(pool')
        /\ SpentBy(pool') = SpentBy(pool) \cup {w} /\ {w} \cap SpentBy(pool) = {}
    BY <1>12, <1>13
  <2>5. Trades(w, Nil, n, note)
    BY <2>1, <2>2, <2>3, <2>4 DEF Trades
  <2> QED BY <2>5, Traded
<1>15. ChargesRateInForce
  <2>1. ChargedAt(RatesInForce, n, w)
    <3>1. \A t \in Tokens :
            /\ w.protocolFee[t] \in Nat
            /\ n.protocolFee[t] = w.protocolFee[t] \/ n.protocolFee[t] = 0
      BY <1>4 DEF FeePaid, Wallet, NonNegative
    <3>2. \A t \in Tokens : ~ (n.protocolFee[t] - w.protocolFee[t] > 0)
      <4> HIDE DEF n, w
      <4> QED BY <3>1
    <3> QED BY <3>2 DEF ChargedAt
  <2> HIDE DEF w, owed, n, note, mid
  <2>2. Created = {n}
    <3>1. pool'.leaves = Append(Append(pool.leaves, n), note)
      BY <1>12, <1>13
    <3>2. Created = {n, note} \cap Wallet
      BY <3>1, Makes
    <3> QED BY <1>5, <1>7, <3>2
  <2>3. Consumed = {w}
    <3>1. pool'.nullifierSet = pool.nullifierSet \cup {Nullifier(w), Nullifier(w)}
      BY <1>12, <1>13
    <3>2. Consumed = {w, w} \cap Wallet
      BY <1>12, <3>1, Consumes
    <3> QED BY <1>4, <3>2
  <2> QED BY <1>12, <2>1, <2>2, <2>3, OneCharged
<1> QED BY <1>11, <1>14, <1>15 DEF StepOK

LEMMA RedeemFeeStep == ASSUME IInv, RedeemFee PROVE StepOK
<1>1. PICK o \in WalletOpenings(pool), b \in BlinderChoices(pool),
           no \in NoteOpenings(pool), signer \in Keys :
        redeemFee(o.root, o.element, signer, b, no.root, no.element)
  BY DEF RedeemFee
<1> DEFINE w == o.element
           note == no.element
           n == Updated(w, w.key, b, note.mint, note.amount)
           mid == Rotate(pool, w, n)
           d == [t \in Tokens |-> 0]
<1>2. /\ CanRotate(pool, w, o.root, n)
      /\ no.root \in mid.rootHistory
      /\ CanSpend(mid, note)
      /\ pool' = Spend(mid, note)
      /\ UNCHANGED <<custody, poolEth, config>>
  BY <1>1 DEF redeemFee, CanSpendNote
<1>3. b \in Blinders
  BY DEF BlinderChoices
<1>4. w \in Wallet /\ Committed(pool, w) /\ NonNegative(w)
  BY <1>2, WalletOpened DEF IInv, CanRotate
<1>5. Committed(pool, note) /\ note \in Note /\ NonNegative(note)
  <2>1. no \in Openings(pool) /\ note \in Note
    BY DEF NoteOpenings
  <2>2. ASSUME \E i \in DOMAIN pool.leaves :
                 no = [element |-> pool.leaves[i], root |-> SubSeq(pool.leaves, 1, i)]
        PROVE  Committed(pool, note)
    <3>1. \E i \in DOMAIN pool.leaves : pool.leaves[i] = note
      BY <2>2
    <3> QED BY <3>1 DEF Committed
  <2>3. ASSUME \E e \in Forged : no = [element |-> e, root |-> <<e>>]
        PROVE  Committed(pool, note)
    <3>1. mid.rootHistory = pool.rootHistory \cup {Append(pool.leaves, n)}
      BY DEF Rotate, InsertLeaf, MarkBlinder, Spend
    <3>2. Len(Append(pool.leaves, n)) > 1
      BY <1>4 DEF Committed, IInv, PoolOK, PoolType
    <3>3. Len(no.root) = 1
      BY <2>3
    <3>4. no.root \in pool.rootHistory
      <4> HIDE DEF mid, n
      <4> QED BY <1>2, <3>1, <3>2, <3>3
    <3>5. PoolOK(pool)
      BY DEF IInv
    <3> HIDE DEF mid, n
    <3> QED BY <2>1, <3>4, <3>5, OpeningCommitted
  <2>4. Committed(pool, note)
    BY <2>1, <2>2, <2>3 DEF Openings
  <2> QED BY <2>1, <2>4 DEF IInv, PoolOK, LeavesNonNegative, Committed
<1>6. note.mint \in Tokens /\ note.amount \in Nat
      /\ \A t \in Tokens : Value(note, t) = IF t = note.mint THEN note.amount ELSE 0
  <2>1. note \notin Wallet /\ note.mint \in Tokens /\ note.amount \in Int
    BY <1>5, NoteNotWallet DEF Note
  <2> HIDE DEF note
  <2> QED BY <1>5, <2>1 DEF NonNegative, Value
<1>7. /\ n \in Wallet /\ NonNegative(n)
      /\ \A t \in Tokens : Value(n, t) = Value(w, t)
                                         + IF t = note.mint THEN note.amount ELSE 0
  <2>1. w.key \in Keys /\ w.bal[note.mint] \in Nat
    BY <1>4, <1>6 DEF Wallet, NonNegative
  <2>2. w.bal[note.mint] + note.amount >= 0 /\ note.amount \in Int
    BY <1>6, <2>1
  <2> HIDE DEF w, note
  <2> QED BY <1>3, <1>4, <1>6, <2>1, <2>2, UpdatedOK
<1>8. /\ PoolOK(mid)
      /\ Committed(mid, note)
      /\ \A t \in Tokens : Owed(mid, t) + Value(w, t) <= Owed(pool, t) + Value(n, t)
  <2> HIDE DEF w, n, note
  <2> QED BY <1>2, <1>4, <1>5, <1>7, RotateOK DEF IInv
<1>9. /\ PoolOK(pool')
      /\ \A t \in Tokens : Owed(pool', t) + Value(note, t) <= Owed(mid, t)
  <2>1. note \in Element
    BY <1>5 DEF Element
  <2> HIDE DEF mid, note
  <2> QED BY <1>2, <1>8, <2>1, SpendOK
<1>10. ASSUME NEW t \in Tokens PROVE Owed(pool', t) <= Owed(pool, t) + d[t]
  <2>1. Value(w, t) \in Nat
    BY <1>4, ValueNat DEF Element
  <2> HIDE DEF w, n, note, mid
  <2>2. Owed(pool, t) \in Int /\ Owed(mid, t) \in Int /\ Owed(pool', t) \in Int
    BY <1>8, <1>9, OwedInt DEF IInv
  <2>3. /\ Value(n, t) = Value(w, t) + Value(note, t)
        /\ Value(n, t) \in Int /\ Value(note, t) \in Int
    BY <1>6, <1>7, <2>1
  <2> QED BY <1>8, <1>9, <2>1, <2>2, <2>3
<1>11. /\ \A t \in Tokens : d[t] \in Int /\ custody'[t] = custody[t] + d[t]
       /\ custody' \in [Tokens -> Int] /\ poolEth' \in Int /\ UNCHANGED config
  BY <1>2 DEF IInv, TypeOK
<1>12. IInv'
  <2> HIDE DEF d
  <2> QED BY <1>9, <1>10, <1>11, ConfigUnchanged, SolventStep
<1>13. /\ Issued(mid) = Issued(pool) \cup {n} /\ w \in Issued(pool)
       /\ SpentBy(mid) = SpentBy(pool) \cup {w} /\ w \notin SpentBy(pool)
       /\ mid.leaves = Append(pool.leaves, n)
       /\ mid.nullifierSet = pool.nullifierSet \cup {Nullifier(w)}
       /\ CanSpend(pool, w) /\ n # w
  <2>1. /\ w \in Issued(pool) /\ PoolOK(pool)
        /\ CanSpend(pool, w) /\ CanMarkBlinder(pool, n.blinder)
    BY <1>2, <1>4 DEF IInv, Committed, Issued, CanRotate
  <2> HIDE DEF w, n
  <2> QED BY <1>2, <1>4, <1>7, <2>1, RotateTrades, FreshWallet
<1>14. /\ Issued(pool') = Issued(mid)
       /\ SpentBy(pool') = SpentBy(mid) \cup {note} /\ note \notin SpentBy(mid)
       /\ note \in Issued(pool)
       /\ pool'.leaves = mid.leaves
       /\ pool'.nullifierSet = mid.nullifierSet \cup {Nullifier(note)}
  <2>1. note \in Element /\ note \in Issued(pool)
    BY <1>5 DEF Element, Committed, Issued
  <2> HIDE DEF mid, note
  <2> QED BY <1>2, <1>8, <2>1, SpendSpends DEF Spend
<1>15. w # note /\ note \notin Wallet
  BY <1>4, <1>5, NoteNotWallet
<1>16. LedgerStep
  <2>1. /\ n \in Element /\ w \in Element /\ note \in Element
        /\ n # Nil /\ w # Nil /\ note # Nil
    BY <1>4, <1>5, <1>7, ConstantsAssumption DEF Element
  <2> HIDE DEF w, n, note, mid
  <2>2. ASSUME NEW t \in Tokens
        PROVE  custody'[t] - custody[t] = Ledger!Worth(n, t) + Ledger!Worth(Nil, t)
                                          - Ledger!Worth(w, t) - Ledger!Worth(note, t)
    <3>1. Value(w, t) \in Nat
      BY <1>4, <2>1, ValueNat
    <3>2. custody'[t] - custody[t] = 0
      BY <1>2 DEF IInv, TypeOK
    <3>3. /\ Value(n, t) = Value(w, t) + Value(note, t)
          /\ Value(n, t) \in Int /\ Value(note, t) \in Int
      BY <1>6, <1>7, <3>1
    <3> QED BY <2>1, <3>1, <3>2, <3>3, WorthIs
  <2>3. {w, note} \ {Nil} = {w, note} /\ {n, Nil} \ {Nil} = {n}
    BY <2>1
  <2>4. /\ Issued(pool') = Issued(pool) \cup {n} /\ {w, note} \subseteq Issued(pool')
        /\ SpentBy(pool') = SpentBy(pool) \cup {w, note}
        /\ {w, note} \cap SpentBy(pool) = {}
    BY <1>13, <1>14
  <2>5. Trades(w, note, n, Nil)
    BY <1>15, <2>2, <2>3, <2>4 DEF Trades
  <2> QED BY <2>5, Traded
<1>17. ChargesRateInForce
  <2>1. ChargedAt(RatesInForce, n, w)
    <3>1. \A t \in Tokens : n.protocolFee[t] = w.protocolFee[t] /\ w.protocolFee[t] \in Int
      BY <1>4 DEF Updated, Wallet
    <3>2. \A t \in Tokens : n.protocolFee[t] - w.protocolFee[t] = 0
      <4> HIDE DEF n, w
      <4> QED BY <3>1
    <3> QED BY <3>2 DEF ChargedAt
  <2> HIDE DEF w, n, note, mid
  <2>2. Created = {n}
    BY <1>7, <1>13, <1>14, Makes
  <2>3. Consumed = {w}
    <3>1. CanSpend(pool, note)
      BY <1>2, <1>13 DEF CanSpend
    <3>2. pool'.nullifierSet = pool.nullifierSet \cup {Nullifier(w), Nullifier(note)}
      BY <1>13, <1>14
    <3>3. Consumed = {w, note} \cap Wallet
      BY <1>13, <3>1, <3>2, Consumes
    <3> QED BY <1>4, <1>15, <3>3
  <2> QED BY <1>13, <2>1, <2>2, <2>3, OneCharged
<1> QED BY <1>12, <1>16, <1>17 DEF StepOK

(* Steps that leave the pool and the tokens alone.                          *)
LEMMA PoolUnchangedStep ==
    ASSUME IInv, UNCHANGED <<pool, custody>>, TypeOK' PROVE StepOK
<1>1. IInv'
  BY DEF IInv, Solvent
<1>2. LedgerStep
  BY DEF LedgerStep, Ledger!vars, Leaves
<1>3. ChargesRateInForce
  BY DEF ChargesRateInForce, Consumed
<1> QED BY <1>1, <1>2, <1>3 DEF StepOK

LEMMA ReceiveStep == ASSUME IInv, Receive PROVE StepOK
<1>1. PICK v \in Donations : receive(v)
  BY DEF Receive
<1>2. v \in Int
  BY ConstantsAssumption
<1>3. TypeOK'
  BY <1>1, <1>2 DEF IInv, TypeOK, receive, config
<1> QED BY <1>1, <1>3, PoolUnchangedStep DEF receive

LEMMA AdministerStep == ASSUME IInv, Administer PROVE StepOK
<1>1. TypeOK /\ Overridable \subseteq Mints
  BY ConstantsAssumption DEF IInv
<1>2. CASE \E rate \in FeeRates : setProtocolFeeRate(rate)
  <2>1. TypeOK' BY <1>1, <1>2 DEF TypeOK, setProtocolFeeRate
  <2> QED BY <1>2, <2>1, PoolUnchangedStep DEF setProtocolFeeRate
<1>3. CASE \E m \in Overridable, rate \in FeeRates : setTokenExternalMatchFeeRate(m, rate)
  <2>1. TypeOK' BY <1>1, <1>3 DEF TypeOK, setTokenExternalMatchFeeRate
  <2> QED BY <1>3, <2>1, PoolUnchangedStep DEF setTokenExternalMatchFeeRate
<1>4. CASE \E m \in Overridable : removeTokenExternalMatchFeeRate(m)
  <2>1. TypeOK' BY <1>1, <1>4 DEF TypeOK, removeTokenExternalMatchFeeRate
  <2> QED BY <1>4, <2>1, PoolUnchangedStep DEF removeTokenExternalMatchFeeRate
<1>5. CASE \E key \in FeeKeys : setProtocolFeeKey(key)
  <2>1. TypeOK' BY <1>1, <1>5 DEF TypeOK, setProtocolFeeKey
  <2> QED BY <1>5, <2>1, PoolUnchangedStep DEF setProtocolFeeKey
<1>6. CASE pause
  <2>1. TypeOK' BY <1>1, <1>6 DEF TypeOK, pause
  <2> QED BY <1>6, <2>1, PoolUnchangedStep DEF pause
<1>7. CASE unpause
  <2>1. TypeOK' BY <1>1, <1>7 DEF TypeOK, unpause
  <2> QED BY <1>7, <2>1, PoolUnchangedStep DEF unpause
<1> QED BY <1>2, <1>3, <1>4, <1>5, <1>6, <1>7 DEF Administer

-----------------------------------------------------------------------------
(* The invariant, and what it implies.                                      *)

LEMMA InitOK == ASSUME Init PROVE IInv
<1>1. PoolOK(pool) /\ pool.leaves = <<>>
  BY DEF Init, EmptyPool, PoolOK, PoolType, RootsCommitted, BlindersMarked,
         BlindersIdentify, SpentCommitted, LeavesNonNegative
<1>2. TypeOK
  <2>1. perTokenFeeOverrides \in [Mints -> FeeRates \cup {0}]
    BY DEF Init
  <2>2. custody \in [Tokens -> Int] /\ poolEth \in Int
    BY DEF Init, NoBalance
  <2>3. protocolFeeRate \in FeeRates /\ protocolFeeKey \in FeeKeys
    BY DEF Init
  <2>4. paused \in BOOLEAN
    BY Zenon DEF Init
  <2> QED BY <1>1, <2>1, <2>2, <2>3, <2>4 DEF TypeOK, PoolOK, PoolType
<1>3. ASSUME NEW t \in Tokens PROVE Owed(pool, t) <= custody[t]
  <2>1. Len(pool.leaves) = 0
    BY <1>1
  <2>2. \A i \in 1..0 : Entitles(pool, t)[i] \in Int
    OBVIOUS
  <2>3. PICK g : Totals(g, Entitles(pool, t), 0)
                 /\ RunningTotal(Entitles(pool, t), 0) = g[0]
    BY <2>2, RunningTotalIsTotal
  <2>4. Owed(pool, t) = 0
    BY <2>1, <2>3 DEF Owed, Totals
  <2> QED BY <2>4 DEF Init, NoBalance
<1> QED BY <1>1, <1>2, <1>3 DEF IInv, Solvent

LEMMA Inductive == ASSUME IInv, [Next]_vars PROVE StepOK
<1>1. CASE Next
  BY <1>1, CreateWalletStep, UpdateWalletStep, ProcessMatchSettleStep,
     ProcessAtomicMatchSettleStep, ProcessMalleableAtomicMatchSettleStep,
     SettleOfflineFeeStep, RedeemFeeStep, ReceiveStep, AdministerStep DEF Next
<1>2. CASE UNCHANGED vars
  <2>1. TypeOK'
    BY <1>2 DEF IInv, TypeOK, vars, config
  <2> QED BY <1>2, <2>1, PoolUnchangedStep DEF vars
<1> QED BY <1>1, <1>2

LEMMA Invariant == Spec => []IInv
<1>1. Init => IInv
  BY InitOK
<1>2. IInv /\ [Next]_vars => IInv'
  BY Inductive DEF StepOK
<1> QED BY <1>1, <1>2, PTL DEF Spec

(* Every variable keeps its type.                                           *)
THEOREM TypeCorrect == Spec => []TypeOK
<1>1. IInv => TypeOK
  BY DEF IInv
<1> QED BY <1>1, Invariant, PTL

(* Whatever the wallets, notes, matches, fees and owner's changes, the      *)
(* contract can pay everything that the unspent leaves entitle to.          *)
THEOREM AlwaysSolvent == Spec => []Solvent
<1>1. IInv => Solvent
  BY DEF IInv
<1> QED BY <1>1, Invariant, PTL

(* No two wallets that are ever committed share a public blinder.           *)
THEOREM BlindersAreUnique == Spec => []BlinderIdentifiesWallet
<1>1. IInv => BlinderIdentifiesWallet
  BY DEF IInv, PoolOK, BlindersIdentify, BlinderIdentifiesWallet, Leaves
<1> QED BY <1>1, Invariant, PTL

(* Nothing is nullified that this contract's tree never held.               *)
THEOREM OnlyCommittedIsSpent == Spec => []SpentWasCommitted
<1>1. IInv => SpentWasCommitted
  BY DEF IInv, PoolOK, SpentCommitted, SpentWasCommitted, Leaves
<1> QED BY <1>1, Invariant, PTL

(* No accepted statement commits a wallet with a negative balance or fee.   *)
THEOREM NeverOverdrawn == Spec => []NoWalletOverdrawn
<1>1. IInv => NoWalletOverdrawn
  BY DEF IInv, PoolOK, LeavesNonNegative, NonNegative, NoWalletOverdrawn, Leaves
<1> QED BY <1>1, Invariant, PTL

(* No fee is charged at a rate that is not in force when it is charged,     *)
(* however long the proof that names the rate has been waiting.             *)
THEOREM ChargedAtRateInForce == Spec => FeesAtRateInForce
<1>1. IInv /\ [Next]_vars => [ChargesRateInForce]_vars
  BY Inductive DEF StepOK
<1> QED BY <1>1, Invariant, PTL DEF Spec, FeesAtRateInForce

LEMMA AtomicLeavesNoEth ==
    ASSUME TypeOK, NEW m, NEW feeTake, NEW v \in Nat, externalPartySell(m).amount \in Nat,
           ValidTxValue(m, v), AtomicTransfers(m, feeTake, v)
    PROVE  poolEth' = poolEth
<1> DEFINE sell == externalPartySell(m)
<1>1. /\ sell.mint = NATIVE => v = sell.amount
      /\ poolEth' = poolEth + v - (IF sell.mint = NATIVE THEN sell.amount ELSE 0)
  BY DEF AtomicTransfers
<1>2. sell.mint = NATIVE \/ v = 0
  BY DEF ValidTxValue
<1>3. poolEth \in Int /\ sell.amount \in Nat
  BY DEF TypeOK
<1> HIDE DEF sell
<1> QED BY <1>1, <1>2, <1>3

(* The ETH that is attached to a match is wrapped or refused; what stays in *)
(* the contract came with a call that moves no tokens (processAtomicMatch-  *)
(* Settle, processMalleableAtomicMatchSettle, executeAtomicMatchTransfers). *)
THEOREM MatchEthIsWrapped == Spec => MatchesLeaveNoEth
<1>1. ASSUME IInv, Next PROVE LeavesNoEth
  <2>0. TypeOK /\ poolEth \in Int /\ EthValues \subseteq Nat /\ Donations \subseteq Nat
        /\ Amounts \subseteq Nat
    BY <1>1, ConstantsAssumption DEF IInv, TypeOK
  <2>1. CASE CreateWallet \/ UpdateWallet \/ ProcessMatchSettle \/ RedeemFee \/ Administer
    <3>1. CreateWallet => poolEth' = poolEth
      BY DEF CreateWallet, createWallet
    <3>5. ASSUME UpdateWallet PROVE poolEth' = poolEth
      <4>1. PICK o \in WalletOpenings(pool), b \in BlinderChoices(pool), x \in Keys, k \in Keys,
                 t \in Tokens, a \in Amounts \cup {0}, sign \in {-1, 1} :
               updateWallet(o.root, o.element, x, k, b, t, sign * a)
        BY <3>5 DEF UpdateWallet
      <4> QED BY <4>1, Zenon DEF updateWallet
    <3>2. ProcessMatchSettle => poolEth' = poolEth
      BY DEF ProcessMatchSettle, processMatchSettle
    <3>3. RedeemFee => poolEth' = poolEth
      BY DEF RedeemFee, redeemFee
    <3>4. Administer => poolEth' = poolEth
      BY DEF Administer, setProtocolFeeRate, setTokenExternalMatchFeeRate,
             removeTokenExternalMatchFeeRate, setProtocolFeeKey, pause, unpause
    <3> QED BY <2>1, <3>1, <3>2, <3>3, <3>4, <3>5 DEF LeavesNoEth
  <2>2. CASE ProcessAtomicMatchSettle
    <3>1. PICK o \in WalletOpenings(pool), b \in BlinderChoices(pool), m \in MatchResults,
               r \in RelayerRates, p \in FeeRates, v \in EthValues :
             processAtomicMatchSettle(o.root, o.element, b, m, r, p, v)
      BY <2>2 DEF ProcessAtomicMatchSettle
    <3>3. /\ ValidTxValue(m, v)
          /\ AtomicTransfers(m, computeFeeTake(r, p, externalPartyBuy(m).amount), v)
      BY <3>1, Zenon DEF processAtomicMatchSettle
    <3>2. externalPartySell(m).amount \in Nat
      BY <2>0 DEF MatchResults, externalPartySell
    <3>4. v \in Nat
      BY <2>0
    <3>5. poolEth' = poolEth
      BY <2>0, <3>2, <3>3, <3>4, AtomicLeavesNoEth
    <3> QED BY <3>5 DEF LeavesNoEth
  <2>3. CASE ProcessMalleableAtomicMatchSettle
    <3>1. PICK o \in WalletOpenings(pool), b \in BlinderChoices(pool),
               bounds \in BoundedMatchResults, base \in Amounts, quote \in Amounts, r \in RelayerRates,
               p \in FeeRates, x \in FeeRates, v \in EthValues :
             processMalleableAtomicMatchSettle(o, b, bounds, quote, base,
                 [relayer |-> r, internal |-> p, external |-> x], v)
      BY <2>3 DEF ProcessMalleableAtomicMatchSettle
    <3> DEFINE m == buildExternalMatchResult(quote, base, bounds)
    <3>3. /\ ValidTxValue(m, v)
          /\ \E feeTake : AtomicTransfers(m, feeTake, v)
      BY <3>1, Zenon DEF processMalleableAtomicMatchSettle
    <3>2. externalPartySell(m).amount \in Nat
      BY <2>0 DEF externalPartySell, buildExternalMatchResult
    <3>4. v \in Nat
      BY <2>0
    <3> HIDE DEF m
    <3>6. PICK feeTake : AtomicTransfers(m, feeTake, v)
      BY <3>3
    <3>5. poolEth' = poolEth
      BY <2>0, <3>2, <3>3, <3>4, <3>6, AtomicLeavesNoEth
    <3> QED BY <3>5 DEF LeavesNoEth
  <2>4. CASE SettleOfflineFee
    <3>1. PICK v \in EthValues : poolEth' = poolEth + v /\ custody' = custody
      BY <2>4 DEF SettleOfflineFee, settleOfflineFee
    <3> QED BY <2>0, <3>1 DEF LeavesNoEth
  <2>5. CASE Receive
    <3>1. PICK v \in Donations : poolEth' = poolEth + v /\ custody' = custody
      BY <2>5 DEF Receive, receive
    <3> QED BY <2>0, <3>1 DEF LeavesNoEth
  <2> QED BY <1>1, <2>1, <2>2, <2>3, <2>4, <2>5 DEF Next
<1>2. IInv /\ [Next]_vars => [LeavesNoEth]_vars
  BY <1>1
<1> QED BY <1>2, Invariant, PTL DEF Spec, MatchesLeaveNoEth

(* The darkpool is a ledger in which nothing is spent twice, nothing is     *)
(* spent that was not issued, and custody moves by the difference in worth. *)
THEOREM RefinesLedger == Spec => ImplementsLedger
<1>1. Init => Ledger!Init
  BY DEF Init, Ledger!Init, EmptyPool, NoBalance, Leaves
<1>2. IInv /\ [Next]_vars => LedgerStep
  BY Inductive DEF StepOK
<1> QED BY <1>1, <1>2, Invariant, PTL DEF Spec, ImplementsLedger, Ledger!Spec, LedgerStep
===============================================================================
