-------------------------- MODULE DarkpoolV2_proofs --------------------------
(***************************************************************************)
(* Proofs about DarkpoolV2, for every value of its constants.  The types    *)
(* come first; then the three parts of the state, each with an invariant of *)
(* its own: the custody with the context of the settlement that moves it,   *)
(* the fills of public intents, and the leaves of state elements with the   *)
(* proofs that vouch for them.                                              *)
(***************************************************************************)
EXTENDS DarkpoolV2, RunningTotals_proofs

State == [openPublicIntents : [Permits -> Nat], spentNonces : SUBSET Nonces,
          leaves : [Lineages -> Nat], nullifiers : SUBSET StateElements,
          custody : [Tokens -> Nat]]

History == [accepted : SUBSET Signatures, filled : [Permits -> Nat],
            got : [Permits -> Nat], fills : [Permits -> Nat],
            opened : [Balances -> Nat], unproved : SUBSET Lineages]

Owners == {p.intent.owner : p \in Permits} \cup {i.owner : i \in PrivateIntents}

Transfers == [account : Owners, mint : Tokens, amount : Nat, type : {"Deposit", "Withdrawal"}]

Contexts == [deposits : Seq(Transfers), withdrawals : Seq(Transfers), proofs : Seq(BOOLEAN),
             transferCapacity : Nat, proofCapacity : Nat]

Settling == [phase : {"bundles", "transfers"}, types : BundleTypes \X BundleTypes,
             obligations : {<<>>} \cup (Obligations \X Obligations), party : 1..2,
             context : Contexts, transfers : Seq(Transfers)]

TypeInv ==
    /\ state \in State /\ history \in History
    /\ before \in [state : State, history : History]
    /\ tx = Idle \/ tx \in Settling
    /\ ~Running => state = before.state /\ history = before.history

-----------------------------------------------------------------------------
(* The leaves, for any state with its history: as many as were nullified    *)
(* for them and opened, a signature opening an intent and a deposit a       *)
(* balance.                                                                 *)
IntentLeaf(i) == [kind |-> "intent", of |-> i]
BalanceLeaf(b) == [kind |-> "balance", of |-> b]
NoteLeaf(b) == [kind |-> "note", of |-> b]

Opens(x, i) ==
    \/ x.signer = i.owner /\ x.digest = CommitmentDigest(i)
    \/ x.digest = RotationDigest(i) /\ \E b \in Balances : x.signer = b.key

Opening(h, i) == {x \in h.accepted : Opens(x, i)}
SpentIn(s, l) == {e \in s.nullifiers : Lineage(e) = l}

Originated(s, h) ==
    /\ IsFiniteSet(s.nullifiers)
    /\ \A i \in PrivateIntents :
         s.leaves[IntentLeaf(i)]
             = Cardinality(SpentIn(s, IntentLeaf(i))) + Cardinality(Opening(h, i))
    /\ \A b \in Balances :
         /\ s.leaves[BalanceLeaf(b)] = Cardinality(SpentIn(s, BalanceLeaf(b))) + h.opened[b]
         /\ s.leaves[NoteLeaf(b)] <= Cardinality(SpentIn(s, BalanceLeaf(b)))

OriginInv == Originated(before.state, before.history) /\ Originated(state, history)

(* The proofs: what one that does not verify has let in, has left this      *)
(* proof in the list.                                                       *)
Invalid(proofs) == \E i \in DOMAIN proofs : ~proofs[i]

ProofInv ==
    /\ before.history.unproved = {}
    /\ Running => history.unproved = {} \/ Invalid(tx.context.proofs)

-----------------------------------------------------------------------------
(* The fills: each property of the history for any state with its history.  *)
SignedIn(h, signer, digest) == {x \in h.accepted : x.signer = signer /\ x.digest = digest}

Authorized(s, h) ==
    \A p \in Permits :
        h.filled[p] + s.openPublicIntents[p]
            = p.intent.amountIn * Cardinality(SignedIn(h, p.intent.owner, p))

Priced(h) ==
    \A p \in Permits :
        h.got[p] * Precision + h.fills[p] * (Precision - 1) >= p.intent.minPrice * h.filled[p]

ObligationsSigned(h, e) == {x \in h.accepted : x.signer = e /\ x.digest \in Obligations}

Cosigned(h, e) ==
    SumFunctionOnSet(h.filled, {p \in Permits : p.executor = e})
        = SumFunctionOnSet([x \in ObligationsSigned(h, e) |-> x.digest.amountIn],
                           ObligationsSigned(h, e))

NoncesOnce(s, h) ==
    /\ IsFiniteSet(h.accepted)
    /\ \A x \in h.accepted : x.nonce \in s.spentNonces
    /\ \A x, y \in h.accepted : x.nonce = y.nonce => x = y

Filling(s, h) ==
    /\ Authorized(s, h)
    /\ Priced(h)
    /\ \A p \in Permits : Cosigned(h, p.executor)
    /\ NoncesOnce(s, h)

FillInv == Filling(before.state, before.history) /\ Filling(state, history)

-----------------------------------------------------------------------------
(* The context, by what the parties so far have put into it, and custody,   *)
(* by the transfers that are done.                                          *)
Num(P) == IF P THEN 1 ELSE 0

Settled(i) == tx.phase = "transfers" \/ i < tx.party
Moving(i) == Settled(i) /\ isNativelySettled(tx.types[i])

IsDeposit(t, o) == t.mint = o.inputToken /\ t.amount = o.amountIn /\ t.type = "Deposit"
IsWithdrawal(t, o) == t.mint = o.outputToken /\ t.amount = o.amountOut /\ t.type = "Withdrawal"

ContextInv ==
    Running =>
        LET context == tx.context
            moving  == Num(Moving(1)) + Num(Moving(2))
        IN  /\ ~PrivateObligation => Compatible(tx.obligations[1], tx.obligations[2])
            /\ \A i \in 1..2 : Moving(i) => ~PrivateObligation
            /\ Len(context.deposits) = moving /\ Len(context.withdrawals) = moving
            /\ Moving(1) => /\ IsDeposit(context.deposits[1], tx.obligations[1])
                            /\ IsWithdrawal(context.withdrawals[1], tx.obligations[1])
            /\ Moving(2) => /\ IsDeposit(context.deposits[moving], tx.obligations[2])
                            /\ IsWithdrawal(context.withdrawals[moving], tx.obligations[2])
            /\ context.transferCapacity
                 = getNumTransfers(tx.types[1]) + getNumTransfers(tx.types[2])
            /\ context.proofCapacity = getNumProofs(tx.types[1]) + getNumProofs(tx.types[2])
            /\ Len(context.proofs)
                 = Num(PrivateObligation)
                   + (IF Settled(1) THEN ProofsPushed(tx.types[1]) ELSE 0)
                   + (IF Settled(2) THEN ProofsPushed(tx.types[2]) ELSE 0)

Effect(t, mint) ==
    IF t.mint # mint THEN 0 ELSE IF t.type = "Deposit" THEN t.amount ELSE 0 - t.amount

(* What the first so many of at most four transfers do to a mint.           *)
MovedBy(list, done, mint) ==
    (IF done >= 1 THEN Effect(list[1], mint) ELSE 0)
    + (IF done >= 2 THEN Effect(list[2], mint) ELSE 0)
    + (IF done >= 3 THEN Effect(list[3], mint) ELSE 0)
    + (IF done >= 4 THEN Effect(list[4], mint) ELSE 0)

Done == Len(TransfersInOrder(tx.context)) - Len(tx.transfers)

CustodyInv ==
    /\ tx.phase = "bundles" => state.custody = before.state.custody
    /\ tx.phase = "transfers" =>
         LET all == TransfersInOrder(tx.context) IN
         /\ Done >= 0
         /\ \A i \in 1..Len(tx.transfers) : tx.transfers[i] = all[i + Done]
         /\ \A t \in Tokens :
              state.custody[t] = before.state.custody[t] + MovedBy(all, Done, t)

-----------------------------------------------------------------------------
(* The types: of what the operations on the state and the context return,   *)
(* and then of every step.                                                  *)

LEMMA ElementTypes ==
    /\ \A e \in StateElements : /\ Updated(e) \in StateElements /\ Lineage(e) \in Lineages
                                /\ Lineage(Updated(e)) = Lineage(e)
    /\ \A i \in PrivateIntents : /\ IntentLeaf(i) \in Lineages
                                 /\ Lineage(Element("intent", i, 1)) = IntentLeaf(i)
    /\ \A b \in Balances : /\ BalanceLeaf(b) \in Lineages /\ NoteLeaf(b) \in Lineages
                           /\ Lineage(Element("balance", b, 1)) = BalanceLeaf(b)
                           /\ \A v : Lineage(Element("note", b, v)) = NoteLeaf(b)
<1>1. ASSUME NEW e \in StateElements
      PROVE  Updated(e) \in StateElements /\ Lineage(e) \in Lineages
             /\ Lineage(Updated(e)) = Lineage(e)
  <2>1. e.version + 1 \in Nat
    BY DEF StateElements
  <2> QED BY <2>1 DEF StateElements, Updated, Lineage, Lineages
<1> QED BY <1>1 DEF Lineages, Lineage, Element, IntentLeaf, BalanceLeaf, NoteLeaf

LEMMA StateTypes ==
    ASSUME NEW s \in State
    PROVE  /\ \A n \in Nonces : SpendNonce(s, n) \in State
           /\ \A e \in StateElements : SpendNullifier(s, e) \in State
           /\ \A e : Lineage(e) \in Lineages => InsertMerkleLeaf(s, e) \in State
           /\ \A t \in Tokens, a \in Nat : Received(s, t, a) \in State
           /\ \A t \in Tokens, a \in Nat : CanPay(s, t, a) => Paid(s, t, a) \in State
           /\ \A p \in Permits, a \in Nat : a <= s.openPublicIntents[p] => Filled(s, p, a) \in State
<1>1. \A n \in Nonces : SpendNonce(s, n) \in State
  BY DEF State, SpendNonce
<1>2. \A e \in StateElements : SpendNullifier(s, e) \in State
  BY DEF State, SpendNullifier
<1>6. ASSUME NEW e, Lineage(e) \in Lineages PROVE InsertMerkleLeaf(s, e) \in State
  <2>1. s.leaves[Lineage(e)] + 1 \in Nat
    BY <1>6 DEF State
  <2> QED BY <1>6, <2>1 DEF State, InsertMerkleLeaf
<1>3. ASSUME NEW t \in Tokens, NEW a \in Nat PROVE Received(s, t, a) \in State
  <2>1. s.custody[t] + a \in Nat
    BY DEF State
  <2> QED BY <2>1 DEF State, Received
<1>4. ASSUME NEW t \in Tokens, NEW a \in Nat, CanPay(s, t, a) PROVE Paid(s, t, a) \in State
  <2>1. s.custody[t] - a \in Nat
    BY <1>4 DEF State, CanPay
  <2> QED BY <2>1 DEF State, Paid
<1>5. ASSUME NEW p \in Permits, NEW a \in Nat, a <= s.openPublicIntents[p]
      PROVE  Filled(s, p, a) \in State
  <2>1. s.openPublicIntents[p] - a \in Nat
    BY <1>5 DEF State
  <2> QED BY <2>1 DEF State, Filled
<1> QED BY <1>1, <1>2, <1>3, <1>4, <1>5, <1>6

LEMMA RotateType ==
    ASSUME NEW s \in State, NEW e \in StateElements
    PROVE  Rotate(s, e) \in State
BY StateTypes, ElementTypes DEF Rotate

LEMMA ContextTypes ==
    ASSUME NEW context \in Contexts
    PROVE  /\ \A proofs \in Seq(BOOLEAN) : pushProofs(context, proofs) \in Contexts
           /\ \A o \in Obligations, owner \in Owners :
                allocateTransfers(context, o, owner) \in Contexts
<1>1. ASSUME NEW proofs \in Seq(BOOLEAN) PROVE pushProofs(context, proofs) \in Contexts
  <2>1. context.proofs \o proofs \in Seq(BOOLEAN)
    BY DEF Contexts
  <2> QED BY <2>1 DEF pushProofs, Contexts
<1>2. ASSUME NEW o \in Obligations, NEW owner \in Owners
      PROVE  allocateTransfers(context, o, owner) \in Contexts
  <2>1. buildPermit2AllowanceDeposit(o, owner) \in Transfers
    BY V2Assumption DEF Transfers, buildPermit2AllowanceDeposit
  <2>2. buildWithdrawalTransfer(o, owner) \in Transfers
    BY V2Assumption DEF Transfers, buildWithdrawalTransfer
  <2>3. /\ Append(context.deposits, buildPermit2AllowanceDeposit(o, owner)) \in Seq(Transfers)
        /\ Append(context.withdrawals, buildWithdrawalTransfer(o, owner)) \in Seq(Transfers)
    BY <2>1, <2>2 DEF Contexts
  <2> QED BY <2>3 DEF allocateTransfers, Contexts
<1> QED BY <1>1, <1>2

LEMMA NewContextType ==
    ASSUME NEW type0 \in BundleTypes, NEW type1 \in BundleTypes
    PROVE  newContext(type0, type1) \in Contexts
<1>1. /\ getNumTransfers(type0) \in Nat /\ getNumTransfers(type1) \in Nat
      /\ getNumProofs(type0) \in Nat /\ getNumProofs(type1) \in Nat
  BY DEF getNumTransfers, getNumProofs
<1> QED BY <1>1 DEF newContext, Contexts

LEMMA SettlingRuns == ASSUME tx' \in Settling PROVE Running'
  BY DEF Settling, Running, Idle

LEMMA ExecutedOK ==
    ASSUME TypeInv, tx \in Settling, tx.phase = "bundles", NEW s \in State,
           NEW context \in Contexts, Executed(s, context)
    PROVE  /\ state' = s /\ before' = before /\ tx' \in Settling
           /\ tx'.types = tx.types /\ tx'.obligations = tx.obligations /\ tx'.context = context
           /\ tx.party = 1 => tx'.phase = "bundles" /\ tx'.party = 2
           /\ tx.party # 1 => /\ tx.party = 2 /\ tx'.phase = "transfers"
                              /\ tx'.transfers = TransfersInOrder(context)
<1>1. TransfersInOrder(context) \in Seq(Transfers)
  BY DEF TransfersInOrder, Contexts
<1>2. /\ tx = [phase |-> tx.phase, types |-> tx.types, obligations |-> tx.obligations,
               party |-> tx.party, context |-> tx.context, transfers |-> tx.transfers]
      /\ tx.types \in BundleTypes \X BundleTypes /\ tx.party \in 1..2
      /\ tx.obligations \in {<<>>} \cup (Obligations \X Obligations)
      /\ tx.transfers \in Seq(Transfers)
  BY DEF Settling
<1>3. CASE tx.party = 1
  <2>1. tx' = [phase |-> "bundles", types |-> tx.types, obligations |-> tx.obligations,
               party |-> 2, context |-> context, transfers |-> tx.transfers]
    BY <1>2, <1>3 DEF Executed
  <2> QED BY <1>2, <1>3, <2>1 DEF Executed, Settling
<1>4. CASE tx.party # 1
  <2>1. tx' = [phase |-> "transfers", types |-> tx.types, obligations |-> tx.obligations,
               party |-> tx.party, context |-> context, transfers |-> TransfersInOrder(context)]
    BY <1>2, <1>4 DEF Executed
  <2> QED BY <1>1, <1>2, <1>4, <2>1 DEF Executed, Settling
<1> QED BY <1>3, <1>4

(* What the operations change, field by field.                              *)
LEMMA Fields ==
    ASSUME NEW s \in State
    PROVE  /\ \A n : LET r == SpendNonce(s, n) IN
                /\ r.spentNonces = s.spentNonces \cup {n} /\ r.custody = s.custody
                /\ r.leaves = s.leaves /\ r.nullifiers = s.nullifiers
                /\ r.openPublicIntents = s.openPublicIntents
           /\ \A e : LET r == SpendNullifier(s, e) IN
                /\ r.nullifiers = s.nullifiers \cup {e} /\ r.leaves = s.leaves
                /\ r.spentNonces = s.spentNonces /\ r.custody = s.custody
                /\ r.openPublicIntents = s.openPublicIntents
           /\ \A e : LET r == InsertMerkleLeaf(s, e) IN
                /\ r.leaves = [s.leaves EXCEPT ![Lineage(e)] = @ + 1] /\ r.nullifiers = s.nullifiers
                /\ r.spentNonces = s.spentNonces /\ r.custody = s.custody
                /\ r.openPublicIntents = s.openPublicIntents
BY DEF State, SpendNonce, SpendNullifier, InsertMerkleLeaf

LEMMA RotateFields ==
    ASSUME NEW s \in State, NEW e \in StateElements
    PROVE  LET r == Rotate(s, e) IN
           /\ r.leaves = [s.leaves EXCEPT ![Lineage(e)] = @ + 1]
           /\ r.nullifiers = s.nullifiers \cup {e}
           /\ r.spentNonces = s.spentNonces /\ r.custody = s.custody
           /\ r.openPublicIntents = s.openPublicIntents
<1>1. SpendNullifier(s, e) \in State
  BY StateTypes
<1>2. Lineage(Updated(e)) = Lineage(e)
  BY ElementTypes
<1> QED BY <1>1, <1>2, Fields DEF Rotate

LEMMA CustodyFields ==
    ASSUME NEW s \in State, NEW t \in Tokens, NEW a \in Nat
    PROVE  \A r \in {Received(s, t, a), Paid(s, t, a)} :
             /\ r.spentNonces = s.spentNonces /\ r.leaves = s.leaves
             /\ r.nullifiers = s.nullifiers /\ r.openPublicIntents = s.openPublicIntents
BY DEF State, Received, Paid

-----------------------------------------------------------------------------
(* What a bundle of any kind does to the state's custody and the context.   *)

Grows(list, longer) ==
    /\ Len(longer) = Len(list) + 1
    /\ \A i \in 1..Len(list) : longer[i] = list[i]

Adds(context, later) ==
    LET type == tx.types[tx.party]
        o    == tx.obligations[tx.party]
    IN  /\ later.transferCapacity = context.transferCapacity
        /\ later.proofCapacity = context.proofCapacity
        /\ Len(later.proofs) = Len(context.proofs) + ProofsPushed(type)
        /\ isNativelySettled(type) =>
             /\ ~PrivateObligation
             /\ Grows(context.deposits, later.deposits)
             /\ Grows(context.withdrawals, later.withdrawals)
             /\ IsDeposit(later.deposits[Len(later.deposits)], o)
             /\ IsWithdrawal(later.withdrawals[Len(later.withdrawals)], o)
        /\ ~isNativelySettled(type) =>
             later.deposits = context.deposits /\ later.withdrawals = context.withdrawals

BundleEffect(s, context) ==
    /\ Executed(s, context)
    /\ s \in State /\ context \in Contexts /\ history' \in History
    /\ s.custody = state.custody
    /\ Adds(tx.context, context)

(* Another list of proofs: it starts with the first.                        *)
Continues(proofs, more) ==
    \A i \in DOMAIN proofs : i \in DOMAIN more /\ more[i] = proofs[i]

LEMMA Pushes ==
    ASSUME NEW context \in Contexts, NEW proofs \in Seq(BOOLEAN)
    PROVE  LET later == pushProofs(context, proofs) IN
           /\ later \in Contexts /\ Len(later.proofs) = Len(context.proofs) + Len(proofs)
           /\ later.deposits = context.deposits /\ later.withdrawals = context.withdrawals
           /\ later.transferCapacity = context.transferCapacity
           /\ later.proofCapacity = context.proofCapacity
           /\ Continues(context.proofs, later.proofs)
           /\ Invalid(proofs) => Invalid(later.proofs)
<1> DEFINE later == pushProofs(context, proofs)
           former == context.proofs
           all == former \o proofs
<1>1. later \in Contexts /\ former \in Seq(BOOLEAN)
  BY ContextTypes DEF Contexts
<1>2. /\ later.proofs = all
      /\ later.deposits = context.deposits /\ later.withdrawals = context.withdrawals
      /\ later.transferCapacity = context.transferCapacity
      /\ later.proofCapacity = context.proofCapacity
  BY DEF pushProofs, Contexts
<1> HIDE DEF later, former
<1>3. /\ Len(all) = Len(former) + Len(proofs) /\ DOMAIN all = 1..(Len(former) + Len(proofs))
      /\ DOMAIN former = 1..Len(former) /\ DOMAIN proofs = 1..Len(proofs)
      /\ Len(former) \in Nat /\ Len(proofs) \in Nat
      /\ \A i \in 1..Len(former) : all[i] = former[i]
      /\ \A i \in 1..Len(proofs) : all[Len(former) + i] = proofs[i]
  BY <1>1
<1> HIDE DEF all
<1>4. Continues(former, all)
  BY <1>3 DEF Continues
<1>5. ASSUME Invalid(proofs) PROVE Invalid(all)
  <2>1. PICK i \in 1..Len(proofs) : ~proofs[i]
    BY <1>3, <1>5 DEF Invalid
  <2>2. Len(former) + i \in 1..(Len(former) + Len(proofs))
    BY <1>3
  <2>3. Len(former) + i \in DOMAIN all /\ all[Len(former) + i] = proofs[i]
    BY <1>3, <2>2
  <2> QED BY <2>1, <2>3 DEF Invalid
<1> QED BY <1>1, <1>2, <1>3, <1>4, <1>5 DEF later, former

LEMMA ProofTypes ==
    /\ \A n \in Nat : \A proofs \in Proofs(n) : proofs \in Seq(BOOLEAN) /\ Len(proofs) = n
    /\ \A v \in Verdicts : <<v>> \in Seq(BOOLEAN) /\ Len(<<v>>) = 1
<1>1. Verdicts \subseteq BOOLEAN
  BY V2Assumption
<1> QED BY <1>1 DEF Proofs

LEMMA InvalidStays ==
    ASSUME NEW p, NEW q, Continues(p, q), Invalid(p)
    PROVE  Invalid(q)
BY DEF Continues, Invalid

LEMMA InvalidPart ==
    ASSUME NEW p \in Seq(BOOLEAN), NEW q \in Seq(BOOLEAN), Invalid(p \o q)
    PROVE  Invalid(p) \/ Invalid(q)
<1>1. /\ Len(p) \in Nat /\ Len(q) \in Nat /\ DOMAIN p = 1..Len(p) /\ DOMAIN q = 1..Len(q)
      /\ DOMAIN (p \o q) = 1..(Len(p) + Len(q))
      /\ \A i \in 1..Len(p) : (p \o q)[i] = p[i]
      /\ \A i \in 1..Len(q) : (p \o q)[Len(p) + i] = q[i]
  OBVIOUS
<1>2. PICK k \in 1..(Len(p) + Len(q)) : ~(p \o q)[k]
  BY <1>1 DEF Invalid
<1>3. CASE k \in 1..Len(p)
  BY <1>1, <1>2, <1>3 DEF Invalid
<1>4. CASE k \notin 1..Len(p)
  <2>1. k - Len(p) \in 1..Len(q) /\ Len(p) + (k - Len(p)) = k
    BY <1>1, <1>4
  <2>2. (p \o q)[k] = q[k - Len(p)]
    BY <1>1, <2>1
  <2> QED BY <1>1, <1>2, <2>1, <2>2 DEF Invalid
<1> QED BY <1>3, <1>4

LEMMA Allocates ==
    ASSUME NEW context \in Contexts, NEW o \in Obligations, NEW owner \in Owners
    PROVE  LET later == allocateTransfers(context, o, owner) IN
           /\ later \in Contexts /\ later.proofs = context.proofs
           /\ later.transferCapacity = context.transferCapacity
           /\ later.proofCapacity = context.proofCapacity
           /\ Grows(context.deposits, later.deposits)
           /\ Grows(context.withdrawals, later.withdrawals)
           /\ IsDeposit(later.deposits[Len(later.deposits)], o)
           /\ IsWithdrawal(later.withdrawals[Len(later.withdrawals)], o)
<1> DEFINE later == allocateTransfers(context, o, owner)
           d == buildPermit2AllowanceDeposit(o, owner)
           w == buildWithdrawalTransfer(o, owner)
<1>1. later \in Contexts
  BY ContextTypes
<1>2. /\ later.proofs = context.proofs
      /\ later.transferCapacity = context.transferCapacity
      /\ later.proofCapacity = context.proofCapacity
      /\ later.deposits = Append(context.deposits, d)
      /\ later.withdrawals = Append(context.withdrawals, w)
  BY DEF allocateTransfers, Contexts
<1>3. context.deposits \in Seq(Transfers) /\ context.withdrawals \in Seq(Transfers)
  BY DEF Contexts
<1>4. IsDeposit(d, o) /\ IsWithdrawal(w, o)
  BY DEF IsDeposit, IsWithdrawal, buildPermit2AllowanceDeposit, buildWithdrawalTransfer
<1> HIDE DEF later, d, w
<1>5. /\ Grows(context.deposits, later.deposits) /\ Grows(context.withdrawals, later.withdrawals)
      /\ later.deposits[Len(later.deposits)] = d /\ later.withdrawals[Len(later.withdrawals)] = w
  BY <1>2, <1>3 DEF Grows
<1> QED BY <1>1, <1>2, <1>4, <1>5 DEF later

PublicEffect(p, m, n) ==
    LET o        == tx.obligations[tx.party]
        cosigned == SpendNonce(state, m)
        opened   == Open(cosigned, p, n)
    IN  /\ tx \in Settling /\ tx.phase = "bundles" /\ o \in Obligations
        /\ cosigned \in State /\ opened \in State
        /\ opened.spentNonces = cosigned.spentNonces
                                \cup IF state.openPublicIntents[p] = 0 THEN {n} ELSE {}
        /\ opened.openPublicIntents
             = IF state.openPublicIntents[p] = 0
               THEN [state.openPublicIntents EXCEPT ![p] = p.intent.amountIn]
               ELSE state.openPublicIntents
        /\ opened.leaves = state.leaves /\ opened.nullifiers = state.nullifiers
        /\ opened.custody = state.custody
        /\ o.amountIn <= opened.openPublicIntents[p]
        /\ BundleEffect(Filled(opened, p, o.amountIn),
                        allocateTransfers(tx.context, o, p.intent.owner))

LEMMA PublicIntentOK ==
    ASSUME TypeInv, NEW p \in Permits, NEW m \in Nonces, NEW n \in Nonces, PublicIntent(p, m, n)
    PROVE  PublicEffect(p, m, n)
<1> DEFINE o        == tx.obligations[tx.party]
           cosigned == SpendNonce(state, m)
           opened   == Open(cosigned, p, n)
           executed == SignatureOf(p.executor, o, m)
           signed   == SignatureOf(p.intent.owner, p, n)
           isNew    == state.openPublicIntents[p] = 0
           context  == allocateTransfers(tx.context, o, p.intent.owner)
<1>1. /\ tx.phase = "bundles" /\ tx.types[tx.party] = "NATIVELY_SETTLED_PUBLIC_INTENT"
      /\ ~PrivateObligation /\ executed \in Signatures
      /\ isNew => signed \in Signatures
      /\ ObligationWithinIntent(opened.openPublicIntents[p], p.intent, o)
      /\ Executed(Filled(opened, p, o.amountIn), context)
      /\ history' = [history EXCEPT
                       !.accepted = @ \cup {executed} \cup (IF isNew THEN {signed} ELSE {}),
                       !.filled[p] = @ + o.amountIn,
                       !.got[p] = @ + o.amountOut,
                       !.fills[p] = @ + 1]
  BY DEF PublicIntent, BundleDue
<1>2. tx \in Settling
  BY <1>1 DEF TypeInv, Idle
<1>3. o \in Obligations /\ tx.context \in Contexts
  BY <1>1, <1>2 DEF Settling, PrivateObligation
<1>4. o.amountIn \in Nat /\ o.amountOut \in Nat /\ p.intent.amountIn \in Nat
  BY <1>3, V2Assumption
<1>5. p.intent.owner \in Owners
  BY DEF Owners
<1> HIDE DEF o, executed, signed
<1>6. /\ cosigned \in State /\ cosigned.openPublicIntents = state.openPublicIntents
      /\ cosigned.leaves = state.leaves /\ cosigned.nullifiers = state.nullifiers
      /\ cosigned.custody = state.custody
      /\ state.openPublicIntents \in [Permits -> Nat]
  BY StateTypes, Fields DEF TypeInv, State
<1> HIDE DEF cosigned
<1>7. /\ opened \in State /\ opened.custody = state.custody
      /\ opened.spentNonces = cosigned.spentNonces \cup IF isNew THEN {n} ELSE {}
      /\ opened.openPublicIntents
           = IF isNew THEN [state.openPublicIntents EXCEPT ![p] = p.intent.amountIn]
             ELSE state.openPublicIntents
      /\ opened.leaves = state.leaves /\ opened.nullifiers = state.nullifiers
  <2>1. CASE isNew
    <3> DEFINE spent == SpendNonce(cosigned, n)
    <3>1. /\ spent \in State /\ spent.custody = state.custody
          /\ spent.spentNonces = cosigned.spentNonces \cup {n}
          /\ spent.openPublicIntents = state.openPublicIntents
          /\ spent.leaves = state.leaves /\ spent.nullifiers = state.nullifiers
      BY <1>6, StateTypes, Fields
    <3>2. opened = [spent EXCEPT !.openPublicIntents[p] = p.intent.amountIn]
      BY <1>6, <2>1 DEF Open
    <3> HIDE DEF spent, opened
    <3> QED BY <1>4, <1>6, <2>1, <3>1, <3>2 DEF State
  <2>2. CASE ~isNew
    <3>1. opened = cosigned
      BY <1>6, <2>2 DEF Open
    <3> HIDE DEF opened
    <3> QED BY <1>6, <2>2, <3>1
  <2> QED BY <2>1, <2>2
<1> HIDE DEF opened, context
<1>8. o.amountIn <= opened.openPublicIntents[p]
  BY <1>1 DEF ObligationWithinIntent
<1>9. /\ Filled(opened, p, o.amountIn) \in State
      /\ Filled(opened, p, o.amountIn).custody = state.custody
  <2>1. Filled(opened, p, o.amountIn) \in State
    BY <1>4, <1>7, <1>8, StateTypes
  <2>2. Filled(opened, p, o.amountIn).custody = opened.custody
    BY <1>7 DEF Filled, State
  <2> QED BY <1>7, <2>1, <2>2
<1>10. history' \in History
  <2>1. /\ history.filled[p] + o.amountIn \in Nat /\ history.got[p] + o.amountOut \in Nat
        /\ history.fills[p] + 1 \in Nat
    BY <1>4 DEF TypeInv, History
  <2>2. history.accepted \cup {executed} \cup (IF isNew THEN {signed} ELSE {})
           \in SUBSET Signatures
    BY <1>1 DEF TypeInv, History
  <2>3. /\ [history.filled EXCEPT ![p] = @ + o.amountIn] \in [Permits -> Nat]
        /\ [history.got EXCEPT ![p] = @ + o.amountOut] \in [Permits -> Nat]
        /\ [history.fills EXCEPT ![p] = @ + 1] \in [Permits -> Nat]
    BY <2>1 DEF TypeInv, History
  <2>4. history' = [accepted |-> history.accepted \cup {executed}
                                  \cup (IF isNew THEN {signed} ELSE {}),
                     filled   |-> [history.filled EXCEPT ![p] = @ + o.amountIn],
                     got      |-> [history.got EXCEPT ![p] = @ + o.amountOut],
                     fills    |-> [history.fills EXCEPT ![p] = @ + 1],
                     opened   |-> history.opened,
                     unproved |-> history.unproved]
    BY <1>1 DEF TypeInv, History
  <2>5. history.opened \in [Balances -> Nat] /\ history.unproved \in SUBSET Lineages
    BY DEF TypeInv, History
  <2> HIDE DEF isNew
  <2> QED BY <2>2, <2>3, <2>4, <2>5 DEF History
<1>11. context \in Contexts /\ Adds(tx.context, context)
  <2>1. context \in Contexts
    BY <1>1, <1>3, <1>5, Allocates DEF context, isNativelySettled, o, Contexts
  <2>2. Adds(tx.context, context)
    BY <1>1, <1>3, <1>5, Allocates DEF context, Adds, ProofsPushed, isNativelySettled, o, Contexts
  <2> QED BY <2>1, <2>2
<1>12. BundleEffect(Filled(opened, p, o.amountIn), context)
  BY <1>1, <1>9, <1>10, <1>11 DEF BundleEffect
<1> QED BY <1>1, <1>2, <1>3, <1>6, <1>7, <1>8, <1>12
        DEF o, opened, cosigned, context, PublicEffect

(* A bundle with private state: what it is accepted with, and, as long as   *)
(* the shared proof of a private obligation is in its place, the proof that *)
(* it leaves in the list when it is not proved.                             *)
Kept == /\ history'.filled = history.filled /\ history'.got = history.got
        /\ history'.fills = history.fills /\ history'.opened = history.opened

SharedIsThere == PrivateObligation => Len(tx.context.proofs) >= 1

PrivateStep(s, signatures) ==
    /\ history'.accepted = history.accepted \cup signatures /\ Kept
    /\ \E context :
         /\ BundleEffect(s, context)
         /\ Continues(tx.context.proofs, context.proofs)
         /\ SharedIsThere => history'.unproved = history.unproved \/ Invalid(context.proofs)

LEMMA RecordedOK ==
    ASSUME TypeInv, NEW signatures \in SUBSET Signatures, NEW lineages \in SUBSET Lineages,
           NEW proofs, Recorded(signatures, lineages, proofs)
    PROVE  /\ history' \in History /\ Kept
           /\ history'.accepted = history.accepted \cup signatures
           /\ history'.unproved = history.unproved \/ Invalid(proofs)
<1>1. history \in History
  BY DEF TypeInv
<1>2. history' = [accepted |-> history.accepted \cup signatures, filled |-> history.filled,
                  got |-> history.got, fills |-> history.fills, opened |-> history.opened,
                  unproved |-> IF Invalid(proofs) THEN history.unproved \cup lineages
                               ELSE history.unproved]
  BY <1>1 DEF Recorded, Invalid, History
<1> QED BY <1>1, <1>2 DEF History, Kept

LEMMA NativePrivateOK ==
    ASSUME TypeInv, NEW intent \in PrivateIntents, NEW s \in State, s.custody = state.custody,
           NEW signatures \in SUBSET Signatures, NativePrivate(intent, s, signatures)
    PROVE  PrivateStep(s, signatures)
<1> DEFINE o  == tx.obligations[tx.party]
           l  == {[kind |-> "intent", of |-> intent]}
<1>1. PICK proofs \in Proofs(2) :
        /\ tx.phase = "bundles" /\ tx.types[tx.party] = "NATIVELY_SETTLED_PRIVATE_INTENT"
        /\ ~PrivateObligation
        /\ Executed(s, allocateTransfers(pushProofs(tx.context, proofs), o, intent.owner))
        /\ Recorded(signatures, l, proofs)
  BY DEF NativePrivate, BundleDue
<1> DEFINE c1 == pushProofs(tx.context, proofs)
           c2 == allocateTransfers(c1, o, intent.owner)
<1>2. tx \in Settling
  BY <1>1 DEF TypeInv, Idle
<1>3. /\ o \in Obligations /\ tx.context \in Contexts /\ Len(tx.context.proofs) \in Nat
      /\ intent.owner \in Owners
      /\ l \in SUBSET Lineages /\ proofs \in Seq(BOOLEAN) /\ Len(proofs) = 2
  <2>1. o \in Obligations /\ tx.context \in Contexts
    BY <1>1, <1>2 DEF Settling, PrivateObligation
  <2>2. Len(tx.context.proofs) \in Nat
    BY <2>1 DEF Contexts
  <2>3. intent.owner \in Owners
    BY DEF Owners
  <2>4. l \in SUBSET Lineages
    BY DEF Lineages
  <2> QED BY <2>1, <2>2, <2>3, <2>4, ProofTypes
<1>4. Executed(s, c2) /\ Recorded(signatures, l, proofs)
  BY <1>1
<1> HIDE DEF o, c1, c2, l
<1>5. /\ c1 \in Contexts /\ Len(c1.proofs) = Len(tx.context.proofs) + 2
      /\ c1.deposits = tx.context.deposits /\ c1.withdrawals = tx.context.withdrawals
      /\ c1.transferCapacity = tx.context.transferCapacity
      /\ c1.proofCapacity = tx.context.proofCapacity
      /\ Continues(tx.context.proofs, c1.proofs)
      /\ Invalid(proofs) => Invalid(c1.proofs)
  BY <1>3, Pushes DEF c1
<1>6. /\ c2 \in Contexts /\ c2.proofs = c1.proofs
      /\ c2.transferCapacity = c1.transferCapacity /\ c2.proofCapacity = c1.proofCapacity
      /\ Grows(c1.deposits, c2.deposits) /\ Grows(c1.withdrawals, c2.withdrawals)
      /\ IsDeposit(c2.deposits[Len(c2.deposits)], o)
      /\ IsWithdrawal(c2.withdrawals[Len(c2.withdrawals)], o)
  BY <1>3, <1>5, Allocates DEF c2
<1>7. Adds(tx.context, c2)
  BY <1>1, <1>3, <1>5, <1>6 DEF Adds, ProofsPushed, isNativelySettled, o
<1>8. /\ history' \in History /\ Kept /\ history'.accepted = history.accepted \cup signatures
      /\ history'.unproved = history.unproved \/ Invalid(proofs)
  BY <1>3, <1>4, RecordedOK
<1>9. BundleEffect(s, c2)
  BY <1>4, <1>6, <1>7, <1>8 DEF BundleEffect
<1> QED BY <1>5, <1>6, <1>8, <1>9 DEF PrivateStep

LEMMA RenegadeSettledOK ==
    ASSUME TypeInv, NEW s \in State, s.custody = state.custody,
           NEW signatures \in SUBSET Signatures, NEW b \in StateElements,
           NEW i \in PrivateIntents, RenegadeSettled(s, signatures, b, i)
    PROVE  PrivateStep(s, signatures)
<1> DEFINE l == {Lineage(b), [kind |-> "intent", of |-> i]}
           shared == <<tx.context.proofs[1]>>
<1>1. tx.phase = "bundles"
  BY DEF RenegadeSettled, RenegadeSettledIntent, RenegadeSettledPrivateFill, BundleDue
<1>2. tx \in Settling /\ tx.context \in Contexts /\ Len(tx.context.proofs) \in Nat
      /\ tx.context.proofs \in Seq(BOOLEAN)
  BY <1>1 DEF TypeInv, Idle, Settling, Contexts
<1>3. l \in SUBSET Lineages
  BY ElementTypes DEF IntentLeaf
<1>4. ASSUME NEW proofs \in Seq(BOOLEAN),
             Len(proofs) = ProofsPushed(tx.types[tx.party]),
             ~isNativelySettled(tx.types[tx.party]),
             Executed(s, pushProofs(tx.context, proofs)),
             NEW all, Recorded(signatures, l, all),
             SharedIsThere /\ Invalid(all) => Invalid(tx.context.proofs) \/ Invalid(proofs)
      PROVE  PrivateStep(s, signatures)
  <2> DEFINE c == pushProofs(tx.context, proofs)
  <2>1. /\ c \in Contexts /\ Len(c.proofs) = Len(tx.context.proofs) + Len(proofs)
        /\ c.deposits = tx.context.deposits /\ c.withdrawals = tx.context.withdrawals
        /\ c.transferCapacity = tx.context.transferCapacity
        /\ c.proofCapacity = tx.context.proofCapacity
        /\ Continues(tx.context.proofs, c.proofs)
        /\ Invalid(proofs) => Invalid(c.proofs)
    BY <1>2, Pushes
  <2>2. Executed(s, c)
    BY <1>4
  <2> HIDE DEF c
  <2>3. Adds(tx.context, c)
    BY <1>4, <2>1 DEF Adds
  <2>4. /\ history' \in History /\ Kept
        /\ history'.accepted = history.accepted \cup signatures
        /\ history'.unproved = history.unproved \/ Invalid(all)
    <3> HIDE DEF l
    <3> QED BY <1>3, <1>4, RecordedOK
  <2>5. BundleEffect(s, c)
    BY <2>1, <2>2, <2>3, <2>4 DEF BundleEffect
  <2>6. SharedIsThere /\ Invalid(all) => Invalid(c.proofs)
    BY <1>4, <2>1, InvalidStays
  <2> QED BY <2>1, <2>4, <2>5, <2>6 DEF PrivateStep
<1>5. CASE RenegadeSettledIntent(s, signatures, l)
  <2>1. PICK proofs \in Proofs(2) : /\ Executed(s, pushProofs(tx.context, proofs))
                                    /\ Recorded(signatures, l, proofs)
    BY <1>5 DEF RenegadeSettledIntent
  <2>2. tx.types[tx.party] = "RENEGADE_SETTLED_INTENT"
    BY <1>5 DEF RenegadeSettledIntent, BundleDue
  <2>3. proofs \in Seq(BOOLEAN) /\ Len(proofs) = 2
    BY ProofTypes
  <2> HIDE DEF l
  <2> QED BY <1>4, <2>1, <2>2, <2>3 DEF ProofsPushed, isNativelySettled
<1>6. CASE RenegadeSettledPrivateFill(s, signatures, l)
  <2>1. PICK proofs \in Proofs(1) : /\ Executed(s, pushProofs(tx.context, proofs))
                                    /\ Recorded(signatures, l, shared \o proofs)
    BY <1>6 DEF RenegadeSettledPrivateFill
  <2>2. tx.types[tx.party] = "RENEGADE_SETTLED_PRIVATE_FILL" /\ PrivateObligation
    BY <1>6 DEF RenegadeSettledPrivateFill, BundleDue
  <2>3. proofs \in Seq(BOOLEAN) /\ Len(proofs) = 1
    BY ProofTypes
  <2>4. ASSUME SharedIsThere, Invalid(shared \o proofs)
        PROVE  Invalid(tx.context.proofs) \/ Invalid(proofs)
    <3>1. Len(tx.context.proofs) >= 1 /\ DOMAIN tx.context.proofs = 1..Len(tx.context.proofs)
      BY <1>2, <2>2, <2>4 DEF SharedIsThere
    <3>2. tx.context.proofs[1] \in BOOLEAN /\ 1 \in DOMAIN tx.context.proofs
      BY <1>2, <3>1
    <3>3. shared \in Seq(BOOLEAN) /\ Len(shared) = 1 /\ shared[1] = tx.context.proofs[1]
      BY <3>2
    <3> HIDE DEF shared
    <3>4. Invalid(shared) \/ Invalid(proofs)
      BY <2>3, <2>4, <3>3, InvalidPart
    <3>5. Invalid(shared) => ~shared[1]
      <4>1. DOMAIN shared = 1..1
        BY <3>3
      <4>2. \A j \in 1..1 : j = 1
        OBVIOUS
      <4> QED BY <4>1, <4>2 DEF Invalid
    <3> QED BY <3>2, <3>3, <3>4, <3>5 DEF Invalid
  <2> HIDE DEF l, shared
  <2> QED BY <1>4, <2>1, <2>2, <2>3, <2>4 DEF ProofsPushed, isNativelySettled
<1> QED BY <1>5, <1>6 DEF RenegadeSettled

LEMMA NamedElement ==
    ASSUME NEW kind, NEW e \in Nameable(kind)
    PROVE  e \in StateElements /\ e.kind = kind
BY V2Assumption DEF Nameable

LEMMA IntentElement ==
    ASSUME NEW e \in StateElements
    PROVE  /\ e.kind = "intent" => e.of \in PrivateIntents /\ Lineage(e) = IntentLeaf(e.of)
           /\ e.kind = "balance" => e.of \in Balances /\ Lineage(e) = BalanceLeaf(e.of)
BY DEF StateElements, Lineage, IntentLeaf, BalanceLeaf

LEMMA NativeFirstFillOK ==
    ASSUME TypeInv, NEW i \in PrivateIntents, NEW n \in Nonces, NativePrivateFirstFill(i, n)
    PROVE  PrivateStep(InsertMerkleLeaf(SpendNonce(state, n), Element("intent", i, 1)),
                       {SignatureOf(i.owner, CommitmentDigest(i), n)})
<1> DEFINE spent == SpendNonce(state, n)
           s     == InsertMerkleLeaf(spent, Element("intent", i, 1))
           x     == SignatureOf(i.owner, CommitmentDigest(i), n)
<1>1. state \in State
  BY DEF TypeInv
<1>2. spent \in State /\ spent.custody = state.custody
  BY <1>1, StateTypes, Fields
<1>3. s \in State /\ s.custody = state.custody
  <2> HIDE DEF spent
  <2> QED BY <1>2, StateTypes, ElementTypes, Fields
<1>4. NativePrivate(i, s, {x}) /\ x \in Signatures
  BY DEF NativePrivateFirstFill
<1> HIDE DEF s, x
<1>5. {x} \in SUBSET Signatures
  BY <1>4
<1>6. PrivateStep(s, {x})
  BY <1>3, <1>4, <1>5, NativePrivateOK
<1> QED BY <1>6 DEF s, x

LEMMA NativeFillOK ==
    ASSUME TypeInv, NEW e \in Nameable("intent"), NativePrivateFill(e)
    PROVE  PrivateStep(Rotate(state, e), {})
<1> DEFINE s == Rotate(state, e)
<1>1. state \in State /\ e \in StateElements /\ e.of \in PrivateIntents
  BY NamedElement, IntentElement DEF TypeInv
<1>2. s \in State /\ s.custody = state.custody
  BY <1>1, RotateType, RotateFields
<1>3. NativePrivate(e.of, s, {}) /\ {} \in SUBSET Signatures
  BY DEF NativePrivateFill, Rotate
<1> HIDE DEF s
<1>4. PrivateStep(s, {})
  BY <1>1, <1>2, <1>3, NativePrivateOK
<1> QED BY <1>4 DEF s

LEMMA RenegadeFirstFillOK ==
    ASSUME TypeInv, NEW b \in Nameable("balance"), NEW i \in PrivateIntents, NEW n \in Nonces,
           RenegadeFirstFill(b, i, n)
    PROVE  PrivateStep(RotateAndInsert(SpendNonce(state, n), b, Element("intent", i, 1)),
                       {SignatureOf(b.of.key, RotationDigest(i), n)})
<1> DEFINE spent == SpendNonce(state, n)
           moved == Rotate(spent, b)
           s     == RotateAndInsert(spent, b, Element("intent", i, 1))
           x     == SignatureOf(b.of.key, RotationDigest(i), n)
<1>1. state \in State /\ b \in StateElements
  BY NamedElement DEF TypeInv
<1>2. spent \in State /\ spent.custody = state.custody
  BY <1>1, StateTypes, Fields
<1> HIDE DEF spent
<1>3. moved \in State /\ moved.custody = state.custody
  BY <1>1, <1>2, RotateType, RotateFields
<1> HIDE DEF moved
<1>4. s \in State /\ s.custody = state.custody
  BY <1>3, StateTypes, ElementTypes, Fields DEF RotateAndInsert, moved
<1>5. RenegadeSettled(s, {x}, b, i) /\ x \in Signatures
  BY DEF RenegadeFirstFill, spent
<1> HIDE DEF s, x
<1>6. {x} \in SUBSET Signatures
  BY <1>5
<1>7. PrivateStep(s, {x})
  BY <1>1, <1>4, <1>5, <1>6, RenegadeSettledOK
<1> QED BY <1>7 DEF s, spent, x

LEMMA RenegadeFillOK ==
    ASSUME TypeInv, NEW b \in Nameable("balance"), NEW e \in Nameable("intent"),
           RenegadeFill(b, e)
    PROVE  PrivateStep(RotateBoth(state, b, e), {})
<1> DEFINE moved == Rotate(state, b)
           s     == RotateBoth(state, b, e)
<1>1. state \in State /\ b \in StateElements /\ e \in StateElements /\ e.of \in PrivateIntents
  BY NamedElement, IntentElement DEF TypeInv
<1>2. moved \in State /\ moved.custody = state.custody
  BY <1>1, RotateType, RotateFields
<1> HIDE DEF moved
<1>3. s \in State /\ s.custody = state.custody
  BY <1>1, <1>2, RotateType, RotateFields DEF RotateBoth, moved
<1>4. RenegadeSettled(s, {}, b, e.of) /\ {} \in SUBSET Signatures
  BY DEF RenegadeFill
<1> HIDE DEF s
<1>5. PrivateStep(s, {})
  BY <1>1, <1>3, <1>4, RenegadeSettledOK
<1> QED BY <1>5 DEF s

LEMMA PrivateStepEffect ==
    ASSUME TypeInv, tx \in Settling, tx.phase = "bundles", NEW s, NEW signatures,
           PrivateStep(s, signatures)
    PROVE  /\ state' = s /\ state' \in State /\ before' = before /\ tx' \in Settling
           /\ history'.accepted = history.accepted \cup signatures /\ Kept
           /\ Continues(tx.context.proofs, tx'.context.proofs)
           /\ SharedIsThere => history'.unproved = history.unproved
                                \/ Invalid(tx'.context.proofs)
<1>1. PICK context :
        /\ BundleEffect(s, context)
        /\ Continues(tx.context.proofs, context.proofs)
        /\ SharedIsThere => history'.unproved = history.unproved \/ Invalid(context.proofs)
  BY DEF PrivateStep
<1> QED BY <1>1, ExecutedOK DEF BundleEffect, PrivateStep

(* In common to all bundles.                                                *)
LEMMA BundleOK ==
    ASSUME TypeInv, ExecuteSettlementBundle
    PROVE  /\ tx \in Settling /\ tx.phase = "bundles"
           /\ \E s, context : BundleEffect(s, context)
<1>1. \E s, context : BundleEffect(s, context)
  <2>1. ASSUME NEW p \in Permits, NEW m \in Nonces, NEW n \in Nonces, PublicIntent(p, m, n)
        PROVE  \E s, context : BundleEffect(s, context)
    BY <2>1, PublicIntentOK DEF PublicEffect
  <2>2. ASSUME NEW s, NEW signatures, PrivateStep(s, signatures)
        PROVE  \E r, context : BundleEffect(r, context)
    BY <2>2 DEF PrivateStep
  <2>3. ASSUME NEW i \in PrivateIntents, NEW n \in Nonces, NativePrivateFirstFill(i, n)
        PROVE  \E s, context : BundleEffect(s, context)
    BY <2>2, <2>3, NativeFirstFillOK
  <2>4. ASSUME NEW e \in Nameable("intent"), NativePrivateFill(e)
        PROVE  \E s, context : BundleEffect(s, context)
    BY <2>2, <2>4, NativeFillOK
  <2>5. ASSUME NEW b \in Nameable("balance"), NEW i \in PrivateIntents, NEW n \in Nonces,
               RenegadeFirstFill(b, i, n)
        PROVE  \E s, context : BundleEffect(s, context)
    BY <2>2, <2>5, RenegadeFirstFillOK
  <2>6. ASSUME NEW b \in Nameable("balance"), NEW e \in Nameable("intent"), RenegadeFill(b, e)
        PROVE  \E s, context : BundleEffect(s, context)
    BY <2>2, <2>6, RenegadeFillOK
  <2> QED BY <2>1, <2>3, <2>4, <2>5, <2>6 DEF ExecuteSettlementBundle
<1>2. tx.phase = "bundles"
  <2>1. \A p, m, n : PublicIntent(p, m, n) => tx.phase = "bundles"
    BY DEF PublicIntent, BundleDue
  <2>2. \A i, s, signatures : NativePrivate(i, s, signatures) => tx.phase = "bundles"
    BY DEF NativePrivate, BundleDue
  <2>3. \A s, signatures, b, i : RenegadeSettled(s, signatures, b, i) => tx.phase = "bundles"
    BY DEF RenegadeSettled, RenegadeSettledIntent, RenegadeSettledPrivateFill, BundleDue
  <2> QED BY <2>1, <2>2, <2>3
          DEF ExecuteSettlementBundle, NativePrivateFirstFill, NativePrivateFill,
              RenegadeFirstFill, RenegadeFill
<1>3. tx \in Settling
  BY <1>2 DEF TypeInv, Idle
<1> QED BY <1>1, <1>2, <1>3

-----------------------------------------------------------------------------
(* The other steps, and the types.                                          *)

LEMMA SettleMatchOK ==
    ASSUME TypeInv, NEW type0 \in Offered, NEW type1 \in Offered,
           NEW obligations \in {<<>>} \cup (Obligations \X Obligations),
           SettleMatch(type0, type1, obligations)
    PROVE  /\ ~Running /\ UNCHANGED <<state, history, before>>
           /\ tx' \in Settling /\ tx'.phase = "bundles" /\ tx'.party = 1
           /\ tx'.types = <<type0, type1>> /\ tx'.obligations = obligations
           /\ \E shared \in Verdicts :
                tx'.context = IF obligations = <<>>
                              THEN pushProofs(newContext(type0, type1), <<shared>>)
                              ELSE newContext(type0, type1)
           /\ obligations # <<>> => Compatible(obligations[1], obligations[2])
<1> DEFINE c0 == newContext(type0, type1)
<1>3. PICK shared \in Verdicts :
        /\ ~Running /\ UNCHANGED <<state, history, before>>
        /\ obligations # <<>> => Compatible(obligations[1], obligations[2])
        /\ tx' = [phase |-> "bundles", types |-> <<type0, type1>>, obligations |-> obligations,
                  party |-> 1, transfers |-> <<>>,
                  context |-> IF obligations = <<>> THEN pushProofs(c0, <<shared>>) ELSE c0]
  BY DEF SettleMatch
<1> DEFINE c1 == IF obligations = <<>> THEN pushProofs(c0, <<shared>>) ELSE c0
<1>1. c0 \in Contexts /\ type0 \in BundleTypes /\ type1 \in BundleTypes
  BY NewContextType, V2Assumption
<1>2. c1 \in Contexts
  BY <1>1, ContextTypes, ProofTypes
<1> HIDE DEF c1
<1>5. tx' = [phase |-> "bundles", types |-> <<type0, type1>>, obligations |-> obligations,
            party |-> 1, transfers |-> <<>>, context |-> c1]
  BY <1>3 DEF c1
<1>4. tx' \in Settling
  BY <1>1, <1>2, <1>5 DEF Settling
<1> QED BY <1>3, <1>4, <1>5 DEF c1

LEMMA SettleOK ==
    ASSUME Settle
    PROVE  \E type0, type1 \in Offered, obligations \in {<<>>} \cup (Obligations \X Obligations) :
               SettleMatch(type0, type1, obligations)
<1>1. PICK type0 \in Offered, type1 \in Offered :
        \/ SettleMatch(type0, type1, <<>>)
        \/ \E o0, o1 \in Obligations : SettleMatch(type0, type1, <<o0, o1>>)
  BY DEF Settle
<1>2. CASE SettleMatch(type0, type1, <<>>)
  BY <1>2
<1>3. CASE \E o0, o1 \in Obligations : SettleMatch(type0, type1, <<o0, o1>>)
  <2>1. PICK o0 \in Obligations, o1 \in Obligations : SettleMatch(type0, type1, <<o0, o1>>)
    BY <1>3
  <2>2. <<o0, o1>> \in Obligations \X Obligations
    OBVIOUS
  <2> QED BY <2>1, <2>2
<1> QED BY <1>1, <1>2, <1>3

(* A transfer that is executed moves what it names, all of it.              *)
LEMMA TransferOK ==
    ASSUME TypeInv, ExecuteTransfer
    PROVE  LET t == Head(tx.transfers) IN
           /\ tx \in Settling /\ tx.phase = "transfers" /\ tx.transfers # <<>> /\ t \in Transfers
           /\ tx' \in Settling /\ tx'.phase = "transfers" /\ tx'.transfers = Tail(tx.transfers)
           /\ tx'.types = tx.types /\ tx'.obligations = tx.obligations
           /\ tx'.party = tx.party /\ tx'.context = tx.context
           /\ UNCHANGED <<history, before>> /\ state' \in State
           /\ \A m \in Tokens : state'.custody[m] = state.custody[m] + Effect(t, m)
           /\ state'.spentNonces = state.spentNonces /\ state'.leaves = state.leaves
           /\ state'.nullifiers = state.nullifiers
           /\ state'.openPublicIntents = state.openPublicIntents
<1> DEFINE t == Head(tx.transfers)
           delivered == Delivered(t.mint, t.amount % AllowanceSize)
<1>1. /\ tx.phase = "transfers" /\ tx.transfers # <<>>
      /\ \/ t.amount = 0 /\ state' = state
         \/ /\ t.amount > 0 /\ t.type = "Deposit" /\ delivered = t.amount
            /\ state' = Received(state, t.mint, delivered)
         \/ /\ t.amount > 0 /\ t.type = "Withdrawal"
            /\ CanPay(state, t.mint, t.amount)
            /\ state' = Paid(state, t.mint, t.amount)
      /\ tx' = [tx EXCEPT !.transfers = Tail(@)]
      /\ UNCHANGED <<history, before>>
  BY DEF ExecuteTransfer, ReceivedAsExpected
<1>2. tx \in Settling
  BY <1>1 DEF TypeInv, Idle
<1>3. tx.transfers \in Seq(Transfers) /\ t \in Transfers /\ Tail(tx.transfers) \in Seq(Transfers)
  BY <1>1, <1>2 DEF Settling
<1>4. /\ tx' \in Settling /\ tx'.phase = tx.phase /\ tx'.transfers = Tail(tx.transfers)
      /\ tx'.types = tx.types /\ tx'.obligations = tx.obligations
      /\ tx'.party = tx.party /\ tx'.context = tx.context
  BY <1>1, <1>2, <1>3 DEF Settling
<1> HIDE DEF t, delivered
<1>5. t.mint \in Tokens /\ t.amount \in Nat /\ t.type \in {"Deposit", "Withdrawal"}
  BY <1>3 DEF Transfers
<1>6. state \in State /\ state.custody \in [Tokens -> Nat]
  BY DEF TypeInv, State
<1> DEFINE Moved == /\ state' \in State
                    /\ \A m \in Tokens : state'.custody[m] = state.custody[m] + Effect(t, m)
                    /\ state'.spentNonces = state.spentNonces /\ state'.leaves = state.leaves
                    /\ state'.nullifiers = state.nullifiers
                    /\ state'.openPublicIntents = state.openPublicIntents
<1>7. CASE t.amount = 0 /\ state' = state
  <2>1. \A m \in Tokens : Effect(t, m) = 0
    BY <1>5, <1>7 DEF Effect
  <2>2. Moved
    BY <1>6, <1>7, <2>1
  <2> QED BY <1>1, <1>2, <1>3, <1>4, <2>2 DEF t
<1>8. CASE t.type = "Deposit" /\ state' = Received(state, t.mint, t.amount)
  <2>1. \A m \in Tokens : state'.custody[m] = state.custody[m] + Effect(t, m)
    BY <1>5, <1>6, <1>8 DEF Received, Effect, State
  <2>2. Moved
    BY <1>5, <1>6, <1>8, <2>1, StateTypes, CustodyFields
  <2> QED BY <1>1, <1>2, <1>3, <1>4, <2>2 DEF t
<1>9. CASE /\ t.type = "Withdrawal" /\ CanPay(state, t.mint, t.amount)
           /\ state' = Paid(state, t.mint, t.amount)
  <2>1. \A m \in Tokens : state'.custody[m] = state.custody[m] + Effect(t, m)
    BY <1>5, <1>6, <1>9 DEF Paid, Effect, State
  <2>2. Moved
    BY <1>5, <1>6, <1>9, <2>1, StateTypes, CustodyFields
  <2> QED BY <1>1, <1>2, <1>3, <1>4, <2>2 DEF t
<1> QED BY <1>1, <1>7, <1>8, <1>9

(* A transaction on a single balance.                                       *)
InsertsNew(b) ==
    /\ history' = [history EXCEPT !.opened[b] = @ + 1]
    /\ state'.leaves = [state.leaves EXCEPT ![BalanceLeaf(b)] = @ + 1]
    /\ state'.nullifiers = state.nullifiers

MovesOn(e) ==
    LET moved == [state.leaves EXCEPT ![Lineage(e)] = @ + 1] IN
    /\ history' = history
    /\ e \notin state.nullifiers /\ e.kind = "balance"
    /\ state'.nullifiers = state.nullifiers \cup {e}
    /\ \/ state'.leaves = moved
       \/ state'.leaves = [moved EXCEPT ![NoteLeaf(e.of)] = @ + 1]

UpdateEffect ==
    /\ ~Running /\ UNCHANGED tx /\ history' \in History
    /\ before' = [state |-> state', history |-> history']
    /\ state' \in State /\ state'.openPublicIntents = state.openPublicIntents
    /\ state'.spentNonces = state.spentNonces
    /\ (\E b \in Balances : InsertsNew(b)) \/ (\E e \in StateElements : MovesOn(e))

LEMMA UpdateOK == ASSUME TypeInv, UpdateBalance PROVE UpdateEffect
<1>0. state \in State /\ history \in History
  BY DEF TypeInv
<1>1. ASSUME NEW b \in Balances, NEW t \in Tokens, NEW a \in Amounts,
             depositNewBalance(b, t, a)
      PROVE  UpdateEffect
  <2> DEFINE new  == Element("balance", b, 1)
             paid == Received(state, t, a)
  <2>1. /\ a \in Nat /\ state' = InsertMerkleLeaf(paid, new)
        /\ ~Running /\ UNCHANGED tx
        /\ history' = [history EXCEPT !.opened[b] = @ + 1]
        /\ before' = [state |-> state', history |-> history']
    BY <1>1, V2Assumption
       DEF depositNewBalance, CanReceive, ReceivedAsExpected, Alone, Commit
  <2>2. /\ paid \in State /\ paid.spentNonces = state.spentNonces /\ paid.leaves = state.leaves
        /\ paid.nullifiers = state.nullifiers
        /\ paid.openPublicIntents = state.openPublicIntents
    BY <1>0, <2>1, StateTypes, CustodyFields
  <2>3. Lineage(new) = BalanceLeaf(b) /\ Lineage(new) \in Lineages
    BY ElementTypes
  <2> HIDE DEF paid, new
  <2>4. /\ state' \in State /\ state'.leaves = [state.leaves EXCEPT ![BalanceLeaf(b)] = @ + 1]
        /\ state'.nullifiers = state.nullifiers /\ state'.spentNonces = state.spentNonces
        /\ state'.openPublicIntents = state.openPublicIntents
    <3>1. state' \in State
      BY <2>1, <2>2, <2>3, StateTypes
    <3>2. /\ state'.leaves = [paid.leaves EXCEPT ![Lineage(new)] = @ + 1]
          /\ state'.nullifiers = paid.nullifiers /\ state'.spentNonces = paid.spentNonces
          /\ state'.openPublicIntents = paid.openPublicIntents
      BY <2>1, <2>2, Fields
    <3> QED BY <2>2, <2>3, <3>1, <3>2
  <2>5. InsertsNew(b)
    BY <2>1, <2>4 DEF InsertsNew, new
  <2>6. history' \in History
    <3>1. history.opened[b] + 1 \in Nat
      BY <1>0 DEF History
    <3> QED BY <1>0, <2>1, <3>1 DEF History
  <2> QED BY <2>1, <2>4, <2>5, <2>6 DEF UpdateEffect
<1>2. ASSUME NEW e \in Nameable("balance"), NEW paid \in State,
             paid.spentNonces = state.spentNonces, paid.leaves = state.leaves,
             paid.nullifiers = state.nullifiers,
             paid.openPublicIntents = state.openPublicIntents,
             CanSpendNullifier(state, e), history' = history,
             \/ Alone(Rotate(paid, e))
             \/ Alone(InsertMerkleLeaf(Rotate(paid, e), Element("note", e.of, e.version)))
      PROVE  UpdateEffect
  <2> DEFINE moved == Rotate(paid, e)
             note  == Element("note", e.of, e.version)
  <2>1. e \in StateElements /\ e.kind = "balance" /\ e \notin state.nullifiers
        /\ e.of \in Balances
    BY <1>2, NamedElement, IntentElement DEF CanSpendNullifier
  <2>2. /\ moved \in State /\ moved.leaves = [state.leaves EXCEPT ![Lineage(e)] = @ + 1]
        /\ moved.nullifiers = state.nullifiers \cup {e}
        /\ moved.spentNonces = state.spentNonces
        /\ moved.openPublicIntents = state.openPublicIntents
    BY <1>2, <2>1, RotateType, RotateFields
  <2>3. Lineage(note) = NoteLeaf(e.of) /\ Lineage(note) \in Lineages
    BY <2>1, ElementTypes
  <2>4. /\ ~Running /\ UNCHANGED tx
        /\ before' = [state |-> state', history |-> history']
        /\ state' = moved \/ state' = InsertMerkleLeaf(moved, note)
    BY <1>2 DEF Alone, Commit
  <2> HIDE DEF moved, note
  <2>5. CASE state' = moved
    <3>1. MovesOn(e)
      BY <1>2, <2>1, <2>2, <2>5 DEF MovesOn
    <3> QED BY <1>0, <1>2, <2>1, <2>2, <2>4, <2>5, <3>1 DEF UpdateEffect
  <2>6. CASE state' = InsertMerkleLeaf(moved, note)
    <3>1. /\ state'.leaves = [moved.leaves EXCEPT ![Lineage(note)] = @ + 1]
          /\ state'.nullifiers = moved.nullifiers /\ state'.spentNonces = moved.spentNonces
          /\ state'.openPublicIntents = moved.openPublicIntents
      BY <2>2, <2>6, Fields
    <3>2. state' \in State
      BY <2>2, <2>3, <2>6, StateTypes
    <3>3. /\ state' \in State /\ state'.leaves = [moved.leaves EXCEPT ![NoteLeaf(e.of)] = @ + 1]
          /\ state'.nullifiers = moved.nullifiers /\ state'.spentNonces = moved.spentNonces
          /\ state'.openPublicIntents = moved.openPublicIntents
      BY <2>3, <3>1, <3>2
    <3>4. MovesOn(e)
      BY <1>2, <2>1, <2>2, <3>3 DEF MovesOn
    <3> QED BY <1>0, <1>2, <2>1, <2>2, <2>4, <3>3, <3>4 DEF UpdateEffect
  <2> QED BY <2>4, <2>5, <2>6
<1>3. ASSUME NEW e \in Nameable("balance"), NEW t \in Tokens, NEW a \in Amounts, deposit(e, t, a)
      PROVE  UpdateEffect
  <2> DEFINE paid == Received(state, t, a)
  <2>1. /\ history' = history /\ CanSpendNullifier(state, e) /\ a \in Nat
        /\ Alone(Rotate(paid, e))
    BY <1>3, V2Assumption DEF deposit, CanReceive, ReceivedAsExpected
  <2>2. /\ paid \in State /\ paid.spentNonces = state.spentNonces /\ paid.leaves = state.leaves
        /\ paid.nullifiers = state.nullifiers
        /\ paid.openPublicIntents = state.openPublicIntents
    BY <1>0, <2>1, StateTypes, CustodyFields
  <2> HIDE DEF paid
  <2> QED BY <1>2, <2>1, <2>2
<1>4. ASSUME NEW e \in Nameable("balance"), NEW t \in Tokens, NEW a \in Amounts, withdraw(e, t, a)
      PROVE  UpdateEffect
  <2> DEFINE paid == Paid(state, t, a)
  <2>1. /\ history' = history /\ CanSpendNullifier(state, e) /\ a \in Nat
        /\ CanPay(state, t, a) /\ Alone(Rotate(paid, e))
    BY <1>4, V2Assumption DEF withdraw
  <2>2. /\ paid \in State /\ paid.spentNonces = state.spentNonces /\ paid.leaves = state.leaves
        /\ paid.nullifiers = state.nullifiers
        /\ paid.openPublicIntents = state.openPublicIntents
    BY <1>0, <2>1, StateTypes, CustodyFields
  <2> HIDE DEF paid
  <2> QED BY <1>2, <2>1, <2>2
<1>5. ASSUME NEW e \in Nameable("balance"), payFees(e) PROVE UpdateEffect
  <2>1. /\ history' = history /\ CanSpendNullifier(state, e)
        /\ Alone(InsertMerkleLeaf(Rotate(state, e), Element("note", e.of, e.version)))
    BY <1>5 DEF payFees
  <2> QED BY <1>0, <1>2, <2>1
<1> QED BY <1>1, <1>3, <1>4, <1>5 DEF UpdateBalance

LEMMA TypesKept == ASSUME TypeInv, [Next]_vars PROVE TypeInv'
<1>1. CASE Settle
  <2>1. PICK type0 \in Offered, type1 \in Offered,
             obligations \in {<<>>} \cup (Obligations \X Obligations) :
               SettleMatch(type0, type1, obligations)
    BY <1>1, SettleOK
  <2>2. tx' \in Settling /\ UNCHANGED <<state, history, before>>
    BY <2>1, SettleMatchOK
  <2>3. Running'
    BY <2>2, SettlingRuns
  <2> QED BY <2>2, <2>3 DEF TypeInv
<1>2. CASE ExecuteSettlementBundle
  <2>1. PICK s, context : BundleEffect(s, context)
    BY <1>2, BundleOK
  <2>2. /\ state' \in State /\ history' \in History /\ before' = before /\ tx' \in Settling
    BY <1>2, <2>1, BundleOK, ExecutedOK DEF BundleEffect
  <2>3. Running'
    BY <2>2, SettlingRuns
  <2> QED BY <2>2, <2>3 DEF TypeInv
<1>3. CASE ExecuteTransfer
  <2>1. tx' \in Settling /\ state' \in State /\ UNCHANGED <<history, before>>
    BY <1>3, TransferOK
  <2>2. Running'
    BY <2>1, SettlingRuns
  <2> QED BY <2>1, <2>2 DEF TypeInv
<1>4. CASE VerifySettlementProofs
  BY <1>4 DEF VerifySettlementProofs, Commit, TypeInv
<1>5. CASE Revert
  BY <1>5 DEF Revert, TypeInv
<1>6. CASE UpdateBalance
  <2>1. UpdateEffect
    BY <1>6, UpdateOK
  <2> QED BY <2>1 DEF UpdateEffect, TypeInv, Running
<1>7. CASE UNCHANGED vars
  BY <1>7 DEF vars, TypeInv, Running
<1> QED BY <1>1, <1>2, <1>3, <1>4, <1>5, <1>6, <1>7 DEF Next

LEMMA Types == Spec => []TypeInv
<1>1. ASSUME Init PROVE TypeInv
  <2>1. state \in State /\ history \in History
    BY <1>1 DEF Init, State, History
  <2> QED BY <1>1, <2>1 DEF Init, TypeInv
<1> QED BY <1>1, TypesKept, PTL DEF Spec

(* Every part of the state keeps its type: no open intent falls below zero  *)
(* and no withdrawal takes more than the contract holds                     *)
(* (decrementOpenIntentAmountRemaining, executeSimpleWithdrawal).           *)
THEOREM V2TypeCorrect == Spec => []TypeOK
<1>1. ASSUME TypeInv PROVE TypeOK
  <2>1. tx.phase \in {"idle", "bundles", "transfers"} /\ tx.party \in 0..2
    BY <1>1 DEF TypeInv, Idle, Settling
  <2> QED BY <1>1, <2>1 DEF TypeInv, TypeOK, State, History
<1> QED BY <1>1, Types, PTL

-----------------------------------------------------------------------------
(* The context and custody.                                                 *)

LEMMA PushedNat == \A type : ProofsPushed(type) \in 0..2
BY DEF ProofsPushed

LEMMA ContextAfterSettle == ASSUME TypeInv, Settle PROVE ContextInv'
<1>1. PICK type0 \in Offered, type1 \in Offered,
           obligations \in {<<>>} \cup (Obligations \X Obligations) :
             SettleMatch(type0, type1, obligations)
  BY SettleOK
<1> DEFINE c0 == newContext(type0, type1)
<1>2. PICK shared \in Verdicts :
        /\ tx' \in Settling /\ tx'.phase = "bundles" /\ tx'.party = 1
        /\ tx'.types = <<type0, type1>> /\ tx'.obligations = obligations
        /\ tx'.context = IF obligations = <<>> THEN pushProofs(c0, <<shared>>) ELSE c0
        /\ obligations # <<>> => Compatible(obligations[1], obligations[2])
  BY <1>1, SettleMatchOK
<1>3. /\ c0 \in Contexts /\ c0.deposits = <<>> /\ c0.withdrawals = <<>> /\ c0.proofs = <<>>
      /\ c0.transferCapacity = getNumTransfers(type0) + getNumTransfers(type1)
      /\ c0.proofCapacity = getNumProofs(type0) + getNumProofs(type1)
  BY V2Assumption, NewContextType DEF newContext
<1> HIDE DEF c0
<1>4. /\ tx'.context.deposits = <<>> /\ tx'.context.withdrawals = <<>>
      /\ Len(tx'.context.proofs) = IF obligations = <<>> THEN 1 ELSE 0
      /\ tx'.context.transferCapacity = c0.transferCapacity
      /\ tx'.context.proofCapacity = c0.proofCapacity
  <2> DEFINE c1 == pushProofs(c0, <<shared>>)
  <2>1. /\ c1.deposits = c0.deposits /\ c1.withdrawals = c0.withdrawals
        /\ Len(c1.proofs) = Len(c0.proofs) + 1
        /\ c1.transferCapacity = c0.transferCapacity /\ c1.proofCapacity = c0.proofCapacity
    BY <1>3, Pushes, ProofTypes
  <2>2. Len(c0.proofs) = 0
    BY <1>3
  <2> HIDE DEF c1
  <2>3. CASE obligations = <<>>
    <3>1. tx'.context = c1
      BY <1>2, <2>3 DEF c1
    <3> QED BY <1>3, <2>1, <2>2, <2>3, <3>1
  <2>4. CASE obligations # <<>>
    <3>1. tx'.context = c0
      BY <1>2, <2>4
    <3> QED BY <1>3, <2>2, <2>4, <3>1
  <2> QED BY <2>3, <2>4
<1>5. ~Settled(1)' /\ ~Settled(2)' /\ ~Moving(1)' /\ ~Moving(2)'
  BY <1>2 DEF Settled, Moving
<1>6. PrivateObligation' <=> obligations = <<>>
  BY <1>2 DEF PrivateObligation
<1>7. tx'.types[1] = type0 /\ tx'.types[2] = type1
  BY <1>2
<1> HIDE DEF c0
<1>8. /\ ~PrivateObligation' => Compatible(tx'.obligations[1], tx'.obligations[2])
      /\ Len(tx'.context.proofs) = IF PrivateObligation' THEN 1 ELSE 0
      /\ Len(tx'.context.deposits) = 0 /\ Len(tx'.context.withdrawals) = 0
  BY <1>2, <1>4, <1>6
<1>9. /\ tx'.context.transferCapacity
           = getNumTransfers(tx'.types[1]) + getNumTransfers(tx'.types[2])
      /\ tx'.context.proofCapacity = getNumProofs(tx'.types[1]) + getNumProofs(tx'.types[2])
  BY <1>3, <1>4, <1>7
<1>10. \A i \in 1..2 : ~Moving(i)'
  BY <1>2 DEF Settled, Moving
<1> QED BY <1>5, <1>8, <1>9, <1>10 DEF ContextInv, Num

LEMMA ContextAfterBundle ==
    ASSUME TypeInv, ContextInv, ExecuteSettlementBundle
    PROVE  ContextInv'
<1>1. PICK s, later : BundleEffect(s, later)
  BY BundleOK
<1>2. /\ tx \in Settling /\ tx.phase = "bundles" /\ later \in Contexts
      /\ Adds(tx.context, later) /\ Running
  BY <1>1, BundleOK DEF BundleEffect, Running, Settling, Idle
<1>3. /\ tx' \in Settling
      /\ tx'.types = tx.types /\ tx'.obligations = tx.obligations /\ tx'.context = later
      /\ tx.party = 1 => tx'.phase = "bundles" /\ tx'.party = 2
      /\ tx.party # 1 => tx.party = 2 /\ tx'.phase = "transfers"
  BY <1>1, <1>2, ExecutedOK DEF BundleEffect
<1> DEFINE n1 == isNativelySettled(tx.types[1])
           n2 == isNativelySettled(tx.types[2])
           c  == tx.context
<1>4. c \in Contexts /\ n1 \in BOOLEAN /\ n2 \in BOOLEAN
      /\ c.deposits \in Seq(Transfers) /\ c.withdrawals \in Seq(Transfers)
      /\ Len(c.proofs) \in Nat
  BY <1>2 DEF Settling, isNativelySettled, Contexts
<1>5. PrivateObligation' = PrivateObligation
  BY <1>3 DEF PrivateObligation
<1>6. /\ PrivateObligation \/ Compatible(tx.obligations[1], tx.obligations[2])
      /\ c.transferCapacity = getNumTransfers(tx.types[1]) + getNumTransfers(tx.types[2])
      /\ c.proofCapacity = getNumProofs(tx.types[1]) + getNumProofs(tx.types[2])
  BY <1>2 DEF ContextInv
<1>7. /\ later.transferCapacity = c.transferCapacity /\ later.proofCapacity = c.proofCapacity
      /\ Len(later.proofs) = Len(c.proofs) + ProofsPushed(tx.types[tx.party])
  BY <1>2 DEF Adds
<1>8. CASE tx.party = 1
  <2>1. /\ ~Settled(1) /\ ~Settled(2) /\ ~Moving(1) /\ ~Moving(2)
        /\ Settled(1)' /\ ~Settled(2)' /\ (Moving(1)' <=> n1) /\ ~Moving(2)'
    BY <1>2, <1>3, <1>8 DEF Settled, Moving
  <2>2. Len(c.deposits) = 0 /\ Len(c.withdrawals) = 0 /\ Len(c.proofs) = Num(PrivateObligation)
    BY <1>2, <2>1 DEF ContextInv, Num
  <2>3. CASE n1
    <3>1. /\ ~PrivateObligation
          /\ Len(later.deposits) = 1 /\ Len(later.withdrawals) = 1
          /\ IsDeposit(later.deposits[1], tx.obligations[1])
          /\ IsWithdrawal(later.withdrawals[1], tx.obligations[1])
      BY <1>2, <1>8, <2>2, <2>3 DEF Adds, Grows
    <3> QED BY <1>3, <1>5, <1>6, <1>7, <1>8, <2>1, <2>2, <2>3, <3>1, PushedNat DEF ContextInv, Num
  <2>4. CASE ~n1
    <3>1. later.deposits = c.deposits /\ later.withdrawals = c.withdrawals
      BY <1>2, <1>8, <2>4 DEF Adds
    <3> QED BY <1>3, <1>5, <1>6, <1>7, <1>8, <2>1, <2>2, <2>4, <3>1, PushedNat DEF ContextInv, Num
  <2> QED BY <2>3, <2>4
<1>9. CASE tx.party = 2
  <2>1. /\ Settled(1) /\ ~Settled(2) /\ (Moving(1) <=> n1) /\ ~Moving(2)
        /\ Settled(1)' /\ Settled(2)' /\ (Moving(1)' <=> n1) /\ (Moving(2)' <=> n2)
    BY <1>2, <1>3, <1>9 DEF Settled, Moving
  <2>2. /\ Len(c.deposits) = Num(n1) /\ Len(c.withdrawals) = Num(n1)
        /\ Len(c.proofs) = Num(PrivateObligation) + ProofsPushed(tx.types[1])
        /\ n1 => /\ ~PrivateObligation
                 /\ IsDeposit(c.deposits[1], tx.obligations[1])
                 /\ IsWithdrawal(c.withdrawals[1], tx.obligations[1])
    BY <1>2, <2>1, PushedNat DEF ContextInv, Num
  <2>3. CASE n2
    <3>1. /\ ~PrivateObligation
          /\ Len(later.deposits) = Num(n1) + 1 /\ Len(later.withdrawals) = Num(n1) + 1
          /\ IsDeposit(later.deposits[Num(n1) + 1], tx.obligations[2])
          /\ IsWithdrawal(later.withdrawals[Num(n1) + 1], tx.obligations[2])
      BY <1>2, <1>9, <2>2, <2>3 DEF Adds, Grows
    <3>2. n1 => later.deposits[1] = c.deposits[1] /\ later.withdrawals[1] = c.withdrawals[1]
      BY <1>2, <1>9, <2>2, <2>3 DEF Adds, Grows, Num
    <3> HIDE DEF n1, n2
    <3> QED BY <1>3, <1>5, <1>6, <1>7, <1>9, <2>1, <2>2, <2>3, <3>1, <3>2, PushedNat
            DEF ContextInv, Num
  <2>4. CASE ~n2
    <3>1. later.deposits = c.deposits /\ later.withdrawals = c.withdrawals
      BY <1>2, <1>9, <2>4 DEF Adds
    <3> QED BY <1>3, <1>5, <1>6, <1>7, <1>9, <2>1, <2>2, <2>4, <3>1, PushedNat DEF ContextInv, Num
  <2> QED BY <2>3, <2>4
<1> QED BY <1>3, <1>8, <1>9

LEMMA ContextKept == ASSUME TypeInv, ContextInv, [Next]_vars PROVE ContextInv'
<1>1. CASE Settle
  BY <1>1, ContextAfterSettle
<1>2. CASE ExecuteSettlementBundle
  BY <1>2, ContextAfterBundle
<1>3. ASSUME tx' \in Settling, tx \in Settling, tx'.phase = tx.phase, tx'.types = tx.types,
             tx'.obligations = tx.obligations, tx'.party = tx.party, tx'.context = tx.context
      PROVE  ContextInv'
  <2>1. Running
    BY <1>3 DEF Settling, Running, Idle
  <2>2. /\ Settled(1)' = Settled(1) /\ Settled(2)' = Settled(2)
        /\ Moving(1)' = Moving(1) /\ Moving(2)' = Moving(2)
        /\ PrivateObligation' = PrivateObligation
    BY <1>3 DEF Settled, Moving, PrivateObligation
  <2>3. \A i \in 1..2 : i = 1 \/ i = 2
    OBVIOUS
  <2> QED BY <1>3, <2>1, <2>2, <2>3 DEF ContextInv
<1>4. CASE ExecuteTransfer
  BY <1>3, <1>4, TransferOK
<1>5. CASE VerifySettlementProofs \/ Revert
  BY <1>5 DEF VerifySettlementProofs, Revert, ContextInv, Running
<1>6. CASE UpdateBalance
  BY <1>6, UpdateOK DEF UpdateEffect, ContextInv, Running
<1>7. CASE UNCHANGED vars
  BY <1>7 DEF vars, ContextInv, Running, Settled, Moving, PrivateObligation
<1> QED BY <1>1, <1>2, <1>4, <1>5, <1>6, <1>7 DEF Next

LEMMA ContextOK == Spec => []ContextInv
<1>1. Init => ContextInv
  BY DEF Init, ContextInv, Running
<1> QED BY <1>1, ContextKept, Types, PTL DEF Spec

LEMMA EffectInt ==
    ASSUME NEW t \in Transfers, NEW m \in Tokens
    PROVE  Effect(t, m) \in Int
BY DEF Effect, Transfers

LEMMA MovedOneMore ==
    ASSUME NEW list \in Seq(Transfers), NEW k \in Nat, k < Len(list), Len(list) <= 4,
           NEW m \in Tokens
    PROVE  /\ MovedBy(list, k, m) \in Int
           /\ MovedBy(list, k + 1, m) = MovedBy(list, k, m) + Effect(list[k + 1], m)
<1>0. Len(list) \in Nat /\ Len(list) <= 4
  OBVIOUS
<1>1. \A i \in 1..Len(list) : Effect(list[i], m) \in Int
  <2>1. \A i \in 1..Len(list) : list[i] \in Transfers
    OBVIOUS
  <2> QED BY <2>1, EffectInt
<1>2. k = 0 \/ k = 1 \/ k = 2 \/ k = 3
  BY <1>0
<1>3. k + 1 <= Len(list) /\ Len(list) \in Nat
  BY <1>0
<1>4. CASE k = 0
  BY <1>1, <1>3, <1>4 DEF MovedBy
<1>5. CASE k = 1
  BY <1>1, <1>3, <1>5 DEF MovedBy
<1>6. CASE k = 2
  BY <1>1, <1>3, <1>6 DEF MovedBy
<1>7. CASE k = 3
  BY <1>1, <1>3, <1>7 DEF MovedBy
<1> QED BY <1>2, <1>4, <1>5, <1>6, <1>7

(* All transfers of a settlement, whether done or not.                      *)
LEMMA TransfersOf ==
    ASSUME tx \in Settling, ContextInv
    PROVE  LET all == TransfersInOrder(tx.context)
               n   == Len(tx.context.deposits)
           IN  /\ all \in Seq(Transfers) /\ n \in {0, 1, 2} /\ Len(all) = n + n /\ Len(all) \in Nat /\ Len(all) <= 4
               /\ \A i \in 1..n : all[i] = tx.context.deposits[i]
                                  /\ all[n + i] = tx.context.withdrawals[i]
<1> DEFINE d == tx.context.deposits
           w == tx.context.withdrawals
<1>1. d \in Seq(Transfers) /\ w \in Seq(Transfers)
  BY DEF Settling, Contexts
<1>2. Running
  BY DEF Settling, Running, Idle
<1>3. Len(d) = Len(w) /\ Len(d) \in {0, 1, 2}
  <2>1. Len(d) = Num(Moving(1)) + Num(Moving(2)) /\ Len(w) = Num(Moving(1)) + Num(Moving(2))
    BY <1>2 DEF ContextInv
  <2>2. Num(Moving(1)) \in {0, 1} /\ Num(Moving(2)) \in {0, 1}
    BY DEF Num
  <2> QED BY <2>1, <2>2
<1>4. TransfersInOrder(tx.context) = d \o w
  BY DEF TransfersInOrder
<1> HIDE DEF d, w
<1>5. /\ d \o w \in Seq(Transfers) /\ Len(d \o w) = Len(d) + Len(d)
      /\ \A i \in 1..Len(d) : (d \o w)[i] = d[i] /\ (d \o w)[Len(d) + i] = w[i]
  BY <1>1, <1>3
<1>6. Len(d) \in Nat /\ Len(d) <= 2
  BY <1>3
<1>7. Len(d \o w) \in Nat /\ Len(d \o w) <= 4
  BY <1>5, <1>6
<1> QED BY <1>3, <1>4, <1>5, <1>7 DEF d, w

LEMMA CustodyKept ==
    ASSUME TypeInv, ContextInv, ContextInv', CustodyInv, [Next]_vars
    PROVE  CustodyInv'
<1>1. CASE Settle
  <2>1. PICK type0 \in Offered, type1 \in Offered,
             obligations \in {<<>>} \cup (Obligations \X Obligations) :
               SettleMatch(type0, type1, obligations)
    BY <1>1, SettleOK
  <2>2. tx'.phase = "bundles" /\ ~Running /\ UNCHANGED <<state, before>>
    BY <2>1, SettleMatchOK
  <2> QED BY <2>2 DEF CustodyInv, TypeInv
<1>2. CASE ExecuteSettlementBundle
  <2>1. PICK s, later : BundleEffect(s, later)
    BY <1>2, BundleOK
  <2>2. /\ state'.custody = state.custody /\ before' = before /\ tx' \in Settling
        /\ tx.phase = "bundles" /\ tx'.context = later
        /\ tx.party = 1 => tx'.phase = "bundles"
        /\ tx.party # 1 => tx'.phase = "transfers" /\ tx'.transfers = TransfersInOrder(later)
    BY <1>2, <2>1, BundleOK, ExecutedOK DEF BundleEffect
  <2>3. state'.custody = before'.state.custody
    BY <2>2 DEF CustodyInv
  <2>4. CASE tx.party = 1
    BY <2>2, <2>3, <2>4 DEF CustodyInv
  <2>5. CASE tx.party # 1
    <3> DEFINE all == TransfersInOrder(tx.context)
    <3>1. all' = tx'.transfers /\ Len(all') \in Nat /\ tx'.phase = "transfers"
      BY <2>2, <2>5 DEF Settling
    <3>2. Done' = 0
      BY <3>1 DEF Done
    <3>3. \A m \in Tokens : MovedBy(all', 0, m) = 0
      BY DEF MovedBy
    <3>4. \A m \in Tokens : state'.custody[m] \in Nat
      <4>1. TypeInv'
        BY TypesKept
      <4> QED BY <4>1 DEF TypeInv, State
    <3>5. \A i \in 1..Len(tx'.transfers) : i + 0 = i
      BY <3>1
    <3>6. \A m \in Tokens : state'.custody[m] = before'.state.custody[m] + MovedBy(all', Done', m)
      BY <2>3, <3>2, <3>3, <3>4
    <3>7. \A i \in 1..Len(tx'.transfers) : tx'.transfers[i] = all'[i + Done']
      BY <3>1, <3>2, <3>5
    <3> HIDE DEF all
    <3> QED BY <3>1, <3>2, <3>6, <3>7 DEF CustodyInv, all
  <2> QED BY <2>4, <2>5
<1>3. CASE ExecuteTransfer
  <2> DEFINE t   == Head(tx.transfers)
             all == TransfersInOrder(tx.context)
             n   == Len(tx.transfers)
  <2>1. /\ tx \in Settling /\ tx.phase = "transfers" /\ tx.transfers # <<>> /\ t \in Transfers
        /\ tx'.phase = "transfers" /\ tx'.transfers = Tail(tx.transfers)
        /\ tx'.context = tx.context /\ before' = before
        /\ \A m \in Tokens : state'.custody[m] = state.custody[m] + Effect(t, m)
    BY <1>3, TransferOK
  <2>2. all \in Seq(Transfers) /\ Len(all) \in Nat /\ Len(all) <= 4
    BY <2>1, TransfersOf
  <2>3. tx.transfers \in Seq(Transfers)
    BY <2>1 DEF Settling
  <2>4. /\ n \in Nat /\ n >= 1 /\ tx.transfers[1] = t /\ Len(tx'.transfers) = n - 1
        /\ \A i \in 1..(n - 1) : tx'.transfers[i] = tx.transfers[i + 1]
    <3> DEFINE q == tx.transfers
    <3>1. q \in Seq(Transfers) /\ q # <<>> /\ tx'.transfers = Tail(q)
      BY <2>1, <2>3
    <3> HIDE DEF q
    <3>2. /\ Len(q) \in Nat /\ Len(q) >= 1 /\ q[1] = Head(q) /\ Len(Tail(q)) = Len(q) - 1
          /\ \A i \in 1..(Len(q) - 1) : Tail(q)[i] = q[i + 1]
      BY <3>1
    <3> QED BY <3>1, <3>2 DEF q
  <2>5. /\ Done = Len(all) - n /\ Done >= 0
        /\ \A i \in 1..n : tx.transfers[i] = all[i + Done]
        /\ \A m \in Tokens : state.custody[m] = before.state.custody[m] + MovedBy(all, Done, m)
    BY <2>1 DEF CustodyInv, Done
  <2>6. all' = all
    BY <2>1
  <2> HIDE DEF t, all, n
  <2>7. Done' = Done + 1 /\ Done \in Nat /\ Done < Len(all)
    <3>1. Done' = Len(all) - (n - 1)
      BY <2>4, <2>6 DEF Done, all
    <3> QED BY <2>2, <2>4, <2>5, <3>1
  <2>8. all[Done + 1] = t
    BY <2>4, <2>5, <2>7
  <2>9. ASSUME NEW m \in Tokens
        PROVE  state'.custody[m] = before'.state.custody[m] + MovedBy(all', Done', m)
    <3>1. /\ MovedBy(all, Done, m) \in Int
          /\ MovedBy(all, Done + 1, m) = MovedBy(all, Done, m) + Effect(t, m)
      BY <2>2, <2>7, <2>8, MovedOneMore
    <3>2. Effect(t, m) \in Int /\ before.state.custody[m] \in Int
      BY <2>1, EffectInt DEF TypeInv, State
    <3>3. before' = before /\ state'.custody[m] = state.custody[m] + Effect(t, m)
      BY <2>1
    <3>4. state.custody[m] = before.state.custody[m] + MovedBy(all, Done, m)
      BY <2>5
    <3> QED BY <2>6, <2>7, <3>1, <3>2, <3>3, <3>4
  <2>10. ASSUME NEW i \in 1..(n - 1) PROVE tx'.transfers[i] = all'[i + Done']
    <3>1. tx'.transfers[i] = tx.transfers[i + 1] /\ i + 1 \in 1..n
      BY <2>4
    <3>2. tx.transfers[i + 1] = all[(i + 1) + Done]
      BY <2>5, <3>1
    <3>3. (i + 1) + Done = i + Done'
      BY <2>4, <2>7
    <3> QED BY <2>6, <3>1, <3>2, <3>3
  <2> QED BY <2>1, <2>4, <2>7, <2>9, <2>10 DEF CustodyInv, all
<1>4. CASE VerifySettlementProofs \/ Revert
  BY <1>4 DEF VerifySettlementProofs, Revert, Idle, CustodyInv
<1>5. CASE UpdateBalance
  BY <1>5, UpdateOK DEF UpdateEffect, CustodyInv, Running, Idle
<1>6. CASE UNCHANGED vars
  BY <1>6 DEF vars, CustodyInv, Done
<1> QED BY <1>1, <1>2, <1>3, <1>4, <1>5, <1>6 DEF Next

LEMMA CustodyOK == Spec => []CustodyInv
<1>1. Init => CustodyInv
  BY DEF Init, Idle, CustodyInv
<1> QED BY <1>1, CustodyKept, ContextOK, Types, PTL DEF Spec

LEMMA SumOfParties ==
    ASSUME NEW f
    PROVE  /\ \A i \in 1..2 : f[i] \in Int => SumFunctionOnSet(f, {i}) = f[i]
           /\ f[1] \in Int /\ f[2] \in Int => SumFunctionOnSet(f, 1..2) = f[1] + f[2]
<1>1. ASSUME NEW i, f[i] \in Int PROVE SumFunctionOnSet(f, {i}) = f[i]
  <2>1. SumFunctionOnSet(f, {} \cup {i}) = SumFunctionOnSet(f, {}) + f[i]
    <3>1. IsFiniteSet({}) /\ i \notin {} /\ \A x \in {} : f[x] \in Int
      BY FS_EmptySet
    <3> QED BY <1>1, <3>1, SumInsert
  <2>2. {} \cup {i} = {i}
    OBVIOUS
  <2> QED BY <1>1, <2>1, <2>2, SumEmpty
<1>2. ASSUME f[1] \in Int, f[2] \in Int PROVE SumFunctionOnSet(f, 1..2) = f[1] + f[2]
  <2>1. SumFunctionOnSet(f, {1} \cup {2}) = SumFunctionOnSet(f, {1}) + f[2]
    <3>1. IsFiniteSet({1})
      BY FS_Singleton
    <3>2. 2 \notin {1} /\ \A x \in {1} : f[x] \in Int
      BY <1>2
    <3> QED BY <1>2, <3>1, <3>2, SumInsert
  <2>2. {1} \cup {2} = 1..2
    OBVIOUS
  <2> QED BY <1>1, <1>2, <2>1, <2>2
<1> QED BY <1>1, <1>2

(* The lists of a settlement, whose capacities allocateSettlementContext    *)
(* takes from the types alone, have room for all that any two bundles that  *)
(* may settle together push (pushProof, pushDeposit, pushWithdrawal).       *)
THEOREM ListsHaveRoom == Spec => []CapacitySuffices
<1>1. ASSUME TypeInv, ContextInv PROVE CapacitySuffices
  <2> DEFINE t1  == tx.types[1]
             t2  == tx.types[2]
             due == tx.party..2
             pushed == [i \in due |-> ProofsPushed(tx.types[i])]
  <2> SUFFICES ASSUME tx.phase = "bundles",
                      \A i \in 1..2 : isNativelySettled(tx.types[i]) => ~PrivateObligation,
                      PrivateObligation
                        <=> \E i \in 1..2 : tx.types[i] = "RENEGADE_SETTLED_PRIVATE_FILL"
               PROVE  /\ HasRoomForProofs(tx.context, SumFunctionOnSet(pushed, due))
                      /\ (\E i \in due : isNativelySettled(tx.types[i]))
                           => HasRoomForTransfers(tx.context)
    BY DEF CapacitySuffices
  <2>1. tx \in Settling /\ Running
    BY <1>1 DEF TypeInv, Idle, Running
  <2>2. t1 \in BundleTypes /\ t2 \in BundleTypes /\ tx.party \in 1..2
    BY <2>1 DEF Settling
  <2> DEFINE f == "RENEGADE_SETTLED_PRIVATE_FILL"
  <2>3. /\ isNativelySettled(t1) \/ isNativelySettled(t2) => ~PrivateObligation
        /\ PrivateObligation <=> t1 = f \/ t2 = f
    <3>1. \A i \in 1..2 : i = 1 \/ i = 2
      OBVIOUS
    <3>2. 1 \in 1..2 /\ 2 \in 1..2
      OBVIOUS
    <3> QED BY <3>1, <3>2
  <2>4. /\ tx.context.transferCapacity = getNumTransfers(t1) + getNumTransfers(t2)
        /\ tx.context.proofCapacity = getNumProofs(t1) + getNumProofs(t2)
    BY <1>1, <2>1 DEF ContextInv
  <2>5. Num(PrivateObligation) + ProofsPushed(t1) + ProofsPushed(t2)
          <= getNumProofs(t1) + getNumProofs(t2)
    <3>1. CASE PrivateObligation
      BY <2>2, <2>3, <3>1 DEF Num, ProofsPushed, getNumProofs, BundleTypes, isNativelySettled
    <3>2. CASE ~PrivateObligation
      BY <2>2, <2>3, <3>2 DEF Num, ProofsPushed, getNumProofs, BundleTypes
    <3> QED BY <3>1, <3>2
  <2>6. /\ getNumTransfers(t1) = Num(isNativelySettled(t1))
        /\ getNumTransfers(t2) = Num(isNativelySettled(t2))
    BY DEF getNumTransfers, Num
  <2>7. ProofsPushed(t1) \in Int /\ ProofsPushed(t2) \in Int /\ Num(PrivateObligation) \in Int
    BY PushedNat DEF Num
  <2>8. CASE tx.party = 1
    <3>1. ~Settled(1) /\ ~Settled(2) /\ ~Moving(1) /\ ~Moving(2)
      BY <2>8 DEF Settled, Moving
    <3>2. /\ Len(tx.context.proofs) = Num(PrivateObligation)
          /\ Len(tx.context.deposits) = 0 /\ Len(tx.context.withdrawals) = 0
      <4>1. /\ Len(tx.context.proofs) = Num(PrivateObligation) + 0 + 0
            /\ Len(tx.context.deposits) = 0 + 0 /\ Len(tx.context.withdrawals) = 0 + 0
        BY <1>1, <2>1, <3>1 DEF ContextInv, Num
      <4> QED BY <2>7, <4>1
    <3>3. SumFunctionOnSet(pushed, due) = ProofsPushed(t1) + ProofsPushed(t2)
      <4>1. due = 1..2 /\ pushed[1] = ProofsPushed(t1) /\ pushed[2] = ProofsPushed(t2)
        BY <2>8
      <4> HIDE DEF due, pushed
      <4> QED BY <2>7, <4>1, SumOfParties
    <3> HIDE DEF t1, t2, pushed
    <3>4. HasRoomForProofs(tx.context, SumFunctionOnSet(pushed, due))
      BY <2>4, <2>5, <2>7, <3>2, <3>3 DEF HasRoomForProofs
    <3>5. ASSUME \E i \in due : isNativelySettled(tx.types[i])
          PROVE  HasRoomForTransfers(tx.context)
      <4>1. isNativelySettled(t1) \/ isNativelySettled(t2)
        <5>1. \A i \in due : i = 1 \/ i = 2
          BY <2>8
        <5> QED BY <3>5, <5>1 DEF t1, t2
      <4> QED BY <2>4, <2>6, <3>2, <4>1 DEF HasRoomForTransfers, Num
    <3> QED BY <3>4, <3>5
  <2>9. CASE tx.party = 2
    <3>1. Settled(1) /\ ~Settled(2) /\ (Moving(1) <=> isNativelySettled(t1)) /\ ~Moving(2)
      BY <2>9 DEF Settled, Moving
    <3>2. /\ Len(tx.context.proofs) = Num(PrivateObligation) + ProofsPushed(t1)
          /\ Len(tx.context.deposits) = Num(isNativelySettled(t1))
          /\ Len(tx.context.withdrawals) = Num(isNativelySettled(t1))
      <4>1. /\ Len(tx.context.proofs) = Num(PrivateObligation) + ProofsPushed(t1) + 0
            /\ Len(tx.context.deposits) = Num(isNativelySettled(t1)) + 0
            /\ Len(tx.context.withdrawals) = Num(isNativelySettled(t1)) + 0
        BY <1>1, <2>1, <3>1 DEF ContextInv, Num
      <4>2. Num(isNativelySettled(t1)) \in Int
        BY DEF Num
      <4> QED BY <2>7, <4>1, <4>2
    <3>3. SumFunctionOnSet(pushed, due) = ProofsPushed(t2)
      <4>1. due = {2} /\ pushed[2] = ProofsPushed(t2) /\ 2 \in 1..2
        BY <2>9
      <4> HIDE DEF due, pushed
      <4> QED BY <2>7, <4>1, SumOfParties
    <3> HIDE DEF t1, t2, pushed
    <3>4. HasRoomForProofs(tx.context, SumFunctionOnSet(pushed, due))
      BY <2>4, <2>5, <2>7, <3>2, <3>3 DEF HasRoomForProofs
    <3>5. ASSUME \E i \in due : isNativelySettled(tx.types[i])
          PROVE  HasRoomForTransfers(tx.context)
      <4>1. isNativelySettled(t2)
        <5>1. \A i \in due : i = 2
          BY <2>9
        <5> QED BY <3>5, <5>1 DEF t2
      <4> QED BY <2>4, <2>6, <3>2, <4>1 DEF HasRoomForTransfers, Num
    <3> QED BY <3>4, <3>5
  <2> QED BY <2>2, <2>8, <2>9
<1> QED BY <1>1, Types, ContextOK, PTL

(* The transfers, with one or both parties settling by their accounts.      *)
LEMMA ListOfTransfers ==
    ASSUME tx \in Settling, tx.phase = "transfers", ContextInv
    PROVE  LET all == TransfersInOrder(tx.context)
               n1  == isNativelySettled(tx.types[1])
               n2  == isNativelySettled(tx.types[2])
               o1  == tx.obligations[1]
               o2  == tx.obligations[2]
           IN  /\ n1 \/ n2 => /\ ~PrivateObligation /\ o1 \in Obligations /\ o2 \in Obligations
                              /\ Compatible(o1, o2)
               /\ ~n1 /\ ~n2 => Len(all) = 0
               /\ n1 /\ ~n2 => Len(all) = 2 /\ IsDeposit(all[1], o1) /\ IsWithdrawal(all[2], o1)
               /\ ~n1 /\ n2 => Len(all) = 2 /\ IsDeposit(all[1], o2) /\ IsWithdrawal(all[2], o2)
               /\ n1 /\ n2 => /\ Len(all) = 4
                              /\ IsDeposit(all[1], o1) /\ IsDeposit(all[2], o2)
                              /\ IsWithdrawal(all[3], o1) /\ IsWithdrawal(all[4], o2)
<1> DEFINE all == TransfersInOrder(tx.context)
           d   == tx.context.deposits
           w   == tx.context.withdrawals
           n1  == isNativelySettled(tx.types[1])
           n2  == isNativelySettled(tx.types[2])
           n   == Len(d)
<1>1. Running /\ (Moving(1) <=> n1) /\ (Moving(2) <=> n2)
  BY DEF Settling, Running, Idle, Moving, Settled
<1>2. /\ all \in Seq(Transfers) /\ Len(all) = n + n
      /\ \A i \in 1..n : all[i] = d[i] /\ all[n + i] = w[i]
  BY TransfersOf
<1>3. /\ n = Num(n1) + Num(n2)
      /\ n1 => IsDeposit(d[1], tx.obligations[1]) /\ IsWithdrawal(w[1], tx.obligations[1])
      /\ n2 => IsDeposit(d[n], tx.obligations[2]) /\ IsWithdrawal(w[n], tx.obligations[2])
      /\ n1 \/ n2 => ~PrivateObligation
      /\ ~PrivateObligation => Compatible(tx.obligations[1], tx.obligations[2])
  BY <1>1 DEF ContextInv, Num
<1>4. ~PrivateObligation => tx.obligations[1] \in Obligations /\ tx.obligations[2] \in Obligations
  BY DEF PrivateObligation, Settling
<1> HIDE DEF all, d, w, n1, n2, n
<1>5. CASE ~n1 /\ ~n2
  BY <1>2, <1>3, <1>4, <1>5 DEF Num, all, n1, n2
<1>6. CASE n1 /\ ~n2
  <2>1. n = 1
    BY <1>3, <1>6 DEF Num
  <2>2. all[1] = d[1] /\ all[2] = w[1] /\ Len(all) = 2
    BY <1>2, <2>1
  <2> QED BY <1>3, <1>4, <1>6, <2>2 DEF all, n1, n2
<1>7. CASE ~n1 /\ n2
  <2>1. n = 1
    BY <1>3, <1>7 DEF Num
  <2>2. all[1] = d[1] /\ all[2] = w[1] /\ Len(all) = 2
    BY <1>2, <2>1
  <2> QED BY <1>3, <1>4, <1>7, <2>1, <2>2 DEF all, n1, n2
<1>8. CASE n1 /\ n2
  <2>1. n = 2
    BY <1>3, <1>8 DEF Num
  <2>2. all[1] = d[1] /\ all[2] = d[2] /\ all[3] = w[1] /\ all[4] = w[2] /\ Len(all) = 4
    BY <1>2, <2>1
  <2> QED BY <1>3, <1>4, <1>8, <2>1, <2>2 DEF all, n1, n2
<1> QED BY <1>5, <1>6, <1>7, <1>8 DEF n1, n2

(* Two parties that settle with their accounts need nothing from the pool:  *)
(* when a withdrawal of theirs is due, the deposit of the other party has   *)
(* brought at least as much (executeTransfers: all deposits first).         *)
THEOREM DepositsComeFirst == Spec => []DepositsFundWithdrawals
<1>1. ASSUME TypeInv, ContextInv, CustodyInv PROVE DepositsFundWithdrawals
  <2> DEFINE all == TransfersInOrder(tx.context)
             q   == tx.transfers
             o1  == tx.obligations[1]
             o2  == tx.obligations[2]
  <2> SUFFICES ASSUME tx.phase = "transfers", q # <<>>,
                      isNativelySettled(tx.types[1]), isNativelySettled(tx.types[2]),
                      Head(q).type = "Withdrawal"
               PROVE  Head(q).amount <= state.custody[Head(q).mint]
    BY DEF DepositsFundWithdrawals
  <2>1. tx \in Settling
    BY <1>1 DEF TypeInv, Idle
  <2>2. /\ o1 \in Obligations /\ o2 \in Obligations /\ Compatible(o1, o2)
        /\ Len(all) = 4 /\ IsDeposit(all[1], o1) /\ IsDeposit(all[2], o2)
        /\ IsWithdrawal(all[3], o1) /\ IsWithdrawal(all[4], o2)
    BY <1>1, <2>1, ListOfTransfers
  <2>3. /\ Done = Len(all) - Len(q) /\ Done >= 0
        /\ \A i \in 1..Len(q) : q[i] = all[i + Done]
        /\ \A m \in Tokens : state.custody[m] = before.state.custody[m] + MovedBy(all, Done, m)
    BY <1>1 DEF CustodyInv, Done
  <2>4. Len(q) \in Nat /\ Len(q) >= 1 /\ Head(q) = q[1]
    <3>1. q \in Seq(Transfers)
      BY <2>1 DEF Settling
    <3> HIDE DEF q
    <3> QED BY <3>1
  <2>5. /\ o1.inputToken \in Tokens /\ o1.outputToken \in Tokens
        /\ o1.amountIn \in Nat /\ o1.amountOut \in Nat
        /\ o2.inputToken = o1.outputToken /\ o2.outputToken = o1.inputToken
        /\ o2.amountIn = o1.amountOut /\ o2.amountOut = o1.amountIn
    BY <2>2, V2Assumption DEF Compatible
  <2> HIDE DEF all, q, o1, o2
  <2>6. Head(q) = all[Done + 1] /\ Done \in {0, 1, 2, 3}
    <3>1. 1 \in 1..Len(q)
      BY <2>4
    <3>2. q[1] = all[1 + Done]
      BY <2>3, <3>1
    <3>3. Done = 4 - Len(q) /\ Done >= 0
      BY <2>2, <2>3
    <3>4. Done \in {0, 1, 2, 3}
      <4>1. ASSUME NEW n \in Nat, n >= 1, 4 - n >= 0 PROVE 4 - n \in {0, 1, 2, 3}
        BY <4>1
      <4> QED BY <2>4, <3>3, <4>1
    <3>5. 1 + Done = Done + 1
      BY <3>4
    <3> QED BY <2>4, <3>2, <3>4, <3>5
  <2>7. \A m \in Tokens : before.state.custody[m] \in Nat
    BY <1>1 DEF TypeInv, State
  <2>8. CASE Done = 0 \/ Done = 1
    BY <2>2, <2>6, <2>8 DEF IsDeposit
  <2>9. CASE Done = 2
    <3>1. Head(q) = all[3]
      BY <2>6, <2>9
    <3>2. MovedBy(all, 2, o1.outputToken)
            = Effect(all[1], o1.outputToken) + Effect(all[2], o1.outputToken) + 0 + 0
      BY DEF MovedBy
    <3>3. Effect(all[1], o1.outputToken) \in Nat
          /\ Effect(all[2], o1.outputToken) = o1.amountOut
      BY <2>2, <2>5 DEF Effect, IsDeposit
    <3> QED BY <2>2, <2>3, <2>5, <2>7, <2>9, <3>1, <3>2, <3>3 DEF IsWithdrawal
  <2>10. CASE Done = 3
    <3>1. Head(q) = all[4]
      BY <2>6, <2>10
    <3> DEFINE m == o1.inputToken
    <3>2. MovedBy(all, 3, m) = Effect(all[1], m) + Effect(all[2], m) + Effect(all[3], m) + 0
      BY DEF MovedBy
    <3>3. /\ Effect(all[1], m) = o1.amountIn
          /\ Effect(all[2], m) = IF o1.outputToken = m THEN o1.amountOut ELSE 0
          /\ Effect(all[3], m) = IF o1.outputToken = m THEN 0 - o1.amountOut ELSE 0
      BY <2>2, <2>5 DEF Effect, IsDeposit, IsWithdrawal
    <3> HIDE DEF m
    <3>4. MovedBy(all, 3, m) = o1.amountIn
      BY <2>5, <3>2, <3>3
    <3> QED BY <2>2, <2>3, <2>5, <2>7, <2>10, <3>1, <3>4 DEF IsWithdrawal, m
  <2> QED BY <2>6, <2>8, <2>9, <2>10
<1> QED BY <1>1, Types, ContextOK, CustodyOK, PTL

(* When the transfers of a settlement are done, custody has changed by the  *)
(* obligations of the parties that settle with their accounts; when both do *)
(* it is as before, and so it is after a settlement that fails              *)
(* (executeTransfers, and the EVM that undoes a transaction).               *)
THEOREM MovesWhatWasAgreed == Spec => SettlementMovesCustody
<1>1. ASSUME TypeInv, TypeInv', ContextInv, CustodyInv, [Next]_vars PROVE [KeepsOthersFunds]_vars
  <2> SUFFICES ASSUME Running, ~Running' PROVE KeepsOthersFunds
    BY DEF KeepsOthersFunds
  <2> DEFINE native == {i \in 1..2 : isNativelySettled(tx.types[i])}
             Leg(i, m) == (IF tx.obligations[i].inputToken = m
                           THEN tx.obligations[i].amountIn ELSE 0)
                          - (IF tx.obligations[i].outputToken = m
                             THEN tx.obligations[i].amountOut ELSE 0)
             Unchanged == state'.custody = before.state.custody
             Agreed == \A m \in Tokens :
                         state'.custody[m] - before.state.custody[m]
                           = SumFunctionOnSet([i \in native |-> Leg(i, m)], native)
  <2>1. tx \in Settling
    BY <1>1 DEF TypeInv, Running
  <2>2. CASE Revert
    BY <2>2 DEF Revert, KeepsOthersFunds
  <2>3. CASE VerifySettlementProofs
    <3> DEFINE all == TransfersInOrder(tx.context)
               o1  == tx.obligations[1]
               o2  == tx.obligations[2]
               n1  == isNativelySettled(tx.types[1])
               n2  == isNativelySettled(tx.types[2])
    <3>1. tx.phase = "transfers" /\ tx.transfers = <<>> /\ state' = state
      BY <2>3 DEF VerifySettlementProofs, Commit
    <3>2. /\ n1 \/ n2 => o1 \in Obligations /\ o2 \in Obligations /\ Compatible(o1, o2)
          /\ ~n1 /\ ~n2 => Len(all) = 0
          /\ n1 /\ ~n2 => Len(all) = 2 /\ IsDeposit(all[1], o1) /\ IsWithdrawal(all[2], o1)
          /\ ~n1 /\ n2 => Len(all) = 2 /\ IsDeposit(all[1], o2) /\ IsWithdrawal(all[2], o2)
          /\ n1 /\ n2 => /\ Len(all) = 4
                         /\ IsDeposit(all[1], o1) /\ IsDeposit(all[2], o2)
                         /\ IsWithdrawal(all[3], o1) /\ IsWithdrawal(all[4], o2)
      BY <1>1, <2>1, <3>1, ListOfTransfers
    <3>3. \A m \in Tokens :
            state'.custody[m] = before.state.custody[m] + MovedBy(all, Len(all), m)
      <4>1. Len(all) \in Nat /\ Len(tx.transfers) = 0
        BY <1>1, <2>1, <3>1, TransfersOf
      <4>2. Done = Len(all)
        BY <4>1 DEF Done
      <4> QED BY <1>1, <3>1, <4>2 DEF CustodyInv
    <3>4. \A m \in Tokens : state'.custody[m] \in Nat /\ before.state.custody[m] \in Nat
      BY <1>1 DEF TypeInv, State
    <3>5. state'.custody \in [Tokens -> Nat] /\ before.state.custody \in [Tokens -> Nat]
      BY <1>1 DEF TypeInv, State
    <3>6. \A o \in Obligations : /\ o.inputToken \in Tokens /\ o.outputToken \in Tokens
                                 /\ o.amountIn \in Nat /\ o.amountOut \in Nat
      BY V2Assumption
    <3>7. \A i \in 1..2 : i = 1 \/ i = 2
      OBVIOUS
    <3> HIDE DEF all
    <3>8. CASE ~n1 /\ ~n2
      <4>1. native = {}
        BY <3>7, <3>8
      <4>2. \A m \in Tokens : MovedBy(all, Len(all), m) = 0
        BY <3>2, <3>8 DEF MovedBy
      <4>3. Unchanged
        BY <3>3, <3>4, <3>5, <4>2
      <4>4. native # 1..2
        BY <4>1
      <4> HIDE DEF native
      <4> QED BY <4>3, <4>4 DEF KeepsOthersFunds, native
    <3>9. CASE n1 /\ ~n2
      <4>1. native = {1}
        BY <3>7, <3>9
      <4>2. ASSUME NEW m \in Tokens
            PROVE  /\ MovedBy(all, Len(all), m) = Leg(1, m) /\ Leg(1, m) \in Int
        <5>1. o1 \in Obligations /\ Len(all) = 2 /\ IsDeposit(all[1], o1) /\ IsWithdrawal(all[2], o1)
          BY <3>2, <3>9
        <5>2. MovedBy(all, Len(all), m) = Effect(all[1], m) + Effect(all[2], m) + 0 + 0
          BY <5>1 DEF MovedBy
        <5>3. /\ Effect(all[1], m) = IF o1.inputToken = m THEN o1.amountIn ELSE 0
              /\ Effect(all[2], m) = IF o1.outputToken = m THEN 0 - o1.amountOut ELSE 0
          BY <3>6, <5>1 DEF Effect, IsDeposit, IsWithdrawal
        <5> QED BY <3>6, <5>1, <5>2, <5>3
      <4>3. native # 1..2
        BY <4>1
      <4>4. ASSUME NEW m \in Tokens
            PROVE  SumFunctionOnSet([i \in native |-> Leg(i, m)], native) = Leg(1, m)
        <5> DEFINE legs == [i \in native |-> Leg(i, m)]
        <5>1. legs[1] = Leg(1, m)
          BY <4>1
        <5> HIDE DEF legs
        <5>2. SumFunctionOnSet(legs, {1}) = Leg(1, m)
          BY <4>2, <5>1, SumOfParties
        <5> QED BY <4>1, <5>2 DEF legs
      <4> HIDE DEF native
      <4>5. Agreed
        BY <3>3, <3>4, <4>2, <4>4
      <4> QED BY <4>3, <4>5 DEF KeepsOthersFunds, native
    <3>10. CASE ~n1 /\ n2
      <4>1. native = {2}
        BY <3>7, <3>10
      <4>2. ASSUME NEW m \in Tokens
            PROVE  /\ MovedBy(all, Len(all), m) = Leg(2, m) /\ Leg(2, m) \in Int
        <5>1. o2 \in Obligations /\ Len(all) = 2 /\ IsDeposit(all[1], o2) /\ IsWithdrawal(all[2], o2)
          BY <3>2, <3>10
        <5>2. MovedBy(all, Len(all), m) = Effect(all[1], m) + Effect(all[2], m) + 0 + 0
          BY <5>1 DEF MovedBy
        <5>3. /\ Effect(all[1], m) = IF o2.inputToken = m THEN o2.amountIn ELSE 0
              /\ Effect(all[2], m) = IF o2.outputToken = m THEN 0 - o2.amountOut ELSE 0
          BY <3>6, <5>1 DEF Effect, IsDeposit, IsWithdrawal
        <5> QED BY <3>6, <5>1, <5>2, <5>3
      <4>3. native # 1..2
        BY <4>1
      <4>4. ASSUME NEW m \in Tokens
            PROVE  SumFunctionOnSet([i \in native |-> Leg(i, m)], native) = Leg(2, m)
        <5> DEFINE legs == [i \in native |-> Leg(i, m)]
        <5>1. legs[2] = Leg(2, m)
          BY <4>1
        <5> HIDE DEF legs
        <5>2. SumFunctionOnSet(legs, {2}) = Leg(2, m)
          BY <4>2, <5>1, SumOfParties
        <5> QED BY <4>1, <5>2 DEF legs
      <4> HIDE DEF native
      <4>5. Agreed
        BY <3>3, <3>4, <4>2, <4>4
      <4> QED BY <4>3, <4>5 DEF KeepsOthersFunds, native
    <3>11. CASE n1 /\ n2
      <4>1. ASSUME NEW m \in Tokens PROVE MovedBy(all, Len(all), m) = 0
        <5>1. /\ o1 \in Obligations /\ o2 \in Obligations /\ Compatible(o1, o2)
              /\ Len(all) = 4 /\ IsDeposit(all[1], o1) /\ IsDeposit(all[2], o2)
              /\ IsWithdrawal(all[3], o1) /\ IsWithdrawal(all[4], o2)
          BY <3>2, <3>11
        <5>2. MovedBy(all, Len(all), m)
                = Effect(all[1], m) + Effect(all[2], m) + Effect(all[3], m) + Effect(all[4], m)
          BY <5>1 DEF MovedBy
        <5>3. /\ Effect(all[1], m) = IF o1.inputToken = m THEN o1.amountIn ELSE 0
              /\ Effect(all[2], m) = IF o1.outputToken = m THEN o1.amountOut ELSE 0
              /\ Effect(all[3], m) = IF o1.outputToken = m THEN 0 - o1.amountOut ELSE 0
              /\ Effect(all[4], m) = IF o1.inputToken = m THEN 0 - o1.amountIn ELSE 0
          BY <3>6, <5>1 DEF Effect, IsDeposit, IsWithdrawal, Compatible
        <5> QED BY <3>6, <5>1, <5>2, <5>3
      <4>2. Unchanged
        BY <3>3, <3>4, <3>5, <4>1
      <4> QED BY <4>2 DEF KeepsOthersFunds
    <3> QED BY <3>8, <3>9, <3>10, <3>11
  <2>4. ASSUME Settle \/ ExecuteSettlementBundle \/ ExecuteTransfer \/ UpdateBalance PROVE FALSE
    <3>1. ASSUME Settle PROVE FALSE
      BY <3>1 DEF Settle, SettleMatch
    <3>2. ASSUME ExecuteSettlementBundle PROVE FALSE
      <4>1. PICK s, later : BundleEffect(s, later)
        BY <1>1, <3>2, BundleOK
      <4>2. tx' \in Settling
        BY <1>1, <3>2, <4>1, BundleOK, ExecutedOK DEF BundleEffect
      <4> QED BY <4>2, SettlingRuns
    <3>3. ASSUME ExecuteTransfer PROVE FALSE
      <4>1. tx' \in Settling
        BY <1>1, <3>3, TransferOK
      <4> QED BY <4>1, SettlingRuns
    <3>4. ASSUME UpdateBalance PROVE FALSE
      BY <1>1, <3>4, UpdateOK DEF UpdateEffect
    <3> QED BY <2>4, <3>1, <3>2, <3>3, <3>4
  <2>5. ASSUME UNCHANGED vars PROVE FALSE
    BY <2>5 DEF vars, Running
  <2> QED BY <1>1, <2>2, <2>3, <2>4, <2>5 DEF Next
<1> QED BY <1>1, Types, ContextOK, CustodyOK, PTL DEF Spec, SettlementMovesCustody

-----------------------------------------------------------------------------
(* The fills of public intents.                                             *)

LEMMA DigestsDiffer ==
    /\ Permits \cap Obligations = {}
    /\ \A i : /\ CommitmentDigest(i) \notin Obligations /\ RotationDigest(i) \notin Obligations
              /\ CommitmentDigest(i) \notin Permits /\ RotationDigest(i) \notin Permits
<1>1. \A p \in Permits : DOMAIN p = {"intent", "executor"}
  BY V2Assumption
<1>2. \A o \in Obligations : DOMAIN o = {"inputToken", "outputToken", "amountIn", "amountOut"}
  BY V2Assumption
<1>3. \A i : DOMAIN CommitmentDigest(i) = {"commitment"}
             /\ DOMAIN RotationDigest(i) = {"commitment", "key"}
  BY DEF CommitmentDigest, RotationDigest
<1> QED BY <1>1, <1>2, <1>3

LEMMA SignatureFields ==
    \A signer, digest, nonce :
        LET x == SignatureOf(signer, digest, nonce) IN
        x.signer = signer /\ x.digest = digest /\ x.nonce = nonce
BY DEF SignatureOf

(* The obligation may fall short of the price by less than a unit.          *)
LEMMA PriceRounded ==
    ASSUME NEW price \in Nat, NEW in \in Nat, NEW out \in Nat,
           out >= unsafeFixedPointMul(price, in)
    PROVE  out * Precision + (Precision - 1) >= price * in
<1>1. Precision \in Nat \ {0}
  BY PrecisionAssumption
<1>2. price * in \in Nat
  OBVIOUS
<1>3. ASSUME NEW a \in Nat, NEW p \in Nat \ {0}, NEW q \in Nat, q >= a \div p
      PROVE  q * p + (p - 1) >= a
  <2>1. a \div p \in Nat /\ a <= p * (a \div p) + (p - 1)
    OBVIOUS
  <2>2. ASSUME NEW d \in Nat, d <= q PROVE p * d <= q * p
    BY <2>2
  <2> QED BY <1>3, <2>1, <2>2
<1> QED BY <1>1, <1>2, <1>3 DEF unsafeFixedPointMul

LEMMA FillingStays ==
    ASSUME NEW s, NEW h, Filling(s, h), NEW r, NEW k,
           r.openPublicIntents = s.openPublicIntents, s.spentNonces \subseteq r.spentNonces,
           k.accepted = h.accepted, k.filled = h.filled, k.got = h.got, k.fills = h.fills
    PROVE  Filling(r, k)
<1>1. \A signer, digest : SignedIn(k, signer, digest) = SignedIn(h, signer, digest)
  BY DEF SignedIn
<1>2. \A e : ObligationsSigned(k, e) = ObligationsSigned(h, e)
  BY DEF ObligationsSigned
<1>3. Authorized(r, k)
  BY <1>1 DEF Filling, Authorized
<1>4. Priced(k)
  BY DEF Filling, Priced
<1>5. \A p \in Permits : Cosigned(k, p.executor)
  BY <1>2 DEF Filling, Cosigned
<1>6. NoncesOnce(r, k)
  BY DEF Filling, NoncesOnce
<1> QED BY <1>3, <1>4, <1>5, <1>6 DEF Filling

(* A signature on a private intent is neither the authorization of a public *)
(* one nor an executor's.                                                   *)
LEMMA FillingAccepts ==
    ASSUME NEW s, NEW h, Filling(s, h), NEW r, NEW k, NEW x,
           x.digest \notin Permits, x.digest \notin Obligations,
           x.nonce \notin s.spentNonces, x.nonce \in r.spentNonces,
           r.openPublicIntents = s.openPublicIntents, s.spentNonces \subseteq r.spentNonces,
           k.accepted = h.accepted \cup {x}, k.filled = h.filled, k.got = h.got,
           k.fills = h.fills
    PROVE  Filling(r, k)
<1>1. \A p \in Permits : SignedIn(k, p.intent.owner, p) = SignedIn(h, p.intent.owner, p)
  BY DEF SignedIn
<1>2. \A e : ObligationsSigned(k, e) = ObligationsSigned(h, e)
  BY DEF ObligationsSigned
<1>3. Authorized(r, k)
  BY <1>1 DEF Filling, Authorized
<1>4. Priced(k)
  BY DEF Filling, Priced
<1>5. \A p \in Permits : Cosigned(k, p.executor)
  BY <1>2 DEF Filling, Cosigned
<1>6. IsFiniteSet(k.accepted)
  BY FS_AddElement DEF Filling, NoncesOnce
<1>7. NoncesOnce(r, k)
  BY <1>6 DEF Filling, NoncesOnce
<1> QED BY <1>3, <1>4, <1>5, <1>7 DEF Filling

(* A step of a public intent: one signature of its executor more, on the    *)
(* obligation, and one of its owner's, on the intent, if none of it is open.*)
LEMMA FillingPublic ==
    ASSUME TypeInv, Filling(state, history),
           NEW p \in Permits, NEW m \in Nonces, NEW n \in Nonces, PublicIntent(p, m, n)
    PROVE  Filling(state', history')
<1> DEFINE o        == tx.obligations[tx.party]
           cosigned == SpendNonce(state, m)
           opened   == Open(cosigned, p, n)
           executed == SignatureOf(p.executor, o, m)
           signed   == SignatureOf(p.intent.owner, p, n)
           isNew    == state.openPublicIntents[p] = 0
           h        == history
           k        == history'
<1>1. PublicEffect(p, m, n)
  BY PublicIntentOK
<1>2. /\ o \in Obligations /\ opened \in State
      /\ opened.spentNonces = cosigned.spentNonces \cup IF isNew THEN {n} ELSE {}
      /\ opened.openPublicIntents = IF isNew
                                    THEN [state.openPublicIntents EXCEPT ![p] = p.intent.amountIn]
                                    ELSE state.openPublicIntents
      /\ o.amountIn <= opened.openPublicIntents[p]
  BY <1>1 DEF PublicEffect
<1>3. state' = Filled(opened, p, o.amountIn)
  BY DEF PublicIntent, Executed
<1>4. /\ m \notin state.spentNonces
      /\ isNew => n \notin cosigned.spentNonces
      /\ o.amountOut >= unsafeFixedPointMul(p.intent.minPrice, o.amountIn)
      /\ k.accepted = h.accepted \cup {executed} \cup (IF isNew THEN {signed} ELSE {})
      /\ k.filled = [h.filled EXCEPT ![p] = @ + o.amountIn]
      /\ k.got = [h.got EXCEPT ![p] = @ + o.amountOut]
      /\ k.fills = [h.fills EXCEPT ![p] = @ + 1]
  BY DEF PublicIntent, CanSpendNonce, ObligationWithinIntent
<1>5. /\ h.filled \in [Permits -> Nat] /\ h.got \in [Permits -> Nat]
      /\ h.fills \in [Permits -> Nat] /\ state.openPublicIntents \in [Permits -> Nat]
      /\ cosigned.spentNonces = state.spentNonces \cup {m}
  BY Fields DEF TypeInv, State, History
<1>6. o.amountIn \in Nat /\ o.amountOut \in Nat
  BY <1>2, V2Assumption
<1>7. /\ executed.signer = p.executor /\ executed.digest = o /\ executed.nonce = m
      /\ signed.signer = p.intent.owner /\ signed.digest = p /\ signed.nonce = n
  BY SignatureFields
<1>8. o \notin Permits /\ p \notin Obligations
  BY <1>2, DigestsDiffer
<1>9. \A q \in Permits : q.intent.amountIn \in Nat /\ q.intent.minPrice \in Nat
  BY V2Assumption
<1> HIDE DEF o, cosigned, opened, executed, signed, h, k
<1>10. /\ state'.spentNonces = opened.spentNonces
       /\ state'.openPublicIntents = [opened.openPublicIntents EXCEPT ![p] = @ - o.amountIn]
  BY <1>2, <1>3 DEF Filled, State
<1>11. /\ IsFiniteSet(h.accepted) /\ \A x \in h.accepted : x.nonce \in state.spentNonces
       /\ \A x, y \in h.accepted : x.nonce = y.nonce => x = y
  BY DEF Filling, NoncesOnce, h
<1>12. executed \notin h.accepted /\ (isNew => signed \notin h.accepted /\ m # n)
  BY <1>4, <1>5, <1>7, <1>11
<1>13. NoncesOnce(state', k)
  <2>1. IsFiniteSet(h.accepted \cup {executed})
    BY <1>11, FS_AddElement
  <2>2. CASE isNew
    <3>1. k.accepted = (h.accepted \cup {executed}) \cup {signed}
      BY <1>4, <2>2
    <3>2. IsFiniteSet(k.accepted)
      BY <2>1, <3>1, FS_AddElement
    <3>3. state'.spentNonces = (state.spentNonces \cup {m}) \cup {n}
      BY <1>2, <1>5, <1>10, <2>2
    <3>4. \A x \in k.accepted : x.nonce \in state'.spentNonces
      BY <1>7, <1>11, <3>1, <3>3
    <3>5. m \notin state.spentNonces /\ n \notin state.spentNonces /\ m # n
      BY <1>4, <1>5, <2>2
    <3>6. \A x, y \in k.accepted : x.nonce = y.nonce => x = y
      BY <1>7, <1>11, <3>1, <3>5
    <3> QED BY <3>2, <3>4, <3>6 DEF NoncesOnce
  <2>3. CASE ~isNew
    <3>1. k.accepted = h.accepted \cup {executed}
      BY <1>4, <2>3
    <3>2. state'.spentNonces = state.spentNonces \cup {m}
      BY <1>2, <1>5, <1>10, <2>3
    <3>3. \A x \in k.accepted : x.nonce \in state'.spentNonces
      BY <1>7, <1>11, <3>1, <3>2
    <3>4. \A x, y \in k.accepted : x.nonce = y.nonce => x = y
      BY <1>4, <1>7, <1>11, <3>1
    <3> QED BY <2>1, <3>1, <3>3, <3>4 DEF NoncesOnce
  <2> QED BY <2>2, <2>3
<1>14. Authorized(state', k)
  <2> SUFFICES ASSUME NEW q \in Permits
               PROVE  k.filled[q] + state'.openPublicIntents[q]
                        = q.intent.amountIn * Cardinality(SignedIn(k, q.intent.owner, q))
    BY DEF Authorized
  <2> DEFINE old == SignedIn(h, q.intent.owner, q)
             new == SignedIn(k, q.intent.owner, q)
             total == q.intent.amountIn
             c == Cardinality(old)
  <2>1. h.filled[q] + state.openPublicIntents[q] = total * c
    BY DEF Filling, Authorized, h
  <2>2. IsFiniteSet(old) /\ c \in Nat
    <3>1. old \subseteq h.accepted
      BY DEF SignedIn
    <3> HIDE DEF old
    <3>2. IsFiniteSet(old)
      BY <1>11, <3>1, FS_Subset
    <3> QED BY <3>2, FS_CardinalityType
  <2>3. total \in Nat /\ h.filled[q] \in Nat /\ state.openPublicIntents[q] \in Nat
    BY <1>5, <1>9
  <2>4. CASE q = p /\ isNew
    <3>1. new = old \cup {signed} /\ signed \notin old
      BY <1>4, <1>7, <1>8, <1>12, <2>4 DEF SignedIn
    <3> HIDE DEF old, new, total
    <3>2. Cardinality(new) = c + 1
      BY <2>2, <3>1, FS_AddElement
    <3>3. /\ k.filled[q] = h.filled[q] + o.amountIn
          /\ state'.openPublicIntents[q] = total - o.amountIn
          /\ state.openPublicIntents[q] = 0
      BY <1>2, <1>4, <1>5, <1>10, <2>4 DEF total
    <3>4. total * (c + 1) = total * c + total
      BY <2>2, <2>3
    <3>5. total * c \in Nat
      BY <2>2, <2>3
    <3> QED BY <1>6, <2>1, <2>3, <3>2, <3>3, <3>4, <3>5 DEF new, total
  <2>5. CASE q = p /\ ~isNew
    <3>1. new = old
      BY <1>4, <1>7, <1>8, <2>5 DEF SignedIn
    <3> HIDE DEF old, new, total
    <3>2. /\ k.filled[q] = h.filled[q] + o.amountIn
          /\ state'.openPublicIntents[q] = state.openPublicIntents[q] - o.amountIn
      BY <1>2, <1>4, <1>5, <1>10, <2>5
    <3> QED BY <1>6, <2>1, <2>3, <3>1, <3>2 DEF new, total
  <2>6. CASE q # p
    <3>1. new = old
      BY <1>4, <1>7, <1>8, <2>6 DEF SignedIn
    <3> HIDE DEF old, new, total
    <3>2. /\ k.filled[q] = h.filled[q]
          /\ state'.openPublicIntents[q] = state.openPublicIntents[q]
      BY <1>2, <1>4, <1>5, <1>10, <2>6
    <3> QED BY <2>1, <3>1, <3>2 DEF new, total
  <2> QED BY <2>4, <2>5, <2>6
<1>15. Priced(k)
  <2> SUFFICES ASSUME NEW q \in Permits
               PROVE  k.got[q] * Precision + k.fills[q] * (Precision - 1)
                        >= q.intent.minPrice * k.filled[q]
    BY DEF Priced
  <2> DEFINE P == Precision
             price == q.intent.minPrice
  <2>1. h.got[q] * P + h.fills[q] * (P - 1) >= price * h.filled[q]
    BY DEF Filling, Priced, h
  <2>2. CASE q # p
    BY <1>4, <1>5, <2>1, <2>2
  <2>3. CASE q = p
    <3>1. /\ k.got[q] = h.got[q] + o.amountOut /\ k.fills[q] = h.fills[q] + 1
          /\ k.filled[q] = h.filled[q] + o.amountIn
      BY <1>4, <1>5, <2>3
    <3>2. o.amountOut * P + (P - 1) >= price * o.amountIn
      BY <1>4, <1>6, <1>9, <2>3, PriceRounded
    <3>3. /\ h.got[q] \in Nat /\ h.fills[q] \in Nat /\ h.filled[q] \in Nat /\ price \in Nat
          /\ P \in Nat \ {0}
      BY <1>5, <1>9, PrecisionAssumption
    <3>4. ASSUME NEW g \in Nat, NEW f \in Nat, NEW a \in Nat, NEW in \in Nat, NEW out \in Nat,
                 NEW r \in Nat, NEW one \in Nat \ {0},
                 g * one + f * (one - 1) >= r * a, out * one + (one - 1) >= r * in
          PROVE  (g + out) * one + (f + 1) * (one - 1) >= r * (a + in)
      <4>1. (g + out) * one = g * one + out * one
        OBVIOUS
      <4>2. (f + 1) * (one - 1) = f * (one - 1) + (one - 1)
        OBVIOUS
      <4>3. r * (a + in) = r * a + r * in
        OBVIOUS
      <4>4. /\ g * one \in Nat /\ out * one \in Nat /\ f * (one - 1) \in Nat
            /\ r * a \in Nat /\ r * in \in Nat
        OBVIOUS
      <4> QED BY <3>4, <4>1, <4>2, <4>3, <4>4
    <3> HIDE DEF P, price
    <3> QED BY <1>6, <2>1, <3>1, <3>2, <3>3, <3>4 DEF P, price
  <2> QED BY <2>2, <2>3
<1>16. ASSUME NEW q \in Permits PROVE Cosigned(k, q.executor)
  <2> DEFINE e    == q.executor
             S    == {r \in Permits : r.executor = e}
             old  == ObligationsSigned(h, e)
             new  == ObligationsSigned(k, e)
             f    == [x \in old |-> x.digest.amountIn]
             ff   == [x \in new |-> x.digest.amountIn]
  <2>1. SumFunctionOnSet(h.filled, S) = SumFunctionOnSet(f, old)
    BY DEF Filling, Cosigned, h
  <2>2. IsFiniteSet(S)
    <3>1. S \subseteq Permits
      OBVIOUS
    <3> HIDE DEF S
    <3> QED BY <3>1, FS_Subset, V2Assumption
  <2>3. \A r \in S : h.filled[r] \in Int /\ k.filled[r] \in Int
    BY <1>4, <1>5, <1>6
  <2>4. IsFiniteSet(old) /\ \A x \in old : f[x] \in Int
    <3>1. old \subseteq h.accepted
      BY DEF ObligationsSigned
    <3>2. \A x \in old : x.digest.amountIn \in Nat
      BY V2Assumption DEF ObligationsSigned
    <3>3. \A x \in old : f[x] \in Int
      BY <3>2
    <3> HIDE DEF old
    <3> QED BY <1>11, <3>1, <3>3, FS_Subset
  <2>5. CASE p.executor = e
    <3>1. new = old \cup {executed} /\ executed \notin old
      BY <1>2, <1>4, <1>7, <1>8, <1>12, <2>5 DEF ObligationsSigned
    <3>2. p \in S /\ k.filled[p] = h.filled[p] + o.amountIn
          /\ \A r \in S \ {p} : k.filled[r] = h.filled[r]
      BY <1>4, <1>5, <2>5
    <3>3. ff[executed] = o.amountIn /\ \A x \in old : ff[x] = f[x]
      BY <1>7, <3>1
    <3> HIDE DEF S, old, new, f, ff
    <3>4. SumFunctionOnSet(k.filled, S)
            = SumFunctionOnSet(h.filled, S) + k.filled[p] - h.filled[p]
      BY <2>2, <2>3, <3>2, SumChange
    <3>5. SumFunctionOnSet(ff, old \cup {executed}) = SumFunctionOnSet(f, old) + ff[executed]
      BY <1>6, <2>4, <3>1, <3>3, SumAdd
    <3>6. SumFunctionOnSet(f, old) \in Int
      BY <2>4, SumInt
    <3>7. SumFunctionOnSet(k.filled, S) = SumFunctionOnSet(f, old) + o.amountIn
      BY <1>5, <1>6, <2>1, <3>2, <3>4, <3>6
    <3>8. SumFunctionOnSet(ff, new) = SumFunctionOnSet(f, old) + o.amountIn
      BY <3>1, <3>3, <3>5
    <3> QED BY <3>7, <3>8 DEF Cosigned, S, new, ff
  <2>6. CASE p.executor # e
    <3>1. new = old
      BY <1>4, <1>7, <1>8, <2>6 DEF ObligationsSigned
    <3>2. \A r \in S : k.filled[r] = h.filled[r]
      BY <1>4, <1>5, <2>6
    <3> HIDE DEF S, old, new
    <3>3. SumFunctionOnSet(k.filled, S) = SumFunctionOnSet(h.filled, S)
      BY <2>2, <2>3, <3>2, SumSame
    <3> QED BY <2>1, <3>1, <3>3 DEF Cosigned, S, new
  <2> QED BY <2>5, <2>6
<1> QED BY <1>13, <1>14, <1>15, <1>16 DEF Filling, k

LEMMA FillsAfterBundle ==
    ASSUME TypeInv, Filling(state, history), ExecuteSettlementBundle
    PROVE  Filling(state', history')
<1>1. tx \in Settling /\ tx.phase = "bundles" /\ state \in State
  BY BundleOK DEF TypeInv
<1>2. ASSUME NEW p \in Permits, NEW m \in Nonces, NEW n \in Nonces, PublicIntent(p, m, n)
      PROVE  Filling(state', history')
  BY <1>2, FillingPublic
<1>3. ASSUME NEW i \in PrivateIntents, NEW n \in Nonces, NativePrivateFirstFill(i, n)
      PROVE  Filling(state', history')
  <2> DEFINE spent == SpendNonce(state, n)
             new   == Element("intent", i, 1)
             x     == SignatureOf(i.owner, CommitmentDigest(i), n)
  <2>1. /\ state' = InsertMerkleLeaf(spent, new)
        /\ history'.accepted = history.accepted \cup {x} /\ Kept
    BY <1>1, <1>3, NativeFirstFillOK, PrivateStepEffect
  <2>2. n \notin state.spentNonces
    BY <1>3 DEF NativePrivateFirstFill, CanSpendNonce
  <2>3. /\ x.digest \notin Permits /\ x.digest \notin Obligations /\ x.nonce = n
    BY SignatureFields, DigestsDiffer
  <2>4. /\ spent \in State /\ spent.openPublicIntents = state.openPublicIntents
        /\ spent.spentNonces = state.spentNonces \cup {n}
    BY <1>1, StateTypes, Fields
  <2> HIDE DEF spent, x, new
  <2>5. /\ state'.openPublicIntents = state.openPublicIntents
        /\ state'.spentNonces = state.spentNonces \cup {n}
    BY <2>1, <2>4, Fields
  <2> QED BY <2>1, <2>2, <2>3, <2>5, FillingAccepts DEF Kept
<1>4. ASSUME NEW e \in Nameable("intent"), NativePrivateFill(e) PROVE Filling(state', history')
  <2>1. /\ state' = Rotate(state, e) /\ e \in StateElements
        /\ history'.accepted = history.accepted \cup {} /\ Kept
    BY <1>1, <1>4, NativeFillOK, NamedElement, PrivateStepEffect
  <2>2. /\ state'.openPublicIntents = state.openPublicIntents
        /\ state'.spentNonces = state.spentNonces
    BY <1>1, <2>1, RotateFields
  <2> QED BY <2>1, <2>2, FillingStays DEF Kept
<1>5. ASSUME NEW b \in Nameable("balance"), NEW i \in PrivateIntents, NEW n \in Nonces,
             RenegadeFirstFill(b, i, n)
      PROVE  Filling(state', history')
  <2> DEFINE spent  == SpendNonce(state, n)
             moved  == Rotate(spent, b)
             new    == Element("intent", i, 1)
             x      == SignatureOf(b.of.key, RotationDigest(i), n)
  <2>1. /\ state' = RotateAndInsert(spent, b, new) /\ b \in StateElements
        /\ history'.accepted = history.accepted \cup {x} /\ Kept
    <3>1. PrivateStep(RotateAndInsert(spent, b, new), {x})
      BY <1>5, RenegadeFirstFillOK
    <3> HIDE DEF spent, new, x
    <3> QED BY <1>1, <3>1, NamedElement, PrivateStepEffect
  <2>2. state' = InsertMerkleLeaf(moved, new)
    BY <2>1 DEF RotateAndInsert
  <2>3. n \notin state.spentNonces
    BY <1>5 DEF RenegadeFirstFill, CanSpendNonce
  <2>4. /\ x.digest \notin Permits /\ x.digest \notin Obligations /\ x.nonce = n
    BY SignatureFields, DigestsDiffer
  <2>5. /\ spent \in State /\ spent.openPublicIntents = state.openPublicIntents
        /\ spent.spentNonces = state.spentNonces \cup {n}
    BY <1>1, StateTypes, Fields
  <2> HIDE DEF spent, x, new
  <2>6. /\ moved \in State /\ moved.openPublicIntents = state.openPublicIntents
        /\ moved.spentNonces = state.spentNonces \cup {n}
    BY <2>1, <2>5, RotateType, RotateFields
  <2> HIDE DEF moved
  <2>7. /\ state'.openPublicIntents = state.openPublicIntents
        /\ state'.spentNonces = state.spentNonces \cup {n}
    BY <2>2, <2>6, Fields
  <2> QED BY <2>1, <2>3, <2>4, <2>7, FillingAccepts DEF Kept
<1>6. ASSUME NEW b \in Nameable("balance"), NEW e \in Nameable("intent"), RenegadeFill(b, e)
      PROVE  Filling(state', history')
  <2> DEFINE moved == Rotate(state, b)
  <2>1. /\ state' = RotateBoth(state, b, e) /\ b \in StateElements /\ e \in StateElements
        /\ history'.accepted = history.accepted \cup {} /\ Kept
    BY <1>1, <1>6, RenegadeFillOK, NamedElement, PrivateStepEffect
  <2>2. state' = Rotate(moved, e)
    BY <2>1 DEF RotateBoth
  <2>3. /\ moved \in State /\ moved.openPublicIntents = state.openPublicIntents
        /\ moved.spentNonces = state.spentNonces
    BY <1>1, <2>1, RotateType, RotateFields
  <2> HIDE DEF moved
  <2>4. /\ state'.openPublicIntents = state.openPublicIntents
        /\ state'.spentNonces = state.spentNonces
    BY <2>1, <2>2, <2>3, RotateFields
  <2> QED BY <2>1, <2>4, FillingStays DEF Kept
<1> QED BY <1>2, <1>3, <1>4, <1>5, <1>6 DEF ExecuteSettlementBundle

LEMMA FillsKept == ASSUME TypeInv, FillInv, [Next]_vars PROVE FillInv'
<1>1. CASE Settle
  BY <1>1, SettleOK, SettleMatchOK DEF FillInv
<1>2. CASE ExecuteSettlementBundle
  <2>1. before' = before
    <3>1. PICK s, later : BundleEffect(s, later)
      BY <1>2, BundleOK
    <3> QED BY <1>2, <3>1, BundleOK, ExecutedOK DEF BundleEffect
  <2> QED BY <1>2, <2>1, FillsAfterBundle DEF FillInv
<1>3. CASE ExecuteTransfer
  <2>1. /\ before' = before /\ history' = history /\ state'.spentNonces = state.spentNonces
        /\ state'.openPublicIntents = state.openPublicIntents
    BY <1>3, TransferOK
  <2>2. Filling(state', history')
    BY <2>1, FillingStays DEF FillInv
  <2> QED BY <2>1, <2>2 DEF FillInv
<1>4. CASE VerifySettlementProofs
  BY <1>4 DEF VerifySettlementProofs, Commit, FillInv
<1>5. CASE Revert
  BY <1>5 DEF Revert, FillInv
<1>6. CASE UpdateBalance
  <2>1. /\ before' = [state |-> state', history |-> history']
        /\ state'.spentNonces = state.spentNonces
        /\ state'.openPublicIntents = state.openPublicIntents
        /\ history'.accepted = history.accepted /\ history'.filled = history.filled
        /\ history'.got = history.got /\ history'.fills = history.fills
    BY <1>6, UpdateOK DEF UpdateEffect, InsertsNew, MovesOn, TypeInv, History
  <2>2. Filling(state', history')
    BY <2>1, FillingStays DEF FillInv
  <2> QED BY <2>1, <2>2 DEF FillInv
<1>7. CASE UNCHANGED vars
  BY <1>7 DEF vars, FillInv
<1> QED BY <1>1, <1>2, <1>3, <1>4, <1>5, <1>6, <1>7 DEF Next

LEMMA FillsOK == Spec => []FillInv
<1>1. ASSUME Init PROVE Filling(state, history)
  <2>1. \A p \in Permits : /\ history.filled[p] = 0 /\ history.got[p] = 0 /\ history.fills[p] = 0
                           /\ state.openPublicIntents[p] = 0 /\ p.intent.amountIn \in Nat
                           /\ p.intent.minPrice \in Nat
    BY <1>1, V2Assumption DEF Init
  <2>2. Precision \in Nat \ {0}
    BY PrecisionAssumption
  <2>3. Authorized(state, history)
    <3>1. \A p \in Permits : SignedIn(history, p.intent.owner, p) = {}
      BY <1>1 DEF Init, SignedIn
    <3>2. Cardinality({}) = 0
      BY FS_EmptySet
    <3>3. \A a \in Nat : a * 0 = 0
      OBVIOUS
    <3>4. ASSUME NEW p \in Permits
          PROVE  history.filled[p] + state.openPublicIntents[p]
                   = p.intent.amountIn * Cardinality(SignedIn(history, p.intent.owner, p))
      <4>1. Cardinality(SignedIn(history, p.intent.owner, p)) = 0
        BY <3>1, <3>2
      <4>2. p.intent.amountIn * 0 = 0
        BY <2>1, <3>3
      <4>3. history.filled[p] + state.openPublicIntents[p] = 0
        BY <2>1
      <4> QED BY <4>1, <4>2, <4>3
    <3> QED BY <3>4 DEF Authorized
  <2>4. Priced(history)
    BY <2>1, <2>2 DEF Priced
  <2>5. ASSUME NEW p \in Permits PROVE Cosigned(history, p.executor)
    <3> DEFINE S == {q \in Permits : q.executor = p.executor}
    <3>1. ObligationsSigned(history, p.executor) = {}
      BY <1>1 DEF Init, ObligationsSigned
    <3>2. IsFiniteSet(S)
      <4>1. S \subseteq Permits
        OBVIOUS
      <4> HIDE DEF S
      <4> QED BY <4>1, FS_Subset, V2Assumption
    <3>3. \A q \in S : history.filled[q] = 0
      BY <2>1
    <3> HIDE DEF S
    <3>4. SumFunctionOnSet(history.filled, S) = 0
      BY <3>2, <3>3, SumZero
    <3> QED BY <3>1, <3>4, SumEmpty DEF Cosigned, S
  <2>6. NoncesOnce(state, history)
    BY <1>1, FS_EmptySet DEF Init, NoncesOnce
  <2> QED BY <2>3, <2>4, <2>5, <2>6 DEF Filling
<1>2. Init => FillInv
  BY <1>1 DEF Init, FillInv
<1> QED BY <1>2, FillsKept, Types, PTL DEF Spec

(* A public intent is filled at most its amount for each accepted signature *)
(* of its owner, and what is not filled yet is open (Open, and              *)
(* decrementOpenIntentAmountRemaining).                                     *)
THEOREM FillsAreAuthorized == Spec => []FilledWithinAuthorizations
<1>1. FillInv => FilledWithinAuthorizations
  BY DEF FillInv, Filling, Authorized, SignedIn, FilledWithinAuthorizations, SignedFor
<1> QED BY <1>1, FillsOK, PTL

(* All that is taken under an executor's permits is what the executor has   *)
(* signed for, and no nonce ever serves two signatures (spendNonce).        *)
THEOREM ExecutorsSigned == Spec => []ExecutorsSignedEveryFill
<1>1. ASSUME FillInv PROVE ExecutorsSignedEveryFill
  <2>1. ASSUME NEW e \in {p.executor : p \in Permits} PROVE Cosigned(history, e)
    <3>1. PICK p \in Permits : e = p.executor
      OBVIOUS
    <3> QED BY <1>1, <3>1 DEF FillInv, Filling
  <2>2. \A x, y \in history.accepted : x.nonce = y.nonce => x = y
    BY <1>1 DEF FillInv, Filling, NoncesOnce
  <2> QED BY <2>1, <2>2 DEF ExecutorsSignedEveryFill, Cosigned, ObligationsSigned
<1> QED BY <1>1, FillsOK, PTL

(* Over all fills an owner is paid the minimum price, less a fraction of a  *)
(* unit for every fill (validateObligationIntentConstraints, rounding down).*)
THEOREM PaidAtPrice == Spec => []PaidAtPriceUpToRounding
<1>1. FillInv => PaidAtPriceUpToRounding
  BY DEF FillInv, Filling, Priced, PaidAtPriceUpToRounding
<1> QED BY <1>1, FillsOK, PTL

-----------------------------------------------------------------------------
(* The leaves: what a rotation, an opening and a fee note do to the counts, *)
(* and then every step.                                                     *)

LEMMA LeafNames ==
    /\ \A i, j : IntentLeaf(i) = IntentLeaf(j) => i = j
    /\ \A a, b : BalanceLeaf(a) = BalanceLeaf(b) => a = b
    /\ \A a, b : NoteLeaf(a) = NoteLeaf(b) => a = b
    /\ \A i, b : IntentLeaf(i) # BalanceLeaf(b) /\ IntentLeaf(i) # NoteLeaf(b)
    /\ \A a, b : BalanceLeaf(a) # NoteLeaf(b)
BY DEF IntentLeaf, BalanceLeaf, NoteLeaf

LEMMA SpentTypes ==
    ASSUME NEW s, IsFiniteSet(s.nullifiers), NEW l
    PROVE  IsFiniteSet(SpentIn(s, l)) /\ Cardinality(SpentIn(s, l)) \in Nat
<1>1. SpentIn(s, l) \subseteq s.nullifiers
  BY DEF SpentIn
<1> QED BY <1>1, FS_Subset, FS_CardinalityType

LEMMA OpeningTypes ==
    ASSUME NEW h, IsFiniteSet(h.accepted), NEW i
    PROVE  IsFiniteSet(Opening(h, i)) /\ Cardinality(Opening(h, i)) \in Nat
<1>1. Opening(h, i) \subseteq h.accepted
  BY DEF Opening
<1> QED BY <1>1, FS_Subset, FS_CardinalityType

(* An element more is one more of its own lineage.                          *)
Nullified(s, e, r) == e \notin s.nullifiers /\ r.nullifiers = s.nullifiers \cup {e}

LEMMA SpendsOne ==
    ASSUME NEW s, IsFiniteSet(s.nullifiers), NEW r, NEW e, Nullified(s, e, r)
    PROVE  /\ IsFiniteSet(r.nullifiers)
           /\ \A l : Cardinality(SpentIn(r, l))
                       = Cardinality(SpentIn(s, l)) + (IF l = Lineage(e) THEN 1 ELSE 0)
<1>1. IsFiniteSet(r.nullifiers)
  BY FS_AddElement DEF Nullified
<1>2. ASSUME NEW l, l = Lineage(e)
      PROVE  Cardinality(SpentIn(r, l)) = Cardinality(SpentIn(s, l)) + 1
  <2>1. SpentIn(r, l) = SpentIn(s, l) \cup {e} /\ e \notin SpentIn(s, l)
    BY <1>2 DEF SpentIn, Nullified
  <2> QED BY <2>1, SpentTypes, FS_AddElement
<1>3. ASSUME NEW l, l # Lineage(e)
      PROVE  Cardinality(SpentIn(r, l)) = Cardinality(SpentIn(s, l)) + 0
  <2>1. SpentIn(r, l) = SpentIn(s, l)
    BY <1>3 DEF SpentIn, Nullified
  <2> QED BY <2>1, SpentTypes
<1> QED BY <1>1, <1>2, <1>3

(* A signature on an intent opens this intent and no other.                 *)
LEMMA OpensOne ==
    ASSUME NEW x, NEW i, NEW j, Opens(x, i), Opens(x, j)
    PROVE  i = j
<1>1. CommitmentDigest(i) = CommitmentDigest(j) => i = j
  BY DEF CommitmentDigest
<1>2. RotationDigest(i) = RotationDigest(j) => i = j
  BY DEF RotationDigest
<1>3. CommitmentDigest(i) # RotationDigest(j) /\ RotationDigest(i) # CommitmentDigest(j)
  <2>1. \A a : DOMAIN CommitmentDigest(a) = {"commitment"}
               /\ DOMAIN RotationDigest(a) = {"commitment", "key"}
    BY DEF CommitmentDigest, RotationDigest
  <2> QED BY <2>1
<1> QED BY <1>1, <1>2, <1>3 DEF Opens

LEMMA OriginStays ==
    ASSUME NEW s, NEW h, Originated(s, h), NEW r, NEW k,
           r.leaves = s.leaves, r.nullifiers = s.nullifiers, k.opened = h.opened,
           \A i \in PrivateIntents : Opening(k, i) = Opening(h, i)
    PROVE  Originated(r, k)
<1>1. \A l : SpentIn(r, l) = SpentIn(s, l)
  BY DEF SpentIn
<1> QED BY <1>1 DEF Originated

LEMMA OriginRotate ==
    ASSUME NEW s \in State, NEW h, Originated(s, h), IsFiniteSet(h.accepted),
           h.opened \in [Balances -> Nat], NEW r, NEW e \in StateElements, e \notin s.nullifiers,
           r.nullifiers = s.nullifiers \cup {e},
           r.leaves = [s.leaves EXCEPT ![Lineage(e)] = @ + 1]
    PROVE  Originated(r, h)
<1> DEFINE Plus(l) == IF l = Lineage(e) THEN 1 ELSE 0
<1>1. /\ IsFiniteSet(s.nullifiers) /\ IsFiniteSet(r.nullifiers)
      /\ \A l : Cardinality(SpentIn(r, l)) = Cardinality(SpentIn(s, l)) + Plus(l)
  <2>1. IsFiniteSet(s.nullifiers)
    BY DEF Originated
  <2>2. /\ IsFiniteSet(r.nullifiers)
        /\ \A l : Cardinality(SpentIn(r, l))
                    = Cardinality(SpentIn(s, l)) + (IF l = Lineage(e) THEN 1 ELSE 0)
    <3>1. Nullified(s, e, r)
      BY DEF Nullified
    <3> QED BY <2>1, <3>1, SpendsOne
  <2> QED BY <2>1, <2>2
<1>2. \A l : Cardinality(SpentIn(s, l)) \in Nat
  BY <1>1, SpentTypes
<1>3. s.leaves \in [Lineages -> Nat] /\ Lineage(e) \in Lineages
  BY ElementTypes DEF State
<1>4. \A l \in Lineages : r.leaves[l] = s.leaves[l] + Plus(l) /\ s.leaves[l] \in Nat
  BY <1>3
<1> HIDE DEF Plus
<1>5. \A l : Plus(l) \in {0, 1}
  BY DEF Plus
<1>6. ASSUME NEW i \in PrivateIntents
      PROVE  r.leaves[IntentLeaf(i)]
               = Cardinality(SpentIn(r, IntentLeaf(i))) + Cardinality(Opening(h, i))
  <2>1. /\ IntentLeaf(i) \in Lineages /\ Cardinality(Opening(h, i)) \in Nat
        /\ s.leaves[IntentLeaf(i)]
             = Cardinality(SpentIn(s, IntentLeaf(i))) + Cardinality(Opening(h, i))
    BY ElementTypes, OpeningTypes DEF Originated
  <2> QED BY <1>1, <1>2, <1>4, <1>5, <2>1
<1>7. ASSUME NEW b \in Balances
      PROVE  /\ r.leaves[BalanceLeaf(b)] = Cardinality(SpentIn(r, BalanceLeaf(b))) + h.opened[b]
             /\ r.leaves[NoteLeaf(b)] <= Cardinality(SpentIn(r, BalanceLeaf(b)))
  <2>1. /\ BalanceLeaf(b) \in Lineages /\ NoteLeaf(b) \in Lineages /\ h.opened[b] \in Nat
        /\ s.leaves[BalanceLeaf(b)] = Cardinality(SpentIn(s, BalanceLeaf(b))) + h.opened[b]
        /\ s.leaves[NoteLeaf(b)] <= Cardinality(SpentIn(s, BalanceLeaf(b)))
    BY ElementTypes DEF Originated
  <2>2. Plus(NoteLeaf(b)) = 0
    BY DEF Plus, Lineage, NoteLeaf, StateElements
  <2> QED BY <1>1, <1>2, <1>4, <1>5, <2>1, <2>2
<1> QED BY <1>1, <1>6, <1>7 DEF Originated

OpenedBy(x, i, s, h, r, k) ==
    /\ x \notin h.accepted /\ Opens(x, i)
    /\ k.accepted = h.accepted \cup {x} /\ k.opened = h.opened
    /\ r.nullifiers = s.nullifiers
    /\ r.leaves = [s.leaves EXCEPT ![IntentLeaf(i)] = @ + 1]

LEMMA OriginOpens ==
    ASSUME NEW s \in State, NEW h, Originated(s, h), IsFiniteSet(h.accepted), NEW x,
           NEW i \in PrivateIntents, NEW r, NEW k, OpenedBy(x, i, s, h, r, k)
    PROVE  Originated(r, k)
<1>0. /\ x \notin h.accepted /\ Opens(x, i)
      /\ k.accepted = h.accepted \cup {x} /\ k.opened = h.opened
      /\ r.nullifiers = s.nullifiers
      /\ r.leaves = [s.leaves EXCEPT ![IntentLeaf(i)] = @ + 1]
  BY DEF OpenedBy
<1>1. \A l : SpentIn(r, l) = SpentIn(s, l)
  BY <1>0 DEF SpentIn
<1>2. s.leaves \in [Lineages -> Nat] /\ IntentLeaf(i) \in Lineages
  BY ElementTypes DEF State
<1>3. ASSUME NEW j \in PrivateIntents
      PROVE  r.leaves[IntentLeaf(j)]
               = Cardinality(SpentIn(r, IntentLeaf(j))) + Cardinality(Opening(k, j))
  <2> DEFINE c == Cardinality(SpentIn(s, IntentLeaf(j)))
             o == Cardinality(Opening(h, j))
  <2>1. /\ s.leaves[IntentLeaf(j)] = c + o /\ c \in Nat /\ o \in Nat
        /\ IntentLeaf(j) \in Lineages /\ IsFiniteSet(Opening(h, j))
    BY ElementTypes, SpentTypes, OpeningTypes DEF Originated
  <2>2. CASE j = i
    <3>1. Opening(k, j) = Opening(h, j) \cup {x} /\ x \notin Opening(h, j)
      BY <1>0, <2>2 DEF Opening
    <3>2. Cardinality(Opening(k, j)) = o + 1
      BY <2>1, <3>1, FS_AddElement
    <3>3. r.leaves[IntentLeaf(j)] = (c + o) + 1
      BY <1>0, <1>2, <2>1, <2>2
    <3> HIDE DEF c, o
    <3> QED BY <1>1, <2>1, <3>2, <3>3 DEF c
  <2>3. CASE j # i
    <3>1. Opening(k, j) = Opening(h, j)
      BY <1>0, <2>3, OpensOne DEF Opening
    <3>2. IntentLeaf(j) # IntentLeaf(i)
      BY <2>3, LeafNames
    <3>3. r.leaves[IntentLeaf(j)] = c + o
      BY <1>0, <1>2, <2>1, <3>2
    <3> QED BY <1>1, <3>1, <3>3
  <2> QED BY <2>2, <2>3
<1>4. ASSUME NEW b \in Balances
      PROVE  /\ r.leaves[BalanceLeaf(b)] = s.leaves[BalanceLeaf(b)]
             /\ r.leaves[NoteLeaf(b)] = s.leaves[NoteLeaf(b)]
  <2>1. BalanceLeaf(b) \in Lineages /\ NoteLeaf(b) \in Lineages
        /\ IntentLeaf(i) # BalanceLeaf(b) /\ IntentLeaf(i) # NoteLeaf(b)
    BY ElementTypes, LeafNames
  <2> QED BY <1>0, <1>2, <2>1
<1> QED BY <1>0, <1>1, <1>3, <1>4 DEF Originated

(* A new balance.                                                           *)
LEMMA OriginDeposit ==
    ASSUME NEW s \in State, NEW h \in History, Originated(s, h), IsFiniteSet(h.accepted),
           NEW b \in Balances, NEW r, NEW k,
           k = [h EXCEPT !.opened[b] = @ + 1], r.nullifiers = s.nullifiers,
           r.leaves = [s.leaves EXCEPT ![BalanceLeaf(b)] = @ + 1]
    PROVE  Originated(r, k)
<1>1. \A l : SpentIn(r, l) = SpentIn(s, l)
  BY DEF SpentIn
<1>2. s.leaves \in [Lineages -> Nat] /\ BalanceLeaf(b) \in Lineages
  BY ElementTypes DEF State
<1>3. /\ k.accepted = h.accepted /\ k.opened = [h.opened EXCEPT ![b] = @ + 1]
      /\ h.opened \in [Balances -> Nat]
  BY DEF History
<1>4. ASSUME NEW j \in PrivateIntents
      PROVE  /\ r.leaves[IntentLeaf(j)] = s.leaves[IntentLeaf(j)]
             /\ Opening(k, j) = Opening(h, j)
  <2>1. IntentLeaf(j) \in Lineages /\ IntentLeaf(j) # BalanceLeaf(b)
    BY ElementTypes, LeafNames
  <2> QED BY <1>2, <1>3, <2>1 DEF Opening
<1>5. ASSUME NEW c \in Balances
      PROVE  /\ r.leaves[BalanceLeaf(c)]
                  = Cardinality(SpentIn(s, BalanceLeaf(c))) + k.opened[c]
             /\ r.leaves[NoteLeaf(c)] = s.leaves[NoteLeaf(c)]
  <2>1. /\ BalanceLeaf(c) \in Lineages /\ NoteLeaf(c) \in Lineages
        /\ BalanceLeaf(b) # NoteLeaf(c)
        /\ BalanceLeaf(c) = BalanceLeaf(b) => c = b
        /\ Cardinality(SpentIn(s, BalanceLeaf(c))) \in Nat /\ h.opened[c] \in Nat
        /\ s.leaves[BalanceLeaf(c)] = Cardinality(SpentIn(s, BalanceLeaf(c))) + h.opened[c]
    BY <1>3, ElementTypes, LeafNames, SpentTypes DEF Originated
  <2>2. r.leaves[NoteLeaf(c)] = s.leaves[NoteLeaf(c)]
    BY <1>2, <2>1
  <2>3. CASE c = b
    <3>1. r.leaves[BalanceLeaf(c)] = s.leaves[BalanceLeaf(c)] + 1
      BY <1>2, <2>1, <2>3
    <3>2. k.opened[c] = h.opened[c] + 1
      BY <1>3, <2>3
    <3> QED BY <2>1, <2>2, <3>1, <3>2
  <2>4. CASE c # b
    <3>1. r.leaves[BalanceLeaf(c)] = s.leaves[BalanceLeaf(c)]
      BY <1>2, <2>1, <2>4
    <3>2. k.opened[c] = h.opened[c]
      BY <1>3, <2>4
    <3> QED BY <2>1, <2>2, <3>1, <3>2
  <2> QED BY <2>3, <2>4
<1> QED BY <1>1, <1>4, <1>5 DEF Originated

(* A balance that pays its fees: nullified once more than there were notes. *)
LEMMA OriginNote ==
    ASSUME NEW s \in State, NEW h, Originated(s, h), NEW b \in Balances,
           NEW moved \in State, Originated(moved, h), NEW r,
           moved.leaves[NoteLeaf(b)] = s.leaves[NoteLeaf(b)],
           Cardinality(SpentIn(moved, BalanceLeaf(b)))
             = Cardinality(SpentIn(s, BalanceLeaf(b))) + 1,
           r.nullifiers = moved.nullifiers,
           r.leaves = [moved.leaves EXCEPT ![NoteLeaf(b)] = @ + 1]
    PROVE  Originated(r, h)
<1>1. \A l : SpentIn(r, l) = SpentIn(moved, l)
  BY DEF SpentIn
<1>2. moved.leaves \in [Lineages -> Nat] /\ NoteLeaf(b) \in Lineages /\ s.leaves[NoteLeaf(b)] \in Nat
  BY ElementTypes DEF State
<1>3. \A i \in PrivateIntents : r.leaves[IntentLeaf(i)] = moved.leaves[IntentLeaf(i)]
  BY <1>2, ElementTypes, LeafNames
<1>4. \A c \in Balances : /\ r.leaves[BalanceLeaf(c)] = moved.leaves[BalanceLeaf(c)]
                          /\ c # b => r.leaves[NoteLeaf(c)] = moved.leaves[NoteLeaf(c)]
  BY <1>2, ElementTypes, LeafNames
<1>5. r.leaves[NoteLeaf(b)] <= Cardinality(SpentIn(r, BalanceLeaf(b)))
  <2>1. /\ s.leaves[NoteLeaf(b)] <= Cardinality(SpentIn(s, BalanceLeaf(b)))
        /\ Cardinality(SpentIn(s, BalanceLeaf(b))) \in Nat
    BY SpentTypes DEF Originated
  <2>2. r.leaves[NoteLeaf(b)] = s.leaves[NoteLeaf(b)] + 1
    BY <1>2
  <2> QED BY <1>1, <1>2, <2>1, <2>2
<1> QED BY <1>1, <1>3, <1>4, <1>5 DEF Originated

LEMMA OriginAfterBundle ==
    ASSUME TypeInv, Filling(state, history), Originated(state, history), ExecuteSettlementBundle
    PROVE  Originated(state', history')
<1>1. /\ tx \in Settling /\ tx.phase = "bundles" /\ state \in State /\ history \in History
      /\ IsFiniteSet(history.accepted) /\ history.opened \in [Balances -> Nat]
      /\ \A x \in history.accepted : x.nonce \in state.spentNonces
  BY BundleOK DEF TypeInv, Filling, NoncesOnce, History
<1>2. ASSUME NEW p \in Permits, NEW m \in Nonces, NEW n \in Nonces, PublicIntent(p, m, n)
      PROVE  Originated(state', history')
  <2> DEFINE o        == tx.obligations[tx.party]
             opened   == Open(SpendNonce(state, m), p, n)
             executed == SignatureOf(p.executor, o, m)
             signed   == SignatureOf(p.intent.owner, p, n)
  <2>1. /\ opened \in State /\ o \in Obligations
        /\ opened.leaves = state.leaves /\ opened.nullifiers = state.nullifiers
    BY <1>2, PublicIntentOK DEF PublicEffect
  <2>2. state' = Filled(opened, p, o.amountIn)
    BY <1>2 DEF PublicIntent, Executed
  <2>3. /\ \/ history'.accepted = history.accepted \cup {executed}
           \/ history'.accepted = history.accepted \cup {executed} \cup {signed}
        /\ history'.opened = history.opened
    BY <1>1, <1>2 DEF PublicIntent, History
  <2>4. executed.digest = o /\ signed.digest = p
    BY SignatureFields
  <2> HIDE DEF opened, executed, signed
  <2>5. state'.leaves = state.leaves /\ state'.nullifiers = state.nullifiers
    BY <2>1, <2>2 DEF Filled, State
  <2>6. ASSUME NEW i \in PrivateIntents PROVE ~Opens(executed, i) /\ ~Opens(signed, i)
    BY <2>1, <2>4, DigestsDiffer DEF Opens
  <2>7. \A i \in PrivateIntents : Opening(history', i) = Opening(history, i)
    BY <2>3, <2>6 DEF Opening
  <2> QED BY <2>3, <2>5, <2>7, OriginStays
<1>3. ASSUME NEW i \in PrivateIntents, NEW n \in Nonces, NativePrivateFirstFill(i, n)
      PROVE  Originated(state', history')
  <2> DEFINE spent == SpendNonce(state, n)
             new   == Element("intent", i, 1)
             x     == SignatureOf(i.owner, CommitmentDigest(i), n)
  <2>1. /\ state' = InsertMerkleLeaf(spent, new)
        /\ history'.accepted = history.accepted \cup {x} /\ Kept
    BY <1>1, <1>3, NativeFirstFillOK, PrivateStepEffect
  <2>2. n \notin state.spentNonces
    BY <1>3 DEF NativePrivateFirstFill, CanSpendNonce
  <2>3. x.nonce = n /\ Opens(x, i)
    BY SignatureFields DEF Opens
  <2>4. /\ spent \in State /\ spent.leaves = state.leaves /\ spent.nullifiers = state.nullifiers
    BY <1>1, StateTypes, Fields
  <2>5. Lineage(new) = IntentLeaf(i)
    BY ElementTypes
  <2> HIDE DEF spent, x, new
  <2>6. /\ state'.leaves = [state.leaves EXCEPT ![IntentLeaf(i)] = @ + 1]
        /\ state'.nullifiers = state.nullifiers
    BY <2>1, <2>4, <2>5, Fields
  <2>7. x \notin history.accepted /\ history'.opened = history.opened
    BY <1>1, <2>1, <2>2, <2>3 DEF Kept
  <2>8. OpenedBy(x, i, state, history, state', history')
    BY <2>1, <2>3, <2>6, <2>7 DEF OpenedBy
  <2> QED BY <1>1, <2>8, OriginOpens
<1>4. ASSUME NEW e \in StateElements, e \notin state.nullifiers, state' = Rotate(state, e),
             history'.accepted = history.accepted, Kept
      PROVE  Originated(state', history')
  <2>1. /\ state'.leaves = [state.leaves EXCEPT ![Lineage(e)] = @ + 1]
        /\ state'.nullifiers = state.nullifiers \cup {e}
    BY <1>1, <1>4, RotateFields
  <2>2. Originated(state', history)
    BY <1>1, <1>4, <2>1, OriginRotate
  <2>3. \A i \in PrivateIntents : Opening(history', i) = Opening(history, i)
    BY <1>4 DEF Opening
  <2> QED BY <1>4, <2>2, <2>3, OriginStays DEF Kept
<1>5. ASSUME NEW e \in Nameable("intent"), NativePrivateFill(e) PROVE Originated(state', history')
  <2>1. /\ state' = Rotate(state, e) /\ e \in StateElements
        /\ history'.accepted = history.accepted \cup {} /\ Kept
    BY <1>1, <1>5, NativeFillOK, NamedElement, PrivateStepEffect
  <2>2. e \notin state.nullifiers
    BY <1>5 DEF NativePrivateFill, CanSpendNullifier
  <2> QED BY <1>4, <2>1, <2>2
<1>6. ASSUME NEW b \in Nameable("balance"), NEW i \in PrivateIntents, NEW n \in Nonces,
             RenegadeFirstFill(b, i, n)
      PROVE  Originated(state', history')
  <2> DEFINE spent  == SpendNonce(state, n)
             moved  == Rotate(spent, b)
             new    == Element("intent", i, 1)
             x      == SignatureOf(b.of.key, RotationDigest(i), n)
  <2>1. PrivateStep(RotateAndInsert(spent, b, new), {x})
    BY <1>6, RenegadeFirstFillOK
  <2>2. b \in StateElements /\ b.of \in Balances
    BY NamedElement, IntentElement
  <2>3. n \notin state.spentNonces /\ b \notin state.nullifiers
    BY <1>6 DEF RenegadeFirstFill, CanSpendNonce, CanSpendNullifier
  <2>4. x.nonce = n /\ Opens(x, i)
    BY <2>2, SignatureFields DEF Opens
  <2>5. /\ spent \in State /\ spent.leaves = state.leaves /\ spent.nullifiers = state.nullifiers
    BY <1>1, StateTypes, Fields
  <2>6. Lineage(new) = IntentLeaf(i)
    BY ElementTypes
  <2> HIDE DEF spent, x, new
  <2>7. /\ moved \in State /\ moved.leaves = [state.leaves EXCEPT ![Lineage(b)] = @ + 1]
        /\ moved.nullifiers = state.nullifiers \cup {b}
    BY <2>2, <2>5, RotateType, RotateFields
  <2>8. /\ state' = InsertMerkleLeaf(moved, new)
        /\ history'.accepted = history.accepted \cup {x} /\ Kept
    BY <1>1, <2>1, PrivateStepEffect DEF RotateAndInsert
  <2> HIDE DEF moved
  <2>9. /\ state'.leaves = [moved.leaves EXCEPT ![IntentLeaf(i)] = @ + 1]
        /\ state'.nullifiers = moved.nullifiers
    BY <2>6, <2>7, <2>8, Fields
  <2>10. Originated(moved, history)
    BY <1>1, <2>2, <2>3, <2>7, OriginRotate
  <2>11. x \notin history.accepted /\ history'.opened = history.opened
    BY <1>1, <2>3, <2>4, <2>8 DEF Kept
  <2>12. OpenedBy(x, i, moved, history, state', history')
    BY <2>4, <2>8, <2>9, <2>11 DEF OpenedBy
  <2> QED BY <1>1, <2>7, <2>10, <2>12, OriginOpens
<1>7. ASSUME NEW b \in Nameable("balance"), NEW e \in Nameable("intent"), RenegadeFill(b, e)
      PROVE  Originated(state', history')
  <2> DEFINE moved == Rotate(state, b)
  <2>1. /\ state' = RotateBoth(state, b, e) /\ b \in StateElements /\ e \in StateElements
        /\ b.kind = "balance" /\ e.kind = "intent"
        /\ history'.accepted = history.accepted \cup {} /\ Kept
    BY <1>1, <1>7, RenegadeFillOK, NamedElement, PrivateStepEffect
  <2>2. b \notin state.nullifiers /\ e \notin state.nullifiers
    BY <1>7 DEF RenegadeFill, CanSpendNullifier
  <2>3. /\ moved \in State /\ moved.leaves = [state.leaves EXCEPT ![Lineage(b)] = @ + 1]
        /\ moved.nullifiers = state.nullifiers \cup {b}
    BY <1>1, <2>1, RotateType, RotateFields
  <2>4. Originated(moved, history)
    BY <1>1, <2>1, <2>2, <2>3, OriginRotate
  <2>5. state' = Rotate(moved, e)
    BY <2>1 DEF RotateBoth
  <2> HIDE DEF moved
  <2>6. /\ state'.leaves = [moved.leaves EXCEPT ![Lineage(e)] = @ + 1]
        /\ state'.nullifiers = moved.nullifiers \cup {e} /\ e \notin moved.nullifiers
    BY <2>1, <2>2, <2>3, <2>5, RotateFields
  <2>7. Originated(state', history)
    BY <1>1, <2>1, <2>3, <2>4, <2>6, OriginRotate
  <2>8. \A i \in PrivateIntents : Opening(history', i) = Opening(history, i)
    BY <2>1 DEF Opening
  <2> QED BY <2>1, <2>7, <2>8, OriginStays DEF Kept
<1> QED BY <1>2, <1>3, <1>5, <1>6, <1>7 DEF ExecuteSettlementBundle

LEMMA OriginAfterUpdate ==
    ASSUME TypeInv, Filling(state, history), Originated(state, history), UpdateBalance
    PROVE  Originated(state', history')
<1>1. /\ UpdateEffect /\ state \in State /\ history \in History
      /\ IsFiniteSet(history.accepted) /\ history.opened \in [Balances -> Nat]
  BY UpdateOK DEF TypeInv, Filling, NoncesOnce, History
<1>2. ASSUME NEW b \in Balances, InsertsNew(b) PROVE Originated(state', history')
  BY <1>1, <1>2, OriginDeposit DEF InsertsNew
<1>3. ASSUME NEW e \in StateElements, MovesOn(e) PROVE Originated(state', history')
  <2> DEFINE moved == Rotate(state, e)
  <2>1. /\ moved \in State /\ moved.leaves = [state.leaves EXCEPT ![Lineage(e)] = @ + 1]
        /\ moved.nullifiers = state.nullifiers \cup {e}
    BY <1>1, RotateType, RotateFields
  <2>2. /\ history' = history /\ e \notin state.nullifiers /\ e.kind = "balance"
        /\ state'.nullifiers = moved.nullifiers
        /\ \/ state'.leaves = moved.leaves
           \/ state'.leaves = [moved.leaves EXCEPT ![NoteLeaf(e.of)] = @ + 1]
    <3>1. /\ history' = history /\ e \notin state.nullifiers /\ e.kind = "balance"
          /\ state'.nullifiers = state.nullifiers \cup {e}
          /\ \/ state'.leaves = [state.leaves EXCEPT ![Lineage(e)] = @ + 1]
             \/ state'.leaves = [[state.leaves EXCEPT ![Lineage(e)] = @ + 1]
                                   EXCEPT ![NoteLeaf(e.of)] = @ + 1]
      BY <1>3 DEF MovesOn
    <3> HIDE DEF moved
    <3> QED BY <2>1, <3>1
  <2> HIDE DEF moved
  <2>3. Originated(moved, history)
    BY <1>1, <2>1, <2>2, OriginRotate
  <2>4. CASE state'.leaves = moved.leaves
    BY <2>2, <2>3, <2>4, OriginStays
  <2>5. CASE state'.leaves = [moved.leaves EXCEPT ![NoteLeaf(e.of)] = @ + 1]
    <3>1. e.of \in Balances /\ Lineage(e) = BalanceLeaf(e.of)
      BY <2>2, IntentElement
    <3>2. Cardinality(SpentIn(moved, BalanceLeaf(e.of)))
            = Cardinality(SpentIn(state, BalanceLeaf(e.of))) + 1
      <4>1. IsFiniteSet(state.nullifiers)
        BY DEF Originated
      <4>2. Nullified(state, e, moved)
        BY <2>1, <2>2 DEF Nullified
      <4> QED BY <3>1, <4>1, <4>2, SpendsOne
    <3>3. moved.leaves[NoteLeaf(e.of)] = state.leaves[NoteLeaf(e.of)]
      <4>1. NoteLeaf(e.of) # Lineage(e) /\ NoteLeaf(e.of) \in Lineages
        BY <3>1, ElementTypes, LeafNames
      <4>2. state.leaves \in [Lineages -> Nat]
        BY <1>1 DEF State
      <4> QED BY <2>1, <4>1, <4>2
    <3>4. Originated(state', history)
      BY <1>1, <2>1, <2>2, <2>3, <2>5, <3>1, <3>2, <3>3, OriginNote
    <3> QED BY <2>2, <3>4
  <2> QED BY <2>2, <2>4, <2>5
<1> QED BY <1>1, <1>2, <1>3 DEF UpdateEffect

LEMMA OriginKept == ASSUME TypeInv, FillInv, OriginInv, [Next]_vars PROVE OriginInv'
<1>1. CASE Settle
  BY <1>1, SettleOK, SettleMatchOK DEF OriginInv
<1>2. CASE ExecuteSettlementBundle
  <2>1. before' = before
    <3>1. PICK s, later : BundleEffect(s, later)
      BY <1>2, BundleOK
    <3> QED BY <1>2, <3>1, BundleOK, ExecutedOK DEF BundleEffect
  <2> QED BY <1>2, <2>1, OriginAfterBundle DEF OriginInv, FillInv
<1>3. CASE ExecuteTransfer
  <2>1. /\ before' = before /\ history' = history
        /\ state'.leaves = state.leaves /\ state'.nullifiers = state.nullifiers
    BY <1>3, TransferOK
  <2>2. Originated(state', history')
    BY <2>1, OriginStays DEF OriginInv
  <2> QED BY <2>1, <2>2 DEF OriginInv
<1>4. CASE VerifySettlementProofs
  BY <1>4 DEF VerifySettlementProofs, Commit, OriginInv
<1>5. CASE Revert
  BY <1>5 DEF Revert, OriginInv
<1>6. CASE UpdateBalance
  <2>1. before' = [state |-> state', history |-> history']
    BY <1>6, UpdateOK DEF UpdateEffect
  <2>2. Originated(state', history')
    BY <1>6, OriginAfterUpdate DEF OriginInv, FillInv
  <2> QED BY <2>1, <2>2 DEF OriginInv
<1>7. CASE UNCHANGED vars
  BY <1>7 DEF vars, OriginInv
<1> QED BY <1>1, <1>2, <1>3, <1>4, <1>5, <1>6, <1>7 DEF Next

LEMMA OriginOK == Spec => []OriginInv
<1>1. ASSUME Init PROVE Originated(state, history)
  <2>1. /\ state.nullifiers = {} /\ history.accepted = {}
        /\ \A l \in Lineages : state.leaves[l] = 0
        /\ \A b \in Balances : history.opened[b] = 0
    BY <1>1 DEF Init
  <2>2. \A l : SpentIn(state, l) = {}
    BY <2>1 DEF SpentIn
  <2>3. \A i : Opening(history, i) = {}
    BY <2>1 DEF Opening
  <2>4. IsFiniteSet({}) /\ Cardinality({}) = 0
    BY FS_EmptySet
  <2> QED BY <2>1, <2>2, <2>3, <2>4, ElementTypes DEF Originated
<1>2. Init => OriginInv
  BY <1>1 DEF Init, OriginInv
<1> QED BY <1>2, OriginKept, FillsOK, Types, PTL DEF Spec

(* Every leaf takes the place of a version that was nullified for it, or is *)
(* opened by a signature of its own or a deposit of its own, whatever is    *)
(* named in whichever handlers and bundles; and no version pays two fee     *)
(* notes (spendNullifier, insertMerkleLeaf, spendNonce).                    *)
THEOREM LeavesHaveOrigins == Spec => []EveryLeafHasAnOrigin
<1>1. ASSUME OriginInv PROVE EveryLeafHasAnOrigin
  <2>1. \A l : Spent(l) = SpentIn(state, l)
    BY DEF Spent, SpentIn
  <2>2. ASSUME NEW i PROVE Authorizations(i) = Opening(history, i)
    BY DEF Authorizations, SignedFor, Opening, Opens
  <2>3. \A b : [BalanceLeaf(b) EXCEPT !.kind = "note"] = NoteLeaf(b)
    BY DEF BalanceLeaf, NoteLeaf
  <2> QED BY <1>1, <2>1, <2>2, <2>3
          DEF OriginInv, Originated, EveryLeafHasAnOrigin, IntentLeaf, BalanceLeaf
<1> QED BY <1>1, OriginOK, PTL

-----------------------------------------------------------------------------
(* The proofs.                                                              *)

LEMMA ProofsAfterBundle ==
    ASSUME TypeInv, ContextInv, ExecuteSettlementBundle
    PROVE  /\ Continues(tx.context.proofs, tx'.context.proofs)
           /\ history'.unproved = history.unproved \/ Invalid(tx'.context.proofs)
<1>1. /\ tx \in Settling /\ tx.phase = "bundles" /\ history \in History /\ Running
  BY BundleOK DEF TypeInv, Running, Settling, Idle
<1> DEFINE Goal == /\ Continues(tx.context.proofs, tx'.context.proofs)
                   /\ history'.unproved = history.unproved \/ Invalid(tx'.context.proofs)
<1>2. SharedIsThere
  <2> SUFFICES ASSUME PrivateObligation PROVE Len(tx.context.proofs) >= 1
    BY DEF SharedIsThere
  <2>1. /\ (IF Settled(1) THEN ProofsPushed(tx.types[1]) ELSE 0) \in 0..2
        /\ (IF Settled(2) THEN ProofsPushed(tx.types[2]) ELSE 0) \in 0..2
    BY PushedNat
  <2>2. Len(tx.context.proofs)
          = 1 + (IF Settled(1) THEN ProofsPushed(tx.types[1]) ELSE 0)
              + (IF Settled(2) THEN ProofsPushed(tx.types[2]) ELSE 0)
    BY <1>1 DEF ContextInv, Num
  <2> QED BY <2>1, <2>2
<1>3. ASSUME NEW p \in Permits, NEW m \in Nonces, NEW n \in Nonces, PublicIntent(p, m, n)
      PROVE  Goal
  <2> DEFINE o == tx.obligations[tx.party]
             c == allocateTransfers(tx.context, o, p.intent.owner)
             s == Filled(Open(SpendNonce(state, m), p, n), p, o.amountIn)
  <2>1. history'.unproved = history.unproved
    BY <1>1, <1>3 DEF PublicIntent, History
  <2>2. BundleEffect(s, c)
    BY <1>3, PublicIntentOK DEF PublicEffect
  <2>3. c.proofs = tx.context.proofs
    BY <1>1 DEF allocateTransfers, Settling, Contexts
  <2> HIDE DEF s, c
  <2>4. tx'.context = c
    BY <1>1, <2>2, ExecutedOK DEF BundleEffect
  <2> QED BY <2>1, <2>3, <2>4 DEF Continues
<1>4. ASSUME NEW s, NEW signatures, PrivateStep(s, signatures) PROVE Goal
  BY <1>1, <1>2, <1>4, PrivateStepEffect
<1> HIDE DEF Goal
<1>5. ASSUME NEW i \in PrivateIntents, NEW n \in Nonces, NativePrivateFirstFill(i, n) PROVE Goal
  BY <1>4, <1>5, NativeFirstFillOK
<1>6. ASSUME NEW e \in Nameable("intent"), NativePrivateFill(e) PROVE Goal
  BY <1>4, <1>6, NativeFillOK
<1>7. ASSUME NEW b \in Nameable("balance"), NEW i \in PrivateIntents, NEW n \in Nonces,
             RenegadeFirstFill(b, i, n)
      PROVE  Goal
  BY <1>4, <1>7, RenegadeFirstFillOK
<1>8. ASSUME NEW b \in Nameable("balance"), NEW e \in Nameable("intent"), RenegadeFill(b, e)
      PROVE  Goal
  BY <1>4, <1>8, RenegadeFillOK
<1>9. Goal
  BY <1>3, <1>5, <1>6, <1>7, <1>8 DEF ExecuteSettlementBundle
<1> QED BY <1>9 DEF Goal

LEMMA ProofsKept == ASSUME TypeInv, ContextInv, ProofInv, [Next]_vars PROVE ProofInv'
<1>1. CASE Settle
  <2>1. ~Running /\ UNCHANGED <<history, before>>
    BY <1>1, SettleOK, SettleMatchOK
  <2> QED BY <2>1 DEF ProofInv, TypeInv
<1>2. CASE ExecuteSettlementBundle
  <2>1. tx \in Settling /\ Running /\ before' = before
    <3>1. PICK s, later : BundleEffect(s, later)
      BY <1>2, BundleOK
    <3> QED BY <1>2, <3>1, BundleOK, ExecutedOK DEF BundleEffect, Running, Settling, Idle
  <2>2. history'.unproved = {} \/ Invalid(tx'.context.proofs)
    BY <1>2, <2>1, ProofsAfterBundle, InvalidStays DEF ProofInv
  <2> QED BY <2>1, <2>2 DEF ProofInv
<1>3. CASE ExecuteTransfer
  <2>1. /\ tx \in Settling /\ tx'.context = tx.context /\ before' = before /\ history' = history
    BY <1>3, TransferOK
  <2>2. Running
    BY <2>1 DEF Running, Settling, Idle
  <2> QED BY <2>1, <2>2 DEF ProofInv
<1>4. CASE VerifySettlementProofs
  <2>1. /\ Running /\ AllProofsValid(tx.context) /\ ~Running' /\ history' = history
        /\ before' = [state |-> state', history |-> history'] /\ tx \in Settling
    BY <1>4 DEF VerifySettlementProofs, Commit, Running, Idle, TypeInv
  <2>2. ~Invalid(tx.context.proofs)
    <3>1. CASE tx.context.proofs = <<>>
      <4>1. DOMAIN tx.context.proofs = {}
        BY <3>1
      <4> QED BY <4>1 DEF Invalid
    <3>2. CASE tx.context.proofs # <<>>
      BY <2>1, <3>2 DEF Invalid, AllProofsValid
    <3> QED BY <3>1, <3>2
  <2> QED BY <2>1, <2>2 DEF ProofInv
<1>5. CASE Revert
  BY <1>5 DEF Revert, Running, ProofInv
<1>6. CASE UpdateBalance
  <2>1. /\ ~Running /\ UNCHANGED tx /\ before' = [state |-> state', history |-> history']
        /\ history'.unproved = history.unproved /\ history = before.history
    BY <1>6, UpdateOK DEF UpdateEffect, InsertsNew, MovesOn, TypeInv, History
  <2> QED BY <2>1 DEF ProofInv, Running
<1>7. CASE UNCHANGED vars
  BY <1>7 DEF vars, ProofInv, Running
<1> QED BY <1>1, <1>2, <1>3, <1>4, <1>5, <1>6, <1>7 DEF Next

LEMMA ProofsOK == Spec => []ProofInv
<1>1. Init => ProofInv
  BY DEF Init, Running, ProofInv
<1> QED BY <1>1, ProofsKept, ContextOK, Types, PTL DEF Spec

(* Although nullifiers, leaves and tokens move before the proofs are        *)
(* verified, a settlement that stays has nothing in it that a proof of its  *)
(* does not vouch for, the shared proof of two private fills included       *)
(* (verifySettlementProofs at the end of settleMatch).                      *)
THEOREM KeptIsProved == Spec => []KeptMeansProved
<1>1. ASSUME TypeInv, ProofInv PROVE KeptMeansProved
  BY <1>1 DEF KeptMeansProved, ProofInv, TypeInv
<1> QED BY <1>1, Types, ProofsOK, PTL
=============================================================================
