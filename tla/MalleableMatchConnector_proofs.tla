------------------- MODULE MalleableMatchConnector_proofs -------------------
(***************************************************************************)
(* Proofs about MalleableMatchConnector, the sponsor behind it included,    *)
(* for every value of their constants.                                      *)
(***************************************************************************)
EXTENDS MalleableMatchConnector, RunningTotals_proofs

Frame == [origin : Accounts, receiver : Accounts, match : [sell : Leg, buy : Leg],
          grant : Grants, refundNativeEth : BOOLEAN]

Untouched == holdings = NoHoldings /\ committedHoldings = NoHoldings

NoAllowance == [t \in Tokens |-> 0]

(* Of the grants used by the frames that still run, each has a nonce of its *)
(* own, is the one that was recorded for it, and is not paid yet.           *)
StillToPay(frames, open, grantOf) ==
    /\ \A i \in DOMAIN frames : LET grant == frames[i].grant
                                IN  grant.nonce \in open /\ grantOf[grant.nonce] = grant
    /\ \A i, j \in DOMAIN frames : frames[i].grant.nonce = frames[j].grant.nonce => i = j

(* The books of a transaction from before to after: what it has paid, and   *)
(* what the frames that still run may.                                      *)
Books(before, after, frames, paid, grantOf, paidIn) ==
    LET new == NewNonces(before, after) IN
    /\ paid \in SUBSET new /\ grantOf \in [new -> Grants] /\ paidIn \in [new -> Mints]
    /\ AccountedBy(before, after, paid, grantOf, paidIn)
    /\ StillToPay(frames, new \ paid, grantOf)

Accounted(before, after, frames) ==
    /\ IsFiniteSet(NewNonces(before, after))
    /\ \E paid, grantOf, paidIn : Books(before, after, frames, paid, grantOf, paidIn)

(* What a transaction leaves alone until it ends.                           *)
InTransaction ==
    /\ storage.authAddress = committed.authAddress
    /\ committed.usedNonces \subseteq storage.usedNonces
    /\ AtRest => committed = storage

Typed == storage \in Storage /\ committed \in Storage /\ calls \in Seq(Frame)

Unapproved == storage.allowance = NoAllowance /\ committed.allowance = NoAllowance

(* The part of the invariant that is about the sponsor.                     *)
SponsorInv ==
    /\ Typed
    /\ Unapproved
    /\ InTransaction
    /\ Accounted(committed, storage, calls)

IInv == Untouched /\ SponsorInv

-----------------------------------------------------------------------------
(* A product by a rate or a price is rounded down,                          *)
LEMMA FixedPointMulNat ==
    ASSUME NEW rate \in Nat, NEW x \in Nat
    PROVE  /\ unsafeFixedPointMul(rate, x) \in Nat
           /\ Precision * unsafeFixedPointMul(rate, x) <= rate * x
<1>1. Precision \in Nat \ {0} /\ rate * x \in Nat
  BY PrecisionAssumption
<1> QED BY <1>1, QuotientDown DEF unsafeFixedPointMul

(* and a larger amount never costs less.                                    *)
LEMMA FixedPointMulMonotone ==
    ASSUME NEW rate \in Nat, NEW x \in Nat, NEW y \in Nat, x <= y
    PROVE  unsafeFixedPointMul(rate, x) <= unsafeFixedPointMul(rate, y)
<1>1. Precision \in Nat \ {0}
  BY PrecisionAssumption
<1>2. rate * x \in Nat /\ rate * y \in Nat /\ rate * x <= rate * y
  OBVIOUS
<1> QED BY <1>1, <1>2, QuotientMonotone DEF unsafeFixedPointMul

(* Dividing by a price and multiplying again never gains.                   *)
LEMMA QuotientCostsAtMost ==
    ASSUME NEW x \in Nat, NEW price \in Nat \ {0}
    PROVE  /\ divIntegerByFixedPoint(x, price) \in Nat
           /\ unsafeFixedPointMul(price, divIntegerByFixedPoint(x, price)) <= x
<1> DEFINE q == (x * Precision) \div price
<1>1. Precision \in Nat \ {0} /\ x * Precision \in Nat
  BY PrecisionAssumption
<1>2. q \in Nat /\ price * q <= x * Precision
  BY <1>1, QuotientDown
<1> HIDE DEF q
<1>3. price * q \in Nat
  BY <1>2
<1>4. (price * q) \div Precision <= x
  BY <1>1, <1>2, <1>3, QuotientWithin
<1> QED BY <1>2, <1>4 DEF q, divIntegerByFixedPoint, unsafeFixedPointMul

(* The amounts of an input, and the match they make.                        *)
LEMMA AmountsNat ==
    ASSUME NEW bounds \in Offers, NEW input \in Inputs
    PROVE  /\ ResolvedAmounts(bounds, input).base \in Nat
           /\ ResolvedAmounts(bounds, input).quote \in Nat
  BY ConnectorAssumption, FixedPointMulNat, QuotientCostsAtMost DEF ResolvedAmounts

LEMMA LegsOfMatch ==
    ASSUME NEW bounds \in Offers, NEW base \in Nat \ {0}, NEW quote \in Nat \ {0}
    PROVE  LET amounts == [base |-> base, quote |-> quote]
               match   == MatchOf(amounts, bounds)
           IN  match \in [sell : Leg, buy : Leg] /\ match.sell = SellLeg(amounts, bounds)
<1>1. bounds.baseMint \in Mints /\ bounds.quoteMint \in Mints
  BY ConnectorAssumption DEF Mints
<1> QED BY <1>1 DEF MatchOf, buildExternalMatchResult, externalPartySell, externalPartyBuy,
                    SellLeg, Leg

(* Rounding alone never puts the amounts out of the range.                  *)
LEMMA RangeAdmits ==
    ASSUME NEW bounds \in Offers, NEW input \in Inputs, NEW base, NEW quote,
           ResolvedAmounts(bounds, input) = [base |-> base, quote |-> quote],
           base # 0, quote # 0, validateBaseAmount(bounds, base),
           quote <= unsafeFixedPointMul(bounds.price, bounds.maxBaseAmount)
    PROVE  validateAmounts(bounds, quote, base)
<1>1. /\ input \in Nat /\ bounds.price \in Nat \ {0} /\ bounds.minBaseAmount \in Nat
      /\ bounds.direction \in Direction
  BY ConnectorAssumption
<1>2. CASE bounds.direction = "InternalPartyBuy"
  <2>1. base = input /\ quote = unsafeFixedPointMul(bounds.price, input)
    BY <1>2 DEF ResolvedAmounts
  <2>2. unsafeFixedPointMul(bounds.price, bounds.minBaseAmount) <= quote
    BY <1>1, <2>1, FixedPointMulMonotone DEF validateBaseAmount
  <2>3. quote \in Nat
    BY <1>1, <2>1, FixedPointMulNat
  <2> QED BY <1>2, <2>1, <2>2, <2>3 DEF validateAmounts, validateQuoteAmount
<1>3. CASE bounds.direction = "InternalPartySell"
  <2>1. base = divIntegerByFixedPoint(input, bounds.price) /\ quote = input
    BY <1>3 DEF ResolvedAmounts
  <2>2. unsafeFixedPointMul(bounds.price, base) <= quote
    BY <1>1, <2>1, QuotientCostsAtMost
  <2> QED BY <1>3, <2>2 DEF validateAmounts, validateQuoteAmount
<1> QED BY <1>1, <1>2, <1>3 DEF Direction

-----------------------------------------------------------------------------
(* What is paid in for a leg is what is taken for it, first by the sponsor  *)
(* from the connector and then by the darkpool from the sponsor.            *)

LEMMA PassesThrough ==
    ASSUME NEW leg \in Leg
    PROVE  /\ SponsorAccepts(Credited(NoHoldings, leg), leg)
           /\ SponsorTakes(Credited(NoHoldings, leg), leg) = NoHoldings
<1>1. CASE leg.mint = NATIVE
  BY <1>1 DEF SponsorAccepts, SponsorTakes, Credited
<1>2. CASE leg.mint # NATIVE
  <2>1. leg.mint \in Tokens /\ leg.amount \in Nat
    BY <1>2 DEF Leg, Mints
  <2> DEFINE paid == [t \in Tokens |-> IF t = leg.mint THEN leg.amount ELSE 0]
             none == [t \in Tokens |-> 0]
             h    == Credited(NoHoldings, leg)
  <2>2. [none EXCEPT ![leg.mint] = @ + leg.amount] = paid
    BY <2>1
  <2>3. [paid EXCEPT ![leg.mint] = @ - leg.amount] = none
    BY <2>1
  <2>4. paid[leg.mint] = leg.amount
    BY <2>1
  <2>5. NoHoldings = [funds |-> none, allowance |-> none]
    BY DEF NoHoldings
  <2> HIDE DEF none, paid
  <2>6. h = [funds |-> paid, allowance |-> paid]
    BY <1>2, <2>2, <2>5 DEF Credited
  <2>7. SponsorAccepts(h, leg)
    BY <2>1, <2>4, <2>6 DEF SponsorAccepts
  <2>8. SponsorTakes(h, leg) = NoHoldings
    <3>1. SponsorTakes(h, leg) = [funds |-> [paid EXCEPT ![leg.mint] = @ - leg.amount],
                                  allowance |-> [paid EXCEPT ![leg.mint] = @ - leg.amount]]
      <4> HIDE DEF h
      <4> QED BY <1>2, <2>6 DEF SponsorTakes
    <3> QED BY <2>3, <2>5, <3>1
  <2> QED BY <2>7, <2>8
<1> QED BY <1>1, <1>2

LEMMA HoldingCovers ==
    ASSUME storage \in Storage, NEW match \in [sell : Leg, buy : Leg],
           NEW grant \in Grants, NEW value \in Nat,
           match.sell.mint = NATIVE => value = match.sell.amount
    PROVE  LET h == Holding(match, grant, value)
           IN  /\ h \in Storage
               /\ match.sell.amount <= h.funds[match.sell.mint]
               /\ match.sell.mint # NATIVE => match.sell.amount <= h.allowance[match.sell.mint]
<1> DEFINE m == match.sell.mint
           x == match.sell.amount
           e == VerifySigSpendNonce([storage EXCEPT !.funds[NATIVE] = @ + value], grant)
           h == Holding(match, grant, value)
<1>1. m \in Mints /\ x \in Nat
  BY DEF Leg
<1>2. /\ e \in Storage /\ e.funds[NATIVE] = storage.funds[NATIVE] + value
      /\ storage.funds[NATIVE] \in Nat
  <2> DEFINE s == [storage EXCEPT !.funds[NATIVE] = @ + value]
  <2>1. storage.funds[NATIVE] \in Nat /\ NATIVE \in Mints
    BY DEF Storage, Mints
  <2>2. s \in Storage /\ s.funds[NATIVE] = storage.funds[NATIVE] + value
    BY <2>1 DEF Storage
  <2>3. grant.nonce \in Nonces
    BY SponsorAssumption
  <2>4. e = [s EXCEPT !.usedNonces = @ \cup {grant.nonce}]
    BY DEF VerifySigSpendNonce
  <2> HIDE DEF s, e
  <2>5. e \in Storage /\ e.funds = s.funds
    BY <2>2, <2>3, <2>4 DEF Storage
  <2> QED BY <2>1, <2>2, <2>5
<1>3. CASE m = NATIVE
  <2>1. h = e
    BY <1>3 DEF Holding, CustodySendTokens
  <2> HIDE DEF e, h
  <2> QED BY <1>1, <1>2, <1>3, <2>1 DEF h
<1>4. CASE m # NATIVE
  <2>1. h = [e EXCEPT !.allowance[m] = @ + x, !.funds[m] = @ + x]
    BY <1>4 DEF Holding, CustodySendTokens
  <2>2. m \in Tokens
    BY <1>1, <1>4 DEF Mints
  <2> HIDE DEF e, h, m, x
  <2>3. e.allowance[m] \in Nat /\ e.funds[m] \in Nat
    BY <1>1, <1>2, <2>2 DEF Storage
  <2> DEFINE a == [e EXCEPT !.allowance[m] = @ + x]
  <2>4. a \in Storage /\ a.allowance[m] = e.allowance[m] + x /\ a.funds = e.funds
    BY <1>1, <1>2, <2>2, <2>3 DEF Storage
  <2>5. h = [a EXCEPT !.funds[m] = @ + x]
    BY <2>1
  <2> HIDE DEF a
  <2>6. h \in Storage /\ h.allowance[m] = e.allowance[m] + x /\ h.funds[m] = e.funds[m] + x
    BY <1>1, <2>3, <2>4, <2>5 DEF Storage
  <2>7. x <= h.funds[m] /\ x <= h.allowance[m]
    BY <1>1, <2>3, <2>6
  <2> QED BY <2>6, <2>7 DEF h, m, x
<1> QED BY <1>3, <1>4

(* A match costs the sponsor the nonce and nothing else: what is paid in is *)
(* taken, and the approval with it.                                         *)
LEMMA MatchCostsNonce ==
    ASSUME storage \in Storage, NEW match \in [sell : Leg, buy : Leg],
           NEW grant \in Grants, NEW value \in Nat,
           DarkpoolAccepts(Holding(match, grant, value), match, value)
    PROVE  DarkpoolTakes(Holding(match, grant, value), match) = VerifySigSpendNonce(storage, grant)
<1> DEFINE m == match.sell.mint
           x == match.sell.amount
           e == VerifySigSpendNonce([storage EXCEPT !.funds[NATIVE] = @ + value], grant)
           u == storage.usedNonces \cup {grant.nonce}
           State(f, w) == [authAddress |-> storage.authAddress, usedNonces |-> u,
                           funds |-> f, allowance |-> w]
           f0 == storage.funds
           w0 == storage.allowance
<1>1. m \in Mints /\ x \in Nat /\ f0 \in [Mints -> Nat] /\ w0 \in [Tokens -> Nat]
  BY DEF Leg, Storage
<1>2. VerifySigSpendNonce(storage, grant) = State(f0, w0)
  <2>1. storage = [authAddress |-> storage.authAddress, usedNonces |-> storage.usedNonces,
                   funds |-> f0, allowance |-> w0]
    BY DEF Storage
  <2> HIDE DEF f0, w0, m, x, e
  <2> QED BY <2>1 DEF VerifySigSpendNonce
<1>3. e = State([f0 EXCEPT ![NATIVE] = @ + value], w0)
  <2> DEFINE s == [storage EXCEPT !.funds[NATIVE] = @ + value]
  <2>1. s = [authAddress |-> storage.authAddress, usedNonces |-> storage.usedNonces,
             funds |-> [f0 EXCEPT ![NATIVE] = @ + value], allowance |-> w0]
    BY DEF Storage
  <2> HIDE DEF s, e, f0, w0
  <2>2. e = VerifySigSpendNonce(s, grant)
    BY DEF s, e
  <2> QED BY <2>1, <2>2 DEF VerifySigSpendNonce
<1>4. CASE m = NATIVE
  <2>1. value = x
    BY <1>4 DEF DarkpoolAccepts
  <2>2. Holding(match, grant, value) = e
    BY <1>4 DEF Holding, CustodySendTokens
  <2> DEFINE f1 == [f0 EXCEPT ![NATIVE] = @ + value]
  <2>3. [f1 EXCEPT ![NATIVE] = @ - x] = f0
    BY <1>1, <1>4, <2>1
  <2> HIDE DEF e, f1, u, f0, w0
  <2>4. DarkpoolTakes(State(f1, w0), match) = State([f1 EXCEPT ![NATIVE] = @ - x], w0)
    BY <1>4 DEF DarkpoolTakes
  <2> QED BY <1>2, <1>3, <2>2, <2>3, <2>4 DEF f1
<1>5. CASE m # NATIVE
  <2>1. value = 0 /\ m \in Tokens
    BY <1>1, <1>5 DEF DarkpoolAccepts, Mints
  <2>2. [f0 EXCEPT ![NATIVE] = @ + value] = f0
    BY <1>1, <2>1 DEF Mints
  <2> DEFINE f1 == [f0 EXCEPT ![m] = @ + x]
             w1 == [w0 EXCEPT ![m] = @ + x]
  <2>3. [f1 EXCEPT ![m] = @ - x] = f0 /\ [w1 EXCEPT ![m] = @ - x] = w0
    BY <1>1, <2>1
  <2>4. e = State(f0, w0)
    BY <1>3, <2>2
  <2> HIDE DEF e, f1, w1, u, f0, w0
  <2>5. Holding(match, grant, value) = State(f1, w1)
    <3>1. Holding(match, grant, value) = [e EXCEPT !.allowance[m] = @ + x, !.funds[m] = @ + x]
      BY <1>5 DEF Holding, CustodySendTokens, e
    <3> QED BY <2>4, <3>1 DEF f1, w1
  <2>6. DarkpoolTakes(State(f1, w1), match)
          = State([f1 EXCEPT ![m] = @ - x], [w1 EXCEPT ![m] = @ - x])
    BY <1>5 DEF DarkpoolTakes
  <2> QED BY <1>2, <2>3, <2>5, <2>6
<1> QED BY <1>4, <1>5

-----------------------------------------------------------------------------
(* The books of a transaction.                                              *)

LEMMA AmountsPaid ==
    ASSUME NEW new, NEW grantOf \in [new -> Grants]
    PROVE  \A n \in new : grantOf[n].refundAmount \in Nat
  BY SponsorAssumption

(* At rest there is nothing to account for.                                 *)
LEMMA NothingSpent ==
    ASSUME NEW s \in Storage
    PROVE  Accounted(s, s, <<>>)
<1>1. NewNonces(s, s) = {}
  BY DEF NewNonces
<1> DEFINE none == [n \in {} |-> 0]
<1>2. \A m \in Mints : s.funds[m] - s.funds[m] = 0
  BY DEF Storage
<1>3. \A m \in Mints : {n \in {} : none[n] = m} = {}
  OBVIOUS
<1>4. AccountedBy(s, s, {}, none, none)
  <2> HIDE DEF none
  <2> QED BY <1>1, <1>2, <1>3, SumEmpty DEF AccountedBy
<1>5. Books(s, s, <<>>, {}, none, none)
  BY <1>1, <1>4 DEF Books, StillToPay
<1> QED BY <1>1, <1>5, FS_EmptySet DEF Accounted

(* A nonce is used up, and the frame of its grant starts.                   *)
LEMMA FrameStarts ==
    ASSUME NEW before \in Storage, NEW after \in Storage, NEW frames \in Seq(Frame),
           before.usedNonces \subseteq after.usedNonces,
           Accounted(before, after, frames),
           NEW frame \in Frame, SignatureValid(before, frame.grant),
           frame.grant.nonce \notin after.usedNonces
    PROVE  Accounted(before, VerifySigSpendNonce(after, frame.grant), <<frame>> \o frames)
<1> DEFINE new   == NewNonces(before, after)
           grant == frame.grant
           n0    == grant.nonce
           later == VerifySigSpendNonce(after, grant)
           new2  == new \cup {n0}
<1>1. PICK paid, grantOf, paidIn : Books(before, after, frames, paid, grantOf, paidIn)
  BY DEF Accounted
<1>2. /\ paid \in SUBSET new /\ grantOf \in [new -> Grants] /\ paidIn \in [new -> Mints]
      /\ AccountedBy(before, after, paid, grantOf, paidIn)
      /\ StillToPay(frames, new \ paid, grantOf)
  BY <1>1 DEF Books
<1>3. later.usedNonces = after.usedNonces \cup {n0} /\ later.funds = after.funds
  BY DEF VerifySigSpendNonce, Storage
<1>4. n0 \notin new /\ NewNonces(before, later) = new2 /\ IsFiniteSet(new2)
  <2>1. n0 \notin new /\ NewNonces(before, later) = new2
    BY <1>3 DEF NewNonces
  <2> QED BY <2>1, FS_AddElement DEF Accounted
<1>5. grant \in Grants
  BY DEF Frame
<1> DEFINE grantOf2 == [n \in new2 |-> IF n = n0 THEN grant ELSE grantOf[n]]
           paidIn2  == [n \in new2 |-> IF n = n0 THEN NATIVE ELSE paidIn[n]]
           amount   == [n \in new |-> grantOf[n].refundAmount]
           amount2  == [n \in new2 |-> grantOf2[n].refundAmount]
<1>6. grantOf2 \in [new2 -> Grants] /\ paidIn2 \in [new2 -> Mints] /\ paid \in SUBSET new2
  BY <1>2, <1>5 DEF Mints
<1>7. \A n \in new : grantOf2[n] = grantOf[n] /\ paidIn2[n] = paidIn[n]
                     /\ amount2[n] = amount[n] /\ amount[n] \in Int
  BY <1>2, <1>4, AmountsPaid
<1>8. grantOf2[n0] = grant
  OBVIOUS
<1>9. AccountedBy(before, later, paid, grantOf2, paidIn2)
  <2>1. \A n \in new2 : grantOf2[n].nonce = n /\ SignatureValid(before, grantOf2[n])
    <3>1. \A n \in new : grantOf[n].nonce = n /\ SignatureValid(before, grantOf[n])
      BY <1>2 DEF AccountedBy
    <3> HIDE DEF grantOf2, new
    <3> QED BY <1>7, <1>8, <3>1
  <2>2. ASSUME NEW m \in Mints
        PROVE  before.funds[m] - later.funds[m]
                 = SumFunctionOnSet(amount2, {n \in paid : paidIn2[n] = m})
    <3> DEFINE S == {n \in paid : paidIn[n] = m}
    <3>1. before.funds[m] - after.funds[m] = SumFunctionOnSet(amount, S)
      BY <1>2 DEF AccountedBy
    <3>2. {n \in paid : paidIn2[n] = m} = S
      <4> HIDE DEF paidIn2
      <4> QED BY <1>2, <1>7
    <3>3. S \in SUBSET new /\ IsFiniteSet(S)
      <4>1. S \in SUBSET new
        BY <1>2
      <4> HIDE DEF S, new
      <4> QED BY <4>1, FS_Subset DEF Accounted, new
    <3>4. SumFunctionOnSet(amount2, S) = SumFunctionOnSet(amount, S)
      <4> HIDE DEF S, amount, amount2, new
      <4> QED BY <1>7, <3>3, SumSame
    <3> QED BY <1>3, <3>1, <3>2, <3>4
  <2> HIDE DEF new, new2, grantOf2, paidIn2
  <2> QED BY <1>4, <2>1, <2>2 DEF AccountedBy, new2
<1>10. StillToPay(<<frame>> \o frames, new2 \ paid, grantOf2)
  <2> DEFINE fs == <<frame>> \o frames
  <2>1. \A i \in DOMAIN fs : i # 1 => i - 1 \in DOMAIN frames /\ fs[i] = frames[i - 1]
    OBVIOUS
  <2>2. fs[1] = frame /\ DOMAIN fs \subseteq Int
    OBVIOUS
  <2> HIDE DEF fs
  <2>3. \A i \in DOMAIN frames : /\ frames[i].grant.nonce \in new \ paid
                                 /\ grantOf[frames[i].grant.nonce] = frames[i].grant
    BY <1>2 DEF StillToPay
  <2>4. ASSUME NEW i \in DOMAIN fs
        PROVE  /\ fs[i].grant.nonce \in new2 \ paid
               /\ grantOf2[fs[i].grant.nonce] = fs[i].grant
               /\ i # 1 => fs[i].grant.nonce # n0
    <3>1. CASE i = 1
      <4> HIDE DEF new, grantOf2
      <4> QED BY <1>2, <1>4, <1>8, <2>2, <3>1
    <3>2. CASE i # 1
      <4> HIDE DEF new, grantOf2
      <4> QED BY <1>4, <1>7, <2>1, <2>3, <3>2
    <3> QED BY <3>1, <3>2
  <2>5. ASSUME NEW i \in DOMAIN fs, NEW j \in DOMAIN fs,
               fs[i].grant.nonce = fs[j].grant.nonce
        PROVE  i = j
    <3>1. /\ i # 1 => fs[i].grant.nonce # n0
          /\ j # 1 => fs[j].grant.nonce # n0
      BY <2>4
    <3>2. fs[1].grant.nonce = n0
      BY <2>2
    <3>3. (i # 1 /\ j # 1) \/ i = j
      BY <2>5, <3>1, <3>2
    <3>4. CASE i # 1 /\ j # 1
      <4>1. i - 1 = j - 1
        BY <1>2, <2>1, <2>5, <3>4 DEF StillToPay
      <4> QED BY <2>2, <4>1
    <3> QED BY <3>3, <3>4
  <2> QED BY <2>4, <2>5 DEF StillToPay, fs
<1> HIDE DEF new, new2, later, grantOf2, paidIn2
<1>11. Books(before, later, <<frame>> \o frames, paid, grantOf2, paidIn2)
  BY <1>4, <1>6, <1>9, <1>10 DEF Books
<1> QED BY <1>4, <1>11 DEF Accounted, later

(* The running frame ends without a payment.                                *)
LEMMA FrameEndsUnpaid ==
    ASSUME NEW before, NEW after, NEW frames \in Seq(Frame), frames # <<>>,
           Accounted(before, after, frames)
    PROVE  Accounted(before, after, Tail(frames))
<1>1. PICK paid, grantOf, paidIn : Books(before, after, frames, paid, grantOf, paidIn)
  BY DEF Accounted
<1> DEFINE new == NewNonces(before, after)
           fs  == Tail(frames)
<1>2. \A i \in DOMAIN fs : i \in Int /\ i + 1 \in DOMAIN frames /\ fs[i] = frames[i + 1]
  OBVIOUS
<1>3. StillToPay(frames, new \ paid, grantOf)
  BY <1>1 DEF Books
<1> HIDE DEF new, fs
<1>4. StillToPay(fs, new \ paid, grantOf)
  BY <1>2, <1>3 DEF StillToPay
<1>5. Books(before, after, fs, paid, grantOf, paidIn)
  BY <1>1, <1>4 DEF Books, new
<1> QED BY <1>5 DEF Accounted, fs

(* The running frame ends with its refund.                                  *)
LEMMA FrameEndsPaid ==
    ASSUME NEW before \in Storage, NEW after \in Storage,
           NEW frames \in Seq(Frame), frames # <<>>,
           Accounted(before, after, frames), NEW mint \in Mints, NEW later \in Storage,
           later = [after EXCEPT !.funds[mint] = @ - Head(frames).grant.refundAmount]
    PROVE  Accounted(before, later, Tail(frames))
<1> DEFINE new   == NewNonces(before, after)
           grant == Head(frames).grant
           n0    == grant.nonce
           fs    == Tail(frames)
<1>1. PICK paid, grantOf, paidIn : Books(before, after, frames, paid, grantOf, paidIn)
  BY DEF Accounted
<1>2. /\ paid \in SUBSET new /\ grantOf \in [new -> Grants] /\ paidIn \in [new -> Mints]
      /\ AccountedBy(before, after, paid, grantOf, paidIn)
      /\ StillToPay(frames, new \ paid, grantOf)
  BY <1>1 DEF Books
<1>3. /\ NewNonces(before, later) = new
      /\ \A m \in Mints : later.funds[m] = after.funds[m]
                                           - IF m = mint THEN grant.refundAmount ELSE 0
  <2>1. later.usedNonces = after.usedNonces
        /\ later.funds = [after.funds EXCEPT ![mint] = @ - grant.refundAmount]
    BY DEF Storage
  <2> HIDE DEF grant
  <2>2. after.funds \in [Mints -> Nat]
    BY DEF Storage
  <2> QED BY <2>1, <2>2 DEF NewNonces
<1>4. 1 \in DOMAIN frames /\ frames[1] = Head(frames)
  OBVIOUS
<1>5. n0 \in new \ paid /\ grantOf[n0] = grant
  BY <1>2, <1>4 DEF StillToPay
<1> DEFINE paid2   == paid \cup {n0}
           paidIn2 == [paidIn EXCEPT ![n0] = mint]
           amount  == [n \in new |-> grantOf[n].refundAmount]
<1>6. paid2 \in SUBSET new /\ paidIn2 \in [new -> Mints]
      /\ paidIn2[n0] = mint /\ \A n \in paid : paidIn2[n] = paidIn[n]
  BY <1>2, <1>5
<1>7. (\A n \in new : amount[n] \in Int) /\ amount[n0] = grant.refundAmount
  BY <1>2, <1>5, AmountsPaid
<1>8. AccountedBy(before, later, paid2, grantOf, paidIn2)
  <2>1. \A n \in new : grantOf[n].nonce = n /\ SignatureValid(before, grantOf[n])
    BY <1>2 DEF AccountedBy
  <2>2. ASSUME NEW m \in Mints
        PROVE  before.funds[m] - later.funds[m]
                 = SumFunctionOnSet(amount, {n \in paid2 : paidIn2[n] = m})
    <3> DEFINE S  == {n \in paid : paidIn[n] = m}
               S2 == {n \in paid2 : paidIn2[n] = m}
    <3>1. before.funds[m] - after.funds[m] = SumFunctionOnSet(amount, S)
      BY <1>2 DEF AccountedBy
    <3>2. S \in SUBSET new /\ IsFiniteSet(S) /\ n0 \notin S
      <4>1. S \in SUBSET new /\ n0 \notin S
        BY <1>2, <1>5
      <4> HIDE DEF S, new
      <4> QED BY <4>1, FS_Subset DEF Accounted, new
    <3>3. before.funds[m] \in Int /\ after.funds[m] \in Int
      BY DEF Storage
    <3>4. CASE m = mint
      <4>1. S2 = S \cup {n0}
        <5> HIDE DEF paidIn2, n0
        <5> QED BY <1>6, <3>4
      <4> HIDE DEF S, S2, amount, new, n0, grant
      <4>2. SumFunctionOnSet(amount, S \cup {n0}) = SumFunctionOnSet(amount, S) + amount[n0]
        <5>1. amount[n0] \in Int /\ \A n \in S : amount[n] \in Int
          BY <1>5, <1>7, <3>2
        <5> QED BY <3>2, <5>1, SumInsert
      <4>3. SumFunctionOnSet(amount, S2) = (before.funds[m] - after.funds[m]) + grant.refundAmount
        BY <1>7, <3>1, <4>1, <4>2
      <4>4. later.funds[m] = after.funds[m] - grant.refundAmount /\ grant.refundAmount \in Int
        BY <1>3, <1>5, <1>7, <3>4
      <4>5. before.funds[m] - later.funds[m] = SumFunctionOnSet(amount, S2)
        BY <3>3, <4>3, <4>4
      <4> QED BY <4>5 DEF S2
    <3>5. CASE m # mint
      <4>1. S2 = S
        <5> HIDE DEF paidIn2, n0
        <5> QED BY <1>6, <3>5
      <4>2. later.funds[m] = after.funds[m]
        BY <1>3, <3>3, <3>5
      <4> QED BY <3>1, <4>1, <4>2
    <3> QED BY <3>4, <3>5
  <2> HIDE DEF new, paid2, paidIn2
  <2> QED BY <1>3, <2>1, <2>2 DEF AccountedBy
<1>9. StillToPay(fs, new \ paid2, grantOf)
  <2>1. \A i \in DOMAIN fs : /\ i \in Int /\ i + 1 \in DOMAIN frames /\ i + 1 # 1
                             /\ fs[i] = frames[i + 1]
    OBVIOUS
  <2> HIDE DEF new, fs
  <2>2. \A i \in DOMAIN fs : fs[i].grant.nonce # n0
    BY <1>2, <1>4, <2>1 DEF StillToPay
  <2> HIDE DEF n0
  <2> QED BY <1>2, <2>1, <2>2 DEF StillToPay
<1> HIDE DEF new, paid2, paidIn2, fs
<1>10. Books(before, later, fs, paid2, grantOf, paidIn2)
  BY <1>2, <1>3, <1>6, <1>8, <1>9 DEF Books
<1>11. IsFiniteSet(NewNonces(before, later))
  BY <1>3 DEF Accounted, new
<1> QED BY <1>10, <1>11 DEF Accounted, fs

-----------------------------------------------------------------------------
(* The invariant: one lemma for each action of the sponsor, then one for    *)
(* each of the connector.                                                   *)

LEMMA SponsorMatchOK ==
    ASSUME SponsorInv, NEW origin \in Origins, NEW receiver \in Accounts,
           NEW match \in [sell : Leg, buy : Leg], NEW grant \in Grants,
           NEW inEth \in BOOLEAN, NEW value \in Nat,
           SponsorMatch(origin, receiver, match, grant, inEth, value)
    PROVE  SponsorInv'
<1> DEFINE frame == [origin |-> origin, receiver |-> receiver, match |-> match,
                     grant |-> grant, refundNativeEth |-> inEth]
<1>1. /\ SignatureValid(storage, grant) /\ grant.nonce \notin storage.usedNonces
      /\ storage' = VerifySigSpendNonce(storage, grant)
      /\ calls' = <<frame>> \o calls /\ last' = NoCall /\ committed' = committed
  BY MatchCostsNonce DEF SponsorMatch, CanSponsorMatch, CanUse, SponsorInv, Typed
<1>2. grant.nonce \in Nonces
  BY SponsorAssumption
<1>3. /\ storage' \in Storage /\ storage'.allowance = storage.allowance
      /\ storage'.authAddress = storage.authAddress
      /\ storage'.usedNonces = storage.usedNonces \cup {grant.nonce}
  BY <1>1, <1>2 DEF VerifySigSpendNonce, Storage, SponsorInv, Typed
<1>4. origin \in Accounts
  <2>1. CASE AtRest
    BY <2>1 DEF Origins
  <2>2. CASE ~AtRest
    <3>1. Head(calls) \in Frame
      BY <2>2 DEF AtRest, SponsorInv, Typed
    <3> QED BY <2>2, <3>1 DEF Origins, Frame
  <2> QED BY <2>1, <2>2
<1>5. frame \in Frame /\ frame.grant = grant
  BY <1>4 DEF Frame
<1> HIDE DEF frame
<1>6. calls' \in Seq(Frame) /\ calls' # <<>>
  BY <1>1, <1>5 DEF SponsorInv, Typed
<1>7. Typed'
  BY <1>1, <1>3, <1>6 DEF SponsorInv, Typed
<1>8. Unapproved'
  BY <1>1, <1>3 DEF SponsorInv, Unapproved
<1>9. InTransaction'
  BY <1>1, <1>3, <1>6 DEF SponsorInv, InTransaction, AtRest
<1>10. Accounted(committed, storage, calls)'
  <2>1. SignatureValid(committed, frame.grant)
    BY <1>1, <1>5 DEF SignatureValid, SponsorInv, InTransaction
  <2>2. Accounted(committed, VerifySigSpendNonce(storage, frame.grant), <<frame>> \o calls)
    BY <1>1, <1>5, <2>1, FrameStarts DEF SponsorInv, Typed, InTransaction
  <2> QED BY <1>1, <1>5, <2>2
<1> QED BY <1>7, <1>8, <1>9, <1>10 DEF SponsorInv

(* A refund.  When it ends the transaction, the books of the transaction    *)
(* are those of its cost.                                                   *)
LEMMA RefundOK ==
    ASSUME SponsorInv, RefundGasCost
    PROVE  SponsorInv' /\ Accounted(committed, storage', calls')
<1> DEFINE call     == Head(calls)
           m        == RefundMint(call)
           refunded == Refunded(storage, call)
<1>1. /\ calls # <<>> /\ calls' = Tail(calls)
      /\ storage' = [storage EXCEPT !.funds[m] = @ - refunded]
      /\ committed' = IF calls' = <<>> THEN storage' ELSE committed
  BY DEF RefundGasCost, AtRest
<1>2. call \in Frame /\ calls \in Seq(Frame) /\ calls' \in Seq(Frame)
  BY <1>1 DEF SponsorInv, Typed
<1>3. /\ m \in Mints /\ call.grant.refundAmount \in Nat /\ call.match.buy.amount \in Nat
      /\ call.refundNativeEth \in BOOLEAN
  BY <1>2, SponsorAssumption DEF RefundMint, Frame, Leg, Mints
<1>4. /\ storage.funds[m] \in Nat /\ refunded \in Nat /\ storage.funds[m] - refunded \in Nat
      /\ refunded = 0 \/ refunded = call.grant.refundAmount
  BY <1>3 DEF SponsorInv, Typed, Storage, Refunded
<1> HIDE DEF m, refunded
<1>5. /\ storage' \in Storage /\ storage'.allowance = storage.allowance
      /\ storage'.authAddress = storage.authAddress
      /\ storage'.usedNonces = storage.usedNonces
  BY <1>1, <1>3, <1>4 DEF SponsorInv, Typed, Storage
<1>6. Accounted(committed, storage', calls')
  <2>1. CASE refunded = 0
    <3>1. storage' = storage
      <4>1. storage \in Storage /\ storage.funds \in [Mints -> Nat]
        BY DEF SponsorInv, Typed, Storage
      <4>2. [storage.funds EXCEPT ![m] = @ - refunded] = storage.funds
        BY <1>4, <2>1, <4>1
      <4>3. storage' = [storage EXCEPT !.funds = [storage.funds EXCEPT ![m] = @ - refunded]]
        BY <1>1
      <4> QED BY <4>1, <4>2, <4>3 DEF Storage
    <3> QED BY <1>1, <1>2, <3>1, FrameEndsUnpaid DEF SponsorInv
  <2>2. CASE refunded = call.grant.refundAmount
    BY <1>1, <1>2, <1>3, <1>5, <2>2, FrameEndsPaid DEF SponsorInv, Typed
  <2> QED BY <1>4, <2>1, <2>2
<1>7. Typed' /\ Unapproved'
  BY <1>1, <1>2, <1>5 DEF SponsorInv, Typed, Unapproved
<1>8. InTransaction' /\ Accounted(committed, storage, calls)'
  <2>1. CASE calls' = <<>>
    <3>1. committed' = storage'
      BY <1>1, <2>1
    <3>2. Accounted(storage', storage', <<>>)
      BY <1>5, NothingSpent
    <3> QED BY <2>1, <3>1, <3>2 DEF InTransaction
  <2>2. CASE calls' # <<>>
    <3>1. committed' = committed
      BY <1>1, <2>2
    <3> QED BY <1>5, <1>6, <2>2, <3>1 DEF SponsorInv, InTransaction, AtRest
  <2> QED BY <2>1, <2>2
<1> QED BY <1>6, <1>7, <1>8 DEF SponsorInv

(* A revert, and a transaction of the owner: nothing runs afterwards, and   *)
(* what is stored is what is committed.                                     *)
LEMMA RestOK ==
    ASSUME storage' \in Storage, storage'.allowance = NoAllowance, committed' = storage',
           calls' = <<>>, last' = NoCall
    PROVE  SponsorInv'
<1>1. Accounted(committed, storage, calls)'
  BY NothingSpent
<1>2. Typed' /\ Unapproved' /\ InTransaction'
  BY DEF Typed, Unapproved, InTransaction
<1> QED BY <1>1, <1>2 DEF SponsorInv

LEMMA RevertOK ==
    ASSUME SponsorInv, Revert
    PROVE  SponsorInv' /\ Accounted(committed, committed', calls')
<1>1. /\ storage' = committed /\ calls' = <<>> /\ last' = NoCall /\ committed' = committed
      /\ committed \in Storage /\ committed.allowance = NoAllowance
  BY DEF Revert, SponsorInv, Typed, Unapproved
<1>2. SponsorInv'
  BY <1>1, RestOK
<1>3. Accounted(committed, committed', calls')
  BY <1>1, NothingSpent
<1> QED BY <1>2, <1>3

LEMMA AdministerOK == ASSUME SponsorInv, Administer PROVE SponsorInv'
<1>1. committed' = storage' /\ calls' = <<>> /\ last' = NoCall
  BY DEF Administer, receive, withdraw, rotateAuthAddress, Alone, AtRest
<1>2. storage \in Storage /\ storage.allowance = NoAllowance
  BY DEF SponsorInv, Typed, Unapproved
<1>3. ASSUME NEW m \in Mints, NEW x \in Nat, storage' = [storage EXCEPT !.funds[m] = x]
      PROVE  storage' \in Storage /\ storage'.allowance = NoAllowance
  BY <1>2, <1>3 DEF Storage
<1>4. ASSUME NEW m \in Mints, receive(m, 1)
      PROVE  storage' \in Storage /\ storage'.allowance = NoAllowance
  <2>1. storage.funds[m] + 1 \in Nat
    BY <1>2 DEF Storage
  <2> QED BY <1>3, <1>4, <2>1 DEF receive, Alone
<1>5. ASSUME NEW m \in Mints, withdraw(m, 1)
      PROVE  storage' \in Storage /\ storage'.allowance = NoAllowance
  <2>1. storage.funds[m] - 1 \in Nat
    BY <1>2, <1>5 DEF withdraw, Storage
  <2> QED BY <1>3, <1>5, <2>1 DEF withdraw, Alone
<1>6. ASSUME NEW k \in AuthKeys, rotateAuthAddress(k)
      PROVE  storage' \in Storage /\ storage'.allowance = NoAllowance
  BY <1>2, <1>6 DEF rotateAuthAddress, Alone, Storage
<1>7. storage' \in Storage /\ storage'.allowance = NoAllowance
  BY <1>4, <1>5, <1>6 DEF Administer
<1> QED BY <1>1, <1>7, RestOK

LEMMA WithInputStep == ASSUME IInv, WithInput PROVE IInv'
<1>1. PICK origin \in Origins, caller \in Accounts, receiver \in Accounts \cup {Nobody},
           input \in Inputs, bounds \in Offers, grant \in Grants :
        \E inEth \in BOOLEAN, value \in {0, input} :
          executeMalleableAtomicMatchWithInput(origin, caller, input, receiver, bounds,
                                               grant, inEth, value)
  BY DEF WithInput
<1>2. PICK inEth \in BOOLEAN, value \in {0, input} :
        executeMalleableAtomicMatchWithInput(origin, caller, input, receiver, bounds,
                                             grant, inEth, value)
  BY <1>1
<1> DEFINE amounts == ResolvedAmounts(bounds, input)
           match   == MatchOf(amounts, bounds)
           payee   == ResolvedReceiver(ResolvedReceiver(receiver, caller), Connector)
<1>3. /\ validateAmounts(bounds, amounts.quote, amounts.base)
      /\ holdings' = SponsorTakes(CustodyTokens(holdings, amounts, bounds), match.sell)
      /\ SponsorMatch(origin, payee, match, grant, inEth, value)
      /\ UNCHANGED committedHoldings
  BY <1>2 DEF executeMalleableAtomicMatchWithInput, CanExecute
<1>4. amounts = [base |-> amounts.base, quote |-> amounts.quote]
  BY DEF ResolvedAmounts
<1>5. amounts.base \in Nat \ {0} /\ amounts.quote \in Nat \ {0}
  BY <1>3, AmountsNat DEF validateAmounts
<1>6. match \in [sell : Leg, buy : Leg] /\ match.sell = SellLeg(amounts, bounds)
  <2> HIDE DEF amounts
  <2> QED BY <1>4, <1>5, LegsOfMatch
<1>7. payee \in Accounts
  BY SponsorAssumption, ConnectorAssumption DEF ResolvedReceiver
<1>8. value \in Nat
  BY ConnectorAssumption
<1> HIDE DEF amounts, match, payee
<1>9. SponsorInv'
  BY <1>3, <1>6, <1>7, <1>8, SponsorMatchOK DEF IInv
<1>10. Untouched'
  <2>1. match.sell \in Leg
    BY <1>6
  <2> QED BY <1>3, <1>6, <2>1, PassesThrough DEF IInv, Untouched, CustodyTokens
<1> QED BY <1>9, <1>10 DEF IInv

LEMMA DirectStep == ASSUME IInv, Direct PROVE IInv'
<1>1. PICK origin \in Origins, receiver \in Accounts, match \in Matches, grant \in Grants :
        \E inEth \in BOOLEAN, value \in {0, match.sell.amount} :
          SponsorMatch(origin, receiver, match, grant, inEth, value)
  BY DEF Direct, Sponsor
<1>2. PICK inEth \in BOOLEAN, value \in {0, match.sell.amount} :
        SponsorMatch(origin, receiver, match, grant, inEth, value)
  BY <1>1
<1>3. match \in [sell : Leg, buy : Leg]
  BY SponsorAssumption
<1>4. value \in Nat
  BY <1>3 DEF Leg
<1>5. SponsorInv'
  BY <1>2, <1>3, <1>4, SponsorMatchOK DEF IInv
<1> QED BY <1>5 DEF Direct, IInv, Untouched

LEMMA ReturnsStep == ASSUME IInv, Returns PROVE IInv'
<1>1. SponsorInv'
  BY RefundOK DEF Returns, IInv
<1> QED BY <1>1 DEF Returns, IInv, Untouched

LEMMA RevertsStep == ASSUME IInv, Reverts PROVE IInv'
<1>1. SponsorInv'
  BY RevertOK DEF Reverts, IInv
<1> QED BY <1>1 DEF Reverts, IInv, Untouched

LEMMA OwnerStep == ASSUME IInv, Owner PROVE IInv'
<1>1. SponsorInv'
  BY AdministerOK DEF Owner, IInv
<1> QED BY <1>1 DEF Owner, IInv, Untouched

LEMMA Inductive == ASSUME IInv, [ConnectorNext]_connectorVars PROVE IInv'
<1>1. CASE WithInput
  BY <1>1, WithInputStep
<1>2. CASE Direct
  BY <1>2, DirectStep
<1>3. CASE Returns
  BY <1>3, ReturnsStep
<1>4. CASE Reverts
  BY <1>4, RevertsStep
<1>5. CASE Owner
  BY <1>5, OwnerStep
<1>6. CASE UNCHANGED connectorVars
  BY <1>6 DEF connectorVars, vars, IInv, Untouched, SponsorInv, Typed, Unapproved,
              InTransaction, AtRest
<1> QED BY <1>1, <1>2, <1>3, <1>4, <1>5, <1>6 DEF ConnectorNext

LEMMA InitOK == ASSUME ConnectorInit PROVE IInv
<1>1. /\ storage \in Storage /\ storage.allowance = NoAllowance
      /\ committed = storage /\ calls = <<>>
  BY DEF ConnectorInit, Init, Storage, NoAllowance
<1>2. Accounted(committed, storage, calls)
  BY <1>1, NothingSpent
<1> QED BY <1>1, <1>2 DEF ConnectorInit, IInv, Untouched, SponsorInv, Typed,
                                Unapproved, InTransaction

LEMMA Invariant == ConnectorSpec => []IInv
  BY InitOK, Inductive, PTL DEF ConnectorSpec

-----------------------------------------------------------------------------
(* Every variable keeps its type: the sponsor never pays a refund that it   *)
(* does not have (_refundThroughNativeEth, _refundThroughBuyToken), and the *)
(* darkpool never takes what was not paid in.                               *)
THEOREM SponsorTypeCorrect == ConnectorSpec => []TypeOK
<1>1. ASSUME IInv PROVE TypeOK
  <2> SUFFICES ASSUME NEW i \in DOMAIN calls
               PROVE  calls[i].match \in [sell : Leg, buy : Leg] /\ calls[i].grant \in Grants
    BY <1>1 DEF IInv, SponsorInv, Typed, TypeOK
  <2>1. calls[i] \in Frame
    BY <1>1 DEF IInv, SponsorInv, Typed
  <2> QED BY <2>1 DEF Frame
<1> QED BY <1>1, Invariant, PTL

(* However calls of the sponsor and of the connector nest and revert,       *)
(* neither tokens nor allowances nor proceeds stay with the connector       *)
(* (executeMalleableAtomicMatchWithInput, _custodyTokens).                  *)
THEOREM NothingKept == ConnectorSpec => []ConnectorKeepsNothing
<1>1. ASSUME IInv PROVE ConnectorKeepsNothing
  <2> SUFFICES ASSUME NEW i \in DOMAIN calls PROVE calls[i].receiver # Connector
    BY <1>1 DEF IInv, Untouched, ConnectorKeepsNothing
  <2>1. calls[i] \in Frame
    BY <1>1 DEF IInv, SponsorInv, Typed
  <2> QED BY <2>1, ConnectorAssumption DEF Frame
<1> QED BY <1>1, Invariant, PTL

(* In every reachable state, an input in the proved range passes every      *)
(* check of the connector, the sponsor and the darkpool's amounts.          *)
THEOREM InputsAdmitted == ConnectorSpec => []InputsInRangeAreAdmitted
<1>1. ASSUME IInv PROVE InputsInRangeAreAdmitted
  <2> SUFFICES ASSUME NEW bounds \in Offers, NEW input \in Inputs, NEW grant \in Grants,
                      NEW amounts, amounts = ResolvedAmounts(bounds, input),
                      NEW value, value = IF SellLeg(amounts, bounds).mint = NATIVE
                                         THEN input ELSE 0,
                      CanUse(grant), amounts.base # 0, amounts.quote # 0,
                      validateBaseAmount(bounds, amounts.base),
                      amounts.quote <= unsafeFixedPointMul(bounds.price, bounds.maxBaseAmount)
               PROVE  CanExecute(input, bounds, grant, value)
    BY DEF InputsInRangeAreAdmitted
  <2> DEFINE match == MatchOf(amounts, bounds)
  <2>1. amounts = [base |-> amounts.base, quote |-> amounts.quote]
    BY DEF ResolvedAmounts
  <2>2. amounts.base \in Nat \ {0} /\ amounts.quote \in Nat \ {0}
    BY AmountsNat
  <2>3. validateAmounts(bounds, amounts.quote, amounts.base)
    BY <2>1, RangeAdmits
  <2>4. match \in [sell : Leg, buy : Leg] /\ match.sell = SellLeg(amounts, bounds)
    BY <2>1, <2>2, LegsOfMatch
  <2>5. SellLeg(amounts, bounds).amount = input
    BY DEF SellLeg, ResolvedAmounts
  <2> HIDE DEF match
  <2>6. SponsorAccepts(CustodyTokens(holdings, amounts, bounds), match.sell)
    <3>1. match.sell \in Leg
      BY <2>4
    <3> QED BY <1>1, <2>4, <3>1, PassesThrough DEF IInv, Untouched, CustodyTokens
  <2>7. value \in Nat /\ (match.sell.mint = NATIVE => value = match.sell.amount)
    BY <2>4, <2>5, ConnectorAssumption
  <2>8. CanSponsorMatch(match, grant, value)
    BY <1>1, <2>4, <2>7, HoldingCovers DEF IInv, SponsorInv, Typed,
                                            CanSponsorMatch, DarkpoolAccepts
  <2> QED BY <2>3, <2>6, <2>8 DEF CanExecute, match
<1> QED BY <1>1, Invariant, PTL

(* After any transaction, whatever calls nested or reverted in it, the      *)
(* darkpool may take nothing more out of the sponsor (_custodySendTokens    *)
(* approves what one match takes).                                          *)
THEOREM SponsorApprovesNoMore == ConnectorSpec => []NoAllowanceLeft
<1>1. ASSUME IInv PROVE NoAllowanceLeft
  BY <1>1 DEF IInv, SponsorInv, Unapproved, NoAllowance, NoAllowanceLeft
<1> QED BY <1>1, Invariant, PTL

(* However the calls of a transaction nest, it costs the sponsor, in every  *)
(* currency, a choice of the refunds that its server has signed, one at     *)
(* most for each nonce it uses up (_verifySigSpendNonce, _refundGasCost).   *)
THEOREM CostIsSigned == ConnectorSpec => CostsSignedRefunds
<1>1. ASSUME IInv, [ConnectorNext]_connectorVars PROVE [PaysSignedRefunds]_vars
  <2> SUFFICES ASSUME ~AtRest, AtRest' PROVE PaysSignedRefunds
    BY DEF PaysSignedRefunds
  <2>1. ASSUME Accounted(committed, committed', calls') PROVE PaysSignedRefunds
    <3>1. PICK paid, grantOf, paidIn :
            Books(committed, committed', calls', paid, grantOf, paidIn)
      BY <2>1 DEF Accounted
    <3> QED BY <3>1 DEF PaysSignedRefunds, Books
  <2>2. CASE Returns
    <3>1. committed' = storage'
      BY <2>2 DEF Returns, RefundGasCost, AtRest
    <3>2. Accounted(committed, storage', calls')
      BY <1>1, <2>2, RefundOK DEF Returns, IInv
    <3> QED BY <2>1, <3>1, <3>2
  <2>3. CASE Reverts
    BY <1>1, <2>1, <2>3, RevertOK DEF Reverts, IInv
  <2>4. CASE WithInput \/ Direct
    <3>1. PICK origin, receiver, match, grant, inEth, value :
            SponsorMatch(origin, receiver, match, grant, inEth, value)
      BY <2>4 DEF WithInput, executeMalleableAtomicMatchWithInput, Direct, Sponsor
    <3>2. PICK frame : calls' = <<frame>> \o calls
      BY <3>1 DEF SponsorMatch
    <3>3. calls' # <<>>
      BY <1>1, <3>2 DEF IInv, SponsorInv, Typed
    <3> QED BY <3>3 DEF AtRest
  <2>5. CASE Owner
    BY <2>5 DEF Owner, Administer, receive, withdraw, rotateAuthAddress, Alone
  <2>6. CASE UNCHANGED connectorVars
    BY <2>6 DEF connectorVars, vars, AtRest
  <2> QED BY <1>1, <2>2, <2>3, <2>4, <2>5, <2>6 DEF ConnectorNext
<1> QED BY <1>1, Invariant, PTL DEF ConnectorSpec, CostsSignedRefunds
=============================================================================
