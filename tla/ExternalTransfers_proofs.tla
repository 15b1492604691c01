------------------------ MODULE ExternalTransfers_proofs ------------------------
(***************************************************************************)
(* Proofs about ExternalTransfers, for every depth of nesting: what is owed *)
(* is what the contract holds and what the transfers of all frames on the   *)
(* stack have yet to bring.                                                 *)
(***************************************************************************)
EXTENDS ExternalTransfers, RunningTotals_proofs

Transfers == [mint : Tokens \cup {NATIVE}, amount : Nat, type : {"Deposit", "Withdrawal"}]

Frames == [transfers : Seq(Transfers), phase : {"ready", "begun", "moved"},
           expected : Int, value : Nat]

Books == [custody : [Tokens -> Int], eth : Int, owed : [Tokens -> Int]]

(* A deposit, if there is one, comes first; at most four transfers.         *)
Wellformed(frame) ==
    /\ Len(frame.transfers) <= 4
    /\ \A i \in 2..Len(frame.transfers) : frame.transfers[i].type = "Withdrawal"
    /\ frame.phase # "ready" => frame.transfers # <<>>
    /\ frame.transfers # <<>> /\ Head(frame.transfers).type = "Deposit"
         => Head(frame.transfers).amount > 0

(* What a transfer is to bring of a token, what at most four are, and what  *)
(* a token keeps for itself of a deposit.                                   *)
Brings(x, t) ==
    IF Token(x.mint) # t THEN 0 ELSE IF x.type = "Deposit" THEN x.amount ELSE 0 - x.amount

Due(list, t) ==
    (IF Len(list) >= 1 THEN Brings(list[1], t) ELSE 0)
    + (IF Len(list) >= 2 THEN Brings(list[2], t) ELSE 0)
    + (IF Len(list) >= 3 THEN Brings(list[3], t) ELSE 0)
    + (IF Len(list) >= 4 THEN Brings(list[4], t) ELSE 0)

Short(x, t) == IF x.type = "Deposit" /\ x.mint \in SkimTokens /\ Token(x.mint) = t THEN 1 ELSE 0

(* What a frame has yet to bring, and the value that it has yet to wrap.    *)
Lacks(frame, t) ==
    IF frame.phase = "moved" /\ frame.transfers # <<>>
    THEN Due(Tail(frame.transfers), t) + Short(Head(frame.transfers), t)
    ELSE Due(frame.transfers, t)

Unwrapped(frame) ==
    IF /\ frame.transfers # <<>> /\ frame.phase # "moved"
       /\ Head(frame.transfers).type = "Deposit" /\ Head(frame.transfers).mint = NATIVE
    THEN frame.value ELSE 0

LackingOf(t) == [frame \in Frames |-> Lacks(frame, t)]
UnwrappedOf == [frame \in Frames |-> Unwrapped(frame)]

(* Over all frames, from the first call to the running one.                 *)
StackTotal(stack, g) ==
    RunningTotal([i \in 1..Len(stack) |-> g[stack[Len(stack) + 1 - i]]], Len(stack))

TypeInv == books \in Books /\ committed \in Books /\ calls \in Seq(Frames)

(* A frame that is not the running one is waiting for outside code.         *)
StackInv ==
    /\ \A i \in 1..Len(calls) : Wellformed(calls[i])
    /\ \A i \in 2..Len(calls) : HandsOver(calls[i])

(* A token that keeps something for itself calls nobody, so between reading *)
(* its balance and comparing it nothing but the move can change it.         *)
ExpectedInv ==
    Running /\ Frame.transfers # <<>> /\ Transfer.mint \in SkimTokens =>
        /\ Frame.phase = "begun" =>
             Frame.expected = Balance(Transfer.mint)
                              + (IF Transfer.type = "Deposit" THEN Transfer.amount
                                 ELSE 0 - Transfer.amount)
        /\ Frame.phase = "moved" /\ Transfer.type = "Deposit" =>
             Frame.expected = Balance(Transfer.mint) + 1

BooksInv ==
    /\ committed.custody = committed.owed /\ committed.eth = 0
    /\ \A t \in Tokens : books.owed[t] = books.custody[t] + StackTotal(calls, LackingOf(t))
    /\ books.eth = StackTotal(calls, UnwrappedOf)

IInv == TypeInv /\ StackInv /\ ExpectedInv /\ BooksInv

-----------------------------------------------------------------------------
(* Sums over the stack, and over what is left of a batch.                   *)

LEMMA StackPush ==
    ASSUME NEW stack \in Seq(Frames), NEW frame \in Frames, NEW g \in [Frames -> Int]
    PROVE  StackTotal(<<frame>> \o stack, g) = StackTotal(stack, g) + g[frame]
<1> DEFINE n      == Len(stack)
           longer == <<frame>> \o stack
           f      == [i \in 1..n |-> g[stack[n + 1 - i]]]
           ff     == [i \in 1..(n + 1) |-> g[longer[n + 1 + 1 - i]]]
<1>1. n \in Nat /\ \A i \in 1..n : stack[i] \in Frames
  OBVIOUS
<1>2. Len(longer) = n + 1 /\ longer[1] = frame /\ \A i \in 1..n : longer[i + 1] = stack[i]
  OBVIOUS
<1> HIDE DEF n, longer
<1>3. ASSUME NEW i \in 1..n PROVE f[i] \in Int /\ ff[i] = f[i]
  <2>1. n + 1 - i \in 1..n /\ n + 1 + 1 - i = (n + 1 - i) + 1
    BY <1>1
  <2>2. longer[n + 1 + 1 - i] = stack[n + 1 - i]
    BY <1>2, <2>1
  <2>3. i \in 1..(n + 1)
    BY <1>1
  <2> QED BY <1>1, <2>1, <2>2, <2>3
<1>4. ff[n + 1] = g[frame]
  <2>1. n + 1 \in 1..(n + 1) /\ n + 1 + 1 - (n + 1) = 1
    BY <1>1
  <2> QED BY <1>2, <2>1
<1>5. g[frame] \in Int
  OBVIOUS
<1> HIDE DEF f, ff
<1>6. RunningTotal(ff, n + 1) = RunningTotal(f, n) + ff[n + 1]
  BY <1>1, <1>3, <1>4, <1>5, RunningTotalAppend
<1>7. StackTotal(stack, g) = RunningTotal(f, n)
  BY DEF StackTotal, f, n
<1>8. StackTotal(longer, g) = RunningTotal(ff, n + 1)
  BY <1>2 DEF StackTotal, ff
<1> QED BY <1>4, <1>6, <1>7, <1>8 DEF longer

LEMMA StackTop ==
    ASSUME NEW stack \in Seq(Frames), stack # <<>>, NEW g \in [Frames -> Int]
    PROVE  /\ Head(stack) \in Frames /\ Tail(stack) \in Seq(Frames)
           /\ StackTotal(stack, g) = StackTotal(Tail(stack), g) + g[Head(stack)]
<1> DEFINE top  == Head(stack)
           rest == Tail(stack)
<1>1. top \in Frames /\ rest \in Seq(Frames) /\ stack = <<top>> \o rest
  OBVIOUS
<1> HIDE DEF top, rest
<1>2. StackTotal(<<top>> \o rest, g) = StackTotal(rest, g) + g[top]
  BY <1>1, StackPush
<1> QED BY <1>1, <1>2 DEF top, rest

LEMMA StackEmpty ==
    ASSUME NEW g
    PROVE  StackTotal(<<>>, g) = 0
<1> DEFINE f == [i \in 1..0 |-> g[<<>>[0 + 1 - i]]]
<1>1. \A i \in 1..0 : f[i] \in Int
  OBVIOUS
<1> HIDE DEF f
<1>2. RunningTotal(f, 0) = 0
  BY <1>1, RunningTotalIsTotal DEF Totals
<1>3. Len(<<>>) = 0
  OBVIOUS
<1>4. StackTotal(<<>>, g) = RunningTotal([i \in 1..0 |-> g[<<>>[0 + 1 - i]]], 0)
  BY <1>3 DEF StackTotal
<1> QED BY <1>2, <1>4 DEF f

LEMMA StackInt ==
    ASSUME NEW stack \in Seq(Frames), NEW g \in [Frames -> Int]
    PROVE  /\ StackTotal(stack, g) \in Int
           /\ (\A i \in 1..Len(stack) : g[stack[i]] <= 0) => StackTotal(stack, g) <= 0
<1> DEFINE n == Len(stack)
           f == [i \in 1..n |-> g[stack[n + 1 - i]]]
<1>1. n \in Nat /\ \A i \in 1..n : stack[i] \in Frames
  OBVIOUS
<1> HIDE DEF n
<1>2. \A i \in 1..n : n + 1 - i \in 1..n
  BY <1>1
<1>3. \A i \in 1..n : f[i] = g[stack[n + 1 - i]] /\ f[i] \in Int
  BY <1>1, <1>2
<1>4. StackTotal(stack, g) = RunningTotal(f, n)
  BY DEF StackTotal, n
<1> HIDE DEF f
<1>5. ASSUME \A i \in 1..n : g[stack[i]] <= 0 PROVE \A i \in 1..n : f[i] \in Int /\ f[i] <= 0
  BY <1>2, <1>3, <1>5
<1>6. RunningTotal(f, n) \in Int
  BY <1>1, <1>3, RunningTotalInt
<1>7. (\A i \in 1..n : g[stack[i]] <= 0) => RunningTotal(f, n) <= 0
  BY <1>1, <1>5, RunningTotalNotPositive
<1> QED BY <1>4, <1>6, <1>7 DEF n

LEMMA BringsInt ==
    ASSUME NEW x \in Transfers, NEW t
    PROVE  Brings(x, t) \in Int
BY DEF Brings, Transfers

LEMMA DueOfRest ==
    ASSUME NEW list \in Seq(Transfers), NEW t
    PROVE  /\ Due(list, t) \in Int
           /\ list # <<>> /\ Len(list) <= 4
                => Due(list, t) = Brings(Head(list), t) + Due(Tail(list), t)
<1> DEFINE n    == Len(list)
           rest == Tail(list)
           B(i) == Brings(list[i], t)
<1>1. n \in Nat /\ \A i \in 1..n : list[i] \in Transfers
  OBVIOUS
<1>2. list # <<>> => /\ n >= 1 /\ Head(list) = list[1] /\ Len(rest) = n - 1
                     /\ \A i \in 1..(n - 1) : rest[i] = list[i + 1]
  OBVIOUS
<1>3. \A i \in 1..n : B(i) \in Int
  BY <1>1, BringsInt
<1> HIDE DEF n, rest, B
<1>4. Due(list, t) = (IF n >= 1 THEN B(1) ELSE 0) + (IF n >= 2 THEN B(2) ELSE 0)
                     + (IF n >= 3 THEN B(3) ELSE 0) + (IF n >= 4 THEN B(4) ELSE 0)
  BY DEF Due, n, B
<1>5. Due(list, t) \in Int
  BY <1>1, <1>3, <1>4
<1>6. ASSUME list # <<>>, n <= 4
      PROVE  Due(list, t) = Brings(Head(list), t) + Due(rest, t)
  <2>1. /\ n - 1 >= 1 => Brings(rest[1], t) = B(2)
        /\ n - 1 >= 2 => Brings(rest[2], t) = B(3)
        /\ n - 1 >= 3 => Brings(rest[3], t) = B(4)
    BY <1>1, <1>2, <1>6 DEF B
  <2>2. Due(rest, t) = (IF n - 1 >= 1 THEN Brings(rest[1], t) ELSE 0)
                       + (IF n - 1 >= 2 THEN Brings(rest[2], t) ELSE 0)
                       + (IF n - 1 >= 3 THEN Brings(rest[3], t) ELSE 0) + 0
    BY <1>1, <1>2, <1>6 DEF Due
  <2>3. Brings(Head(list), t) = B(1)
    BY <1>2, <1>6 DEF B
  <2>4. n = 1 \/ n = 2 \/ n = 3 \/ n = 4
    BY <1>1, <1>2, <1>6
  <2> QED BY <1>3, <1>4, <2>1, <2>2, <2>3, <2>4
<1> QED BY <1>5, <1>6 DEF n, rest

LEMMA FrameSums ==
    /\ \A t : LackingOf(t) \in [Frames -> Int]
    /\ \A t, frame : frame \in Frames => LackingOf(t)[frame] = Lacks(frame, t)
    /\ UnwrappedOf \in [Frames -> Int]
    /\ \A frame \in Frames : UnwrappedOf[frame] = Unwrapped(frame)
<1>1. ASSUME NEW t, NEW frame \in Frames PROVE Lacks(frame, t) \in Int
  <2>1. frame.transfers \in Seq(Transfers)
    BY DEF Frames
  <2>2. frame.transfers # <<>> => Tail(frame.transfers) \in Seq(Transfers)
    BY <2>1
  <2>3. Short(Head(frame.transfers), t) \in Int
    BY DEF Short
  <2>4. CASE frame.phase = "moved" /\ frame.transfers # <<>>
    <3>1. Due(Tail(frame.transfers), t) \in Int
      BY <2>2, <2>4, DueOfRest
    <3> QED BY <2>3, <2>4, <3>1 DEF Lacks
  <2>5. CASE ~(frame.phase = "moved" /\ frame.transfers # <<>>)
    <3>1. Due(frame.transfers, t) \in Int
      BY <2>1, DueOfRest
    <3> QED BY <2>5, <3>1 DEF Lacks
  <2> QED BY <2>4, <2>5
<1>2. \A frame \in Frames : Unwrapped(frame) \in Int
  BY DEF Unwrapped, Frames
<1> QED BY <1>1, <1>2 DEF LackingOf, UnwrappedOf

-----------------------------------------------------------------------------
(* A call, a step of the running frame, and a return, each by what it does  *)
(* to the sums.                                                             *)

Balanced(b, stack) ==
    /\ \A t \in Tokens : b.owed[t] = b.custody[t] + StackTotal(stack, LackingOf(t))
    /\ b.eth = StackTotal(stack, UnwrappedOf)

LEMMA CallKeeps ==
    ASSUME IInv, MayCall, NEW frame \in Frames, calls' = <<frame>> \o calls,
           Wellformed(frame), frame.phase = "ready", books' \in Books, committed' = committed,
           \A t \in Tokens : /\ books'.custody[t] = books.custody[t]
                             /\ books'.owed[t] = books.owed[t] + Lacks(frame, t),
           books'.eth = books.eth + Unwrapped(frame)
    PROVE  IInv'
<1>1. /\ calls \in Seq(Frames) /\ books \in Books /\ committed \in Books
      /\ Balanced(books, calls)
  BY DEF IInv, TypeInv, BooksInv, Balanced
<1>2. /\ calls' \in Seq(Frames) /\ Len(calls') = Len(calls) + 1 /\ calls'[1] = frame
      /\ Head(calls') = frame /\ calls' # <<>> /\ Len(calls) \in Nat
      /\ \A i \in 1..Len(calls) : calls'[i + 1] = calls[i]
      /\ Len(calls) >= 1 => calls # <<>> /\ calls[1] = Head(calls)
  BY <1>1
<1>3. TypeInv'
  BY <1>1, <1>2 DEF TypeInv
<1>4. StackInv'
  <2>1. ASSUME NEW i \in 1..Len(calls') PROVE Wellformed(calls'[i])
    <3>1. CASE i = 1
      BY <1>2, <3>1
    <3>2. CASE i # 1
      <4>1. i - 1 \in 1..Len(calls) /\ (i - 1) + 1 = i
        BY <1>2, <3>2
      <4> QED BY <1>2, <4>1 DEF IInv, StackInv
    <3> QED BY <3>1, <3>2
  <2>2. ASSUME NEW i \in 2..Len(calls') PROVE HandsOver(calls'[i])
    <3>1. i - 1 \in 1..Len(calls) /\ (i - 1) + 1 = i
      BY <1>2
    <3>2. calls'[i] = calls[i - 1]
      BY <1>2, <3>1
    <3>3. CASE i = 2
      BY <1>2, <3>1, <3>2, <3>3 DEF MayCall, Running, Frame
    <3>4. CASE i # 2
      <4>1. i - 1 \in 2..Len(calls)
        BY <3>1, <3>4
      <4> QED BY <3>2, <4>1 DEF IInv, StackInv
    <3> QED BY <3>3, <3>4
  <2> QED BY <2>1, <2>2 DEF StackInv
<1>5. ExpectedInv'
  BY <1>2 DEF ExpectedInv, Frame
<1>6. BooksInv'
  <2>1. ASSUME NEW t \in Tokens
        PROVE  books'.owed[t] = books'.custody[t] + StackTotal(calls', LackingOf(t))
    <3>1. StackTotal(calls', LackingOf(t)) = StackTotal(calls, LackingOf(t)) + Lacks(frame, t)
      BY <1>1, FrameSums, StackPush
    <3>2. StackTotal(calls, LackingOf(t)) \in Int /\ Lacks(frame, t) \in Int
      BY <1>1, FrameSums, StackInt
    <3>3. books.custody[t] \in Int
      BY <1>1 DEF Books
    <3>4. books.owed[t] = books.custody[t] + StackTotal(calls, LackingOf(t))
      BY <1>1 DEF Balanced
    <3> QED BY <3>1, <3>2, <3>3, <3>4
  <2>2. books'.eth = StackTotal(calls', UnwrappedOf)
    BY <1>1, FrameSums, StackPush DEF Balanced
  <2> QED BY <2>1, <2>2 DEF BooksInv, IInv
<1> QED BY <1>3, <1>4, <1>5, <1>6 DEF IInv

LEMMA Rebalanced ==
    ASSUME NEW e \in Int, NEW ee \in Int, NEW r \in Int, NEW u \in Int, NEW uu \in Int,
           e = r + u, ee + u = e + uu
    PROVE  ee = r + uu
OBVIOUS

LEMMA StepKeeps ==
    ASSUME IInv, Running, NEW frame \in Frames, Step(frame), Wellformed(frame),
           books' \in Books, committed' = committed,
           \A t \in Tokens : /\ books'.owed[t] = books.owed[t]
                             /\ books'.custody[t] + Lacks(frame, t)
                                  = books.custody[t] + Lacks(Frame, t),
           books'.eth + Unwrapped(Frame) = books.eth + Unwrapped(frame)
    PROVE  TypeInv' /\ StackInv' /\ BooksInv' /\ Frame' = frame
<1> DEFINE rest == Tail(calls)
<1>1. /\ calls \in Seq(Frames) /\ books \in Books /\ committed \in Books
      /\ Balanced(books, calls) /\ calls # <<>>
  BY DEF IInv, TypeInv, BooksInv, Balanced, Running
<1>2. Frame \in Frames /\ rest \in Seq(Frames) /\ calls' = <<frame>> \o rest
  BY <1>1, StackTop DEF Step, Frame
<1>3. /\ Len(calls) \in Nat /\ Len(rest) = Len(calls) - 1
      /\ \A i \in 1..Len(rest) : rest[i] = calls[i + 1]
  BY <1>1
<1> HIDE DEF rest
<1>4. /\ calls' \in Seq(Frames) /\ Len(calls') = Len(rest) + 1 /\ calls'[1] = frame
      /\ Head(calls') = frame
      /\ \A i \in 1..Len(rest) : calls'[i + 1] = rest[i]
  BY <1>2
<1>5. Len(calls') = Len(calls) /\ \A i \in 2..Len(calls) : calls'[i] = calls[i]
  <2>1. Len(calls') = Len(calls)
    BY <1>3, <1>4
  <2>2. ASSUME NEW i \in 2..Len(calls) PROVE calls'[i] = calls[i]
    <3>1. i - 1 \in 1..Len(rest) /\ (i - 1) + 1 = i
      BY <1>3
    <3> QED BY <1>3, <1>4, <3>1
  <2> QED BY <2>1, <2>2
<1>6. TypeInv' /\ Frame' = frame
  BY <1>1, <1>4 DEF TypeInv, Frame
<1>7. StackInv'
  <2>1. ASSUME NEW i \in 1..Len(calls') PROVE Wellformed(calls'[i])
    <3>1. CASE i = 1
      BY <1>4, <3>1
    <3>2. CASE i # 1
      <4>1. i \in 2..Len(calls) /\ i \in 1..Len(calls)
        BY <1>3, <1>5, <3>2
      <4> QED BY <1>5, <4>1 DEF IInv, StackInv
    <3> QED BY <3>1, <3>2
  <2>2. \A i \in 2..Len(calls') : HandsOver(calls'[i])
    BY <1>5 DEF IInv, StackInv
  <2> QED BY <2>1, <2>2 DEF StackInv
<1>8. BooksInv'
  <2>1. ASSUME NEW g \in [Frames -> Int]
        PROVE  /\ StackTotal(calls', g) = StackTotal(rest, g) + g[frame]
               /\ StackTotal(calls, g) = StackTotal(rest, g) + g[Frame]
               /\ StackTotal(rest, g) \in Int
    BY <1>1, <1>2, StackPush, StackTop, StackInt DEF Frame, rest
  <2>2. ASSUME NEW t \in Tokens
        PROVE  books'.owed[t] = books'.custody[t] + StackTotal(calls', LackingOf(t))
    <3> DEFINE g == LackingOf(t)
    <3>1. g \in [Frames -> Int] /\ g[frame] = Lacks(frame, t) /\ g[Frame] = Lacks(Frame, t)
      BY <1>2, FrameSums
    <3> HIDE DEF g
    <3>2. /\ StackTotal(calls', g) = StackTotal(rest, g) + Lacks(frame, t)
          /\ StackTotal(calls, g) = StackTotal(rest, g) + Lacks(Frame, t)
          /\ StackTotal(rest, g) \in Int /\ Lacks(frame, t) \in Int /\ Lacks(Frame, t) \in Int
      BY <1>2, <2>1, <3>1
    <3>3. books.custody[t] \in Int /\ books'.custody[t] \in Int
      BY <1>1 DEF Books
    <3>4. books.owed[t] = books.custody[t] + StackTotal(calls, g)
      BY <1>1 DEF Balanced, g
    <3> QED BY <3>2, <3>3, <3>4 DEF g
  <2>3. books'.eth = StackTotal(calls', UnwrappedOf)
    <3> DEFINE g == UnwrappedOf
    <3>1. g \in [Frames -> Int] /\ g[frame] = Unwrapped(frame) /\ g[Frame] = Unwrapped(Frame)
      BY <1>2, FrameSums
    <3> HIDE DEF g
    <3>2. /\ StackTotal(calls', g) = StackTotal(rest, g) + Unwrapped(frame)
          /\ StackTotal(calls, g) = StackTotal(rest, g) + Unwrapped(Frame)
          /\ StackTotal(rest, g) \in Int /\ Unwrapped(frame) \in Int /\ Unwrapped(Frame) \in Int
      BY <1>2, <2>1, <3>1
    <3>3. books.eth = StackTotal(calls, g) /\ books'.eth \in Int /\ books.eth \in Int
      BY <1>1 DEF Balanced, Books, g
    <3> DEFINE r  == StackTotal(rest, g)
               u  == Unwrapped(Frame)
               uu == Unwrapped(frame)
               e  == books.eth
               ee == books'.eth
    <3>4. /\ r \in Int /\ u \in Int /\ uu \in Int /\ e \in Int /\ ee \in Int
          /\ e = r + u /\ ee + u = e + uu
      BY <3>2, <3>3
    <3>5. StackTotal(calls', g) = r + uu
      BY <3>2
    <3> HIDE DEF r, u, uu, e, ee
    <3>6. ee = r + uu
      BY <3>4, Rebalanced
    <3> QED BY <3>5, <3>6 DEF g, ee
  <2> QED BY <2>2, <2>3 DEF BooksInv, IInv
<1> QED BY <1>6, <1>7, <1>8

-----------------------------------------------------------------------------
(* The actions.                                                             *)

LEMMA TokenType == \A mint \in Tokens \cup {NATIVE} : Token(mint) \in Tokens
BY TransferAssumption DEF Token

LEMMA SettleKeeps ==
    ASSUME IInv, Settle
    PROVE  IInv'
<1>1. PICK sellMint \in Tokens \cup {NATIVE}, buyMint \in Tokens \cup {NATIVE},
           sold \in Amounts, bought \in Amounts, relayer \in Fees, protocol \in Fees,
           value \in Amounts \cup {0} :
        /\ Token(sellMint) # Token(buyMint)
        /\ SettleAtomicMatch([mint |-> sellMint, amount |-> sold],
                             [mint |-> buyMint, amount |-> bought],
                             [relayer |-> relayer, protocol |-> protocol], value)
  BY DEF Settle
<1> DEFINE sell == [mint |-> sellMint, amount |-> sold]
           buy  == [mint |-> buyMint, amount |-> bought]
           fee  == [relayer |-> relayer, protocol |-> protocol]
           owed == Credit(Credit(books.owed, sellMint, sold), buyMint, -bought)
           one   == Deposit(sellMint, sold)
           two   == Withdrawal(buyMint, bought - (relayer + protocol))
           three == Withdrawal(buyMint, relayer)
           four  == Withdrawal(buyMint, protocol)
           list  == <<one, two, three, four>>
           frame == [transfers |-> list, phase |-> "ready", expected |-> 0, value |-> value]
<1>2. /\ MayCall /\ committed' = committed
      /\ sellMint = NATIVE \/ value = 0
      /\ relayer + protocol <= bought
      /\ books' = [books EXCEPT !.owed = owed, !.eth = @ + value]
      /\ calls' = <<frame>> \o calls
  BY <1>1 DEF SettleAtomicMatch, Call, buildAtomicMatchTransfers
<1>3. /\ sold \in Nat /\ sold > 0 /\ bought \in Nat /\ relayer \in Nat /\ protocol \in Nat
      /\ value \in Nat /\ Token(sellMint) \in Tokens /\ Token(buyMint) \in Tokens
      /\ Token(sellMint) # Token(buyMint)
  BY <1>1, TokenType, TransferAssumption
<1>4. bought - (relayer + protocol) \in Nat
  BY <1>2, <1>3
<1>5. /\ one \in Transfers /\ two \in Transfers /\ three \in Transfers /\ four \in Transfers
      /\ one.type = "Deposit" /\ one.amount = sold /\ one.mint = sellMint
      /\ two.type = "Withdrawal" /\ three.type = "Withdrawal" /\ four.type = "Withdrawal"
  BY <1>3, <1>4 DEF Transfers, Deposit, Withdrawal
<1>6. \A t : /\ Brings(one, t) = (IF Token(sellMint) = t THEN sold ELSE 0)
             /\ Brings(two, t) = (IF Token(buyMint) = t THEN 0 - (bought - (relayer + protocol))
                                  ELSE 0)
             /\ Brings(three, t) = (IF Token(buyMint) = t THEN 0 - relayer ELSE 0)
             /\ Brings(four, t) = (IF Token(buyMint) = t THEN 0 - protocol ELSE 0)
  BY DEF Brings, Deposit, Withdrawal
<1> HIDE DEF one, two, three, four
<1>7. /\ list \in Seq(Transfers) /\ Len(list) = 4 /\ list # <<>> /\ Head(list) = one
      /\ list[1] = one /\ list[2] = two /\ list[3] = three /\ list[4] = four
  BY <1>5
<1>8. \A t : Due(list, t) = Brings(one, t) + Brings(two, t) + Brings(three, t) + Brings(four, t)
  BY <1>7 DEF Due
<1>9. \A t : Due(list, t) = IF Token(sellMint) = t THEN sold
                            ELSE IF Token(buyMint) = t THEN 0 - bought ELSE 0
  BY <1>3, <1>6, <1>8
<1> HIDE DEF list
<1>10. frame \in Frames /\ frame.phase = "ready" /\ frame.transfers = list /\ frame.value = value
  BY <1>3, <1>7 DEF Frames
<1> HIDE DEF frame
<1>11. Wellformed(frame)
  <2>1. \A i \in 2..4 : list[i].type = "Withdrawal"
    BY <1>5, <1>7
  <2>2. Len(list) <= 4 /\ \A i \in 2..Len(list) : list[i].type = "Withdrawal"
    BY <1>7, <2>1
  <2> QED BY <1>3, <1>5, <1>7, <1>10, <2>2 DEF Wellformed
<1>12. Unwrapped(frame) = value
  BY <1>2, <1>5, <1>7, <1>10 DEF Unwrapped
<1>13. \A t : Lacks(frame, t) = Due(list, t)
  BY <1>10 DEF Lacks
<1>14. books \in Books /\ books.owed \in [Tokens -> Int] /\ books.eth \in Int
       /\ books.custody \in [Tokens -> Int]
  BY DEF IInv, TypeInv, Books
<1>15. /\ owed \in [Tokens -> Int]
       /\ \A t \in Tokens : owed[t] = books.owed[t] + Due(list, t)
  BY <1>3, <1>9, <1>14 DEF Credit
<1> HIDE DEF owed
<1>16. books' = [custody |-> books.custody, eth |-> books.eth + value, owed |-> owed]
  BY <1>2, <1>14 DEF Books
<1>17. books' \in Books
  BY <1>3, <1>14, <1>15, <1>16 DEF Books
<1>18. \A t \in Tokens : /\ books'.custody[t] = books.custody[t]
                         /\ books'.owed[t] = books.owed[t] + Lacks(frame, t)
  BY <1>13, <1>15, <1>16
<1>19. books'.eth = books.eth + Unwrapped(frame)
  BY <1>12, <1>16
<1> QED BY <1>2, <1>10, <1>11, <1>17, <1>18, <1>19, CallKeeps

LEMMA UpdateKeeps ==
    ASSUME IInv, Update
    PROVE  IInv'
<1>1. PICK m \in Tokens, a \in Amounts, type \in {"Deposit", "Withdrawal"} :
        UpdateWallet([mint |-> m, amount |-> a, type |-> type])
  BY DEF Update
<1> DEFINE x     == [mint |-> m, amount |-> a, type |-> type]
           owed  == Credit(books.owed, m, IF type = "Deposit" THEN a ELSE -a)
           list  == <<x>>
           frame == [transfers |-> list, phase |-> "ready", expected |-> 0, value |-> 0]
<1>2. /\ MayCall /\ committed' = committed
      /\ books' = [books EXCEPT !.owed = owed]
      /\ calls' = <<frame>> \o calls
  BY <1>1 DEF UpdateWallet, Call
<1>3. a \in Nat /\ a > 0 /\ Token(m) = m /\ m # NATIVE
  BY TransferAssumption DEF Token
<1>4. /\ x \in Transfers /\ x.amount = a /\ x.mint = m
      /\ \A t : Brings(x, t) = IF m # t THEN 0 ELSE IF type = "Deposit" THEN a ELSE 0 - a
  BY <1>3 DEF Transfers, Brings
<1> HIDE DEF x
<1>5. list \in Seq(Transfers) /\ Len(list) = 1 /\ list # <<>> /\ Head(list) = x /\ list[1] = x
  BY <1>4
<1>6. \A t : Due(list, t) = Brings(x, t)
  BY <1>4, <1>5, BringsInt DEF Due
<1> HIDE DEF list
<1>7. frame \in Frames /\ frame.phase = "ready" /\ frame.transfers = list
  BY <1>5 DEF Frames
<1>8. Wellformed(frame)
  BY <1>3, <1>4, <1>5, <1>7 DEF Wellformed
<1>9. Unwrapped(frame) = 0
  BY DEF Unwrapped
<1>10. \A t : Lacks(frame, t) = Due(list, t)
  BY <1>7 DEF Lacks
<1>11. books \in Books /\ books.owed \in [Tokens -> Int] /\ books.eth \in Int
       /\ books.custody \in [Tokens -> Int]
  BY DEF IInv, TypeInv, Books
<1>12. /\ owed \in [Tokens -> Int]
       /\ \A t \in Tokens : owed[t] = books.owed[t] + Due(list, t)
  BY <1>3, <1>4, <1>6, <1>11 DEF Credit
<1> HIDE DEF owed
<1>13. books' = [custody |-> books.custody, eth |-> books.eth, owed |-> owed]
  BY <1>2, <1>11 DEF Books
<1>14. books' \in Books
  BY <1>11, <1>12, <1>13 DEF Books
<1>15. \A t \in Tokens : /\ books'.custody[t] = books.custody[t]
                         /\ books'.owed[t] = books.owed[t] + Lacks(frame, t)
  BY <1>10, <1>12, <1>13
<1>16. books'.eth = books.eth + Unwrapped(frame)
  BY <1>9, <1>11, <1>13
<1> HIDE DEF frame
<1> QED BY <1>2, <1>7, <1>8, <1>14, <1>15, <1>16, CallKeeps

LEMMA RunningFrame ==
    ASSUME IInv, Running
    PROVE  /\ Frame \in Frames /\ Wellformed(Frame)
           /\ Frame.transfers \in Seq(Transfers) /\ Len(Frame.transfers) <= 4
           /\ Frame.transfers # <<>> =>
                /\ Transfer \in Transfers /\ Tail(Frame.transfers) \in Seq(Transfers)
                /\ \A t : /\ Due(Frame.transfers, t)
                               = Brings(Transfer, t) + Due(Tail(Frame.transfers), t)
                          /\ Due(Tail(Frame.transfers), t) \in Int
           /\ books.custody \in [Tokens -> Int] /\ books.owed \in [Tokens -> Int]
           /\ books.eth \in Int /\ books \in Books
<1>1. calls \in Seq(Frames) /\ calls # <<>> /\ Len(calls) \in Nat /\ Len(calls) >= 1
  BY DEF IInv, TypeInv, Running
<1>2. Frame \in Frames /\ Frame = calls[1]
  BY <1>1 DEF Frame
<1>3. Wellformed(Frame)
  BY <1>1, <1>2 DEF IInv, StackInv
<1>4. Frame.transfers \in Seq(Transfers) /\ Len(Frame.transfers) <= 4
  BY <1>2, <1>3 DEF Frames, Wellformed
<1>5. ASSUME Frame.transfers # <<>>
      PROVE  Transfer \in Transfers /\ Tail(Frame.transfers) \in Seq(Transfers)
  <2> DEFINE list == Frame.transfers
  <2>1. list \in Seq(Transfers) /\ list # <<>>
    BY <1>4, <1>5
  <2> HIDE DEF list
  <2>2. Head(list) \in Transfers /\ Tail(list) \in Seq(Transfers)
    BY <2>1
  <2> QED BY <2>2 DEF list, Transfer
<1>6. Frame.transfers # <<>> =>
        \A t : /\ Due(Frame.transfers, t) = Brings(Transfer, t) + Due(Tail(Frame.transfers), t)
               /\ Due(Tail(Frame.transfers), t) \in Int
  BY <1>4, <1>5, DueOfRest DEF Transfer
<1>7. books \in Books
  BY DEF IInv, TypeInv
<1>8. books.custody \in [Tokens -> Int] /\ books.owed \in [Tokens -> Int] /\ books.eth \in Int
  BY <1>7 DEF Books
<1> QED BY <1>2, <1>3, <1>4, <1>5, <1>6, <1>7, <1>8

LEMMA BeginKeeps ==
    ASSUME IInv, Begin
    PROVE  IInv'
<1> DEFINE expected == Balance(Transfer.mint)
                       + IF Transfer.type = "Deposit" THEN Transfer.amount ELSE -Transfer.amount
           frame    == [Frame EXCEPT !.phase = "begun", !.expected = expected]
<1>1. /\ Running /\ Frame.transfers # <<>> /\ Frame.phase = "ready" /\ Step(frame)
      /\ books' = books /\ committed' = committed
  BY DEF Begin
<1>2. /\ Frame \in Frames /\ Wellformed(Frame) /\ Transfer \in Transfers
      /\ books.custody \in [Tokens -> Int] /\ books \in Books
  BY <1>1, RunningFrame
<1>3. expected \in Int /\ expected = Balance(Transfer.mint)
                            + (IF Transfer.type = "Deposit" THEN Transfer.amount
                               ELSE 0 - Transfer.amount)
  <2>1. Balance(Transfer.mint) \in Int /\ Transfer.amount \in Int
    BY <1>2, TokenType DEF Balance, Transfers
  <2> QED BY <2>1
<1> HIDE DEF expected
<1>4. /\ frame \in Frames /\ frame.transfers = Frame.transfers /\ frame.phase = "begun"
      /\ frame.expected = expected /\ frame.value = Frame.value
  BY <1>2, <1>3 DEF Frames
<1> HIDE DEF frame
<1>5. Wellformed(frame)
  BY <1>1, <1>2, <1>4 DEF Wellformed
<1>6. \A t : Lacks(frame, t) = Lacks(Frame, t)
  BY <1>1, <1>4 DEF Lacks
<1>7. Unwrapped(frame) = Unwrapped(Frame)
  BY <1>1, <1>4 DEF Unwrapped
<1>8. TypeInv' /\ StackInv' /\ BooksInv' /\ Frame' = frame
  BY <1>1, <1>2, <1>4, <1>5, <1>6, <1>7, StepKeeps
<1>9. ExpectedInv'
  <2>1. Transfer' = Transfer
    BY <1>4, <1>8 DEF Transfer
  <2>2. Balance(Transfer.mint)' = Balance(Transfer.mint)
    BY <1>1, <2>1 DEF Balance
  <2> QED BY <1>3, <1>4, <1>8, <2>1, <2>2 DEF ExpectedInv
<1> QED BY <1>8, <1>9 DEF IInv

LEMMA MoveKeeps ==
    ASSUME IInv, Move
    PROVE  IInv'
<1> DEFINE x     == Transfer
           in    == IF x.type = "Deposit" THEN Delivered(x.mint, x.amount) ELSE -x.amount
           k     == Token(x.mint)
           frame == [Frame EXCEPT !.phase = "moved"]
           rest  == Tail(Frame.transfers)
<1>1. /\ Running /\ Frame.phase = "begun" /\ Step(frame) /\ committed' = committed
      /\ x.type = "Deposit" /\ x.mint = NATIVE => Frame.value = x.amount
      /\ books' = [books EXCEPT
                !.custody[k] = @ + in,
                !.eth = IF x.mint = NATIVE /\ x.type = "Deposit" THEN @ - x.amount ELSE @]
  BY DEF Move
<1>2. /\ Frame \in Frames /\ Wellformed(Frame)
      /\ books.custody \in [Tokens -> Int] /\ books.owed \in [Tokens -> Int]
      /\ books.eth \in Int /\ books \in Books
  BY <1>1, RunningFrame
<1>3. Frame.transfers # <<>>
  BY <1>1, <1>2 DEF Wellformed
<1>4. /\ x \in Transfers
      /\ \A t : Due(Frame.transfers, t) = Brings(x, t) + Due(rest, t) /\ Due(rest, t) \in Int
  BY <1>1, <1>3, RunningFrame
<1>5. /\ x.amount \in Nat /\ k \in Tokens /\ x.mint \in Tokens \cup {NATIVE}
      /\ x.type \in {"Deposit", "Withdrawal"}
  BY <1>4, TokenType DEF Transfers
<1>6. /\ frame \in Frames /\ frame.transfers = Frame.transfers /\ frame.phase = "moved"
      /\ frame.expected = Frame.expected /\ frame.value = Frame.value
  BY <1>2 DEF Frames
<1>7. Head(frame.transfers) = x /\ Tail(frame.transfers) = rest
  BY <1>6 DEF Transfer
<1> HIDE DEF frame, rest
<1>8. Wellformed(frame)
  BY <1>2, <1>3, <1>6 DEF Wellformed
<1>9. in \in Int /\ in = Brings(x, k) - Short(x, k)
  BY <1>5 DEF Brings, Short, Delivered
<1>10. \A t : k # t => Brings(x, t) = 0 /\ Short(x, t) = 0
  BY DEF Brings, Short
<1>11. Brings(x, k) \in Int /\ Short(x, k) \in Int
  BY <1>4, BringsInt DEF Short
<1>12. x.mint \in SkimTokens /\ x.type = "Deposit" => in = x.amount - 1
  BY DEF Delivered
<1> DEFINE custody == [books.custody EXCEPT ![k] = @ + in]
           eth     == IF x.mint = NATIVE /\ x.type = "Deposit" THEN books.eth - x.amount ELSE books.eth
<1>13. books' = [custody |-> custody, eth |-> eth, owed |-> books.owed]
  BY <1>1, <1>2 DEF Books
<1> HIDE DEF in, k
<1>14. /\ custody \in [Tokens -> Int] /\ eth \in Int
       /\ \A t \in Tokens : custody[t] = books.custody[t] + IF t = k THEN in ELSE 0
  BY <1>2, <1>5, <1>9
<1>15. eth + Unwrapped(Frame) = books.eth + Unwrapped(frame)
  <2>1. Unwrapped(frame) = 0
    BY <1>6 DEF Unwrapped
  <2>2. Unwrapped(Frame) = IF x.mint = NATIVE /\ x.type = "Deposit" THEN x.amount ELSE 0
    BY <1>1, <1>3 DEF Unwrapped, Transfer
  <2> QED BY <1>2, <1>5, <2>1, <2>2
<1> HIDE DEF custody, eth
<1>16. books' \in Books
  BY <1>2, <1>13, <1>14 DEF Books
<1>17. ASSUME NEW t \in Tokens
       PROVE  books'.custody[t] + Lacks(frame, t) = books.custody[t] + Lacks(Frame, t)
  <2>1. Lacks(frame, t) = Due(rest, t) + Short(x, t)
    BY <1>3, <1>6, <1>7 DEF Lacks
  <2>2. Lacks(Frame, t) = Brings(x, t) + Due(rest, t)
    BY <1>1, <1>4 DEF Lacks
  <2>3. books'.custody[t] = books.custody[t] + IF t = k THEN in ELSE 0
    BY <1>13, <1>14
  <2>4. books.custody[t] \in Int /\ Due(rest, t) \in Int
    BY <1>2, <1>4
  <2> HIDE DEF x
  <2>5. CASE t = k
    BY <1>9, <1>11, <2>1, <2>2, <2>3, <2>4, <2>5
  <2>6. CASE t # k
    BY <1>10, <2>1, <2>2, <2>3, <2>4, <2>6
  <2> QED BY <2>5, <2>6
<1>18. \A t \in Tokens : books'.owed[t] = books.owed[t]
  BY <1>13
<1>19. books'.eth + Unwrapped(Frame) = books.eth + Unwrapped(frame)
  BY <1>13, <1>15
<1>20. TypeInv' /\ StackInv' /\ BooksInv' /\ Frame' = frame
  BY <1>1, <1>6, <1>8, <1>16, <1>17, <1>18, <1>19, StepKeeps
<1>21. ExpectedInv'
  <2>1. Transfer' = x
    BY <1>7, <1>20 DEF Transfer
  <2>2. SUFFICES ASSUME x.mint \in SkimTokens, x.type = "Deposit"
                 PROVE  Frame'.expected = Balance(Transfer.mint)' + 1
    BY <1>6, <1>20, <2>1 DEF ExpectedInv
  <2>3. Frame.expected = Balance(x.mint) + x.amount
    BY <1>1, <1>3, <2>2 DEF IInv, ExpectedInv
  <2>4. Balance(Transfer.mint)' = custody[k]
    BY <1>13, <2>1 DEF Balance, k
  <2>5. Balance(x.mint) = books.custody[k]
    BY DEF Balance, k
  <2>6. custody[k] = books.custody[k] + in /\ books.custody[k] \in Int
    BY <1>2, <1>5, <1>14
  <2>7. Frame'.expected = Frame.expected
    BY <1>6, <1>20
  <2> QED BY <1>5, <1>12, <2>2, <2>3, <2>4, <2>5, <2>6, <2>7
<1> QED BY <1>20, <1>21 DEF IInv

LEMMA FinishKeeps ==
    ASSUME IInv, Finish
    PROVE  IInv'
<1> DEFINE x     == Transfer
           rest  == Tail(Frame.transfers)
           zero  == 0
           frame == [Frame EXCEPT !.phase = "ready", !.expected = zero, !.transfers = rest]
<1>1. /\ Running /\ Frame.transfers # <<>> /\ Step(frame)
      /\ \/ Frame.phase = "ready" /\ x.amount = 0
         \/ Frame.phase = "moved" /\ Balance(x.mint) = Frame.expected
      /\ books' = books /\ committed' = committed
  <2>1. Step([Frame EXCEPT !.phase = "ready", !.expected = 0, !.transfers = Tail(@)])
    BY DEF Finish
  <2>2. Step(frame)
    BY <2>1
  <2> HIDE DEF frame
  <2> QED BY <2>2 DEF Finish, BalanceAsExpected
<1>2. /\ Frame \in Frames /\ Wellformed(Frame)
      /\ Frame.transfers \in Seq(Transfers) /\ Len(Frame.transfers) <= 4
      /\ x \in Transfers /\ rest \in Seq(Transfers)
      /\ \A t : Due(Frame.transfers, t) = Brings(x, t) + Due(rest, t) /\ Due(rest, t) \in Int
      /\ books.custody \in [Tokens -> Int] /\ books \in Books
  BY <1>1, RunningFrame
<1>3. x.amount \in Nat /\ x.type \in {"Deposit", "Withdrawal"} /\ Balance(x.mint) \in Int
  BY <1>2, TokenType DEF Transfers, Balance
<1>4. /\ frame \in Frames /\ frame.transfers = rest /\ frame.phase = "ready"
      /\ frame.value = Frame.value
  <2>1. zero \in Int /\ rest \in Seq(Transfers)
    BY <1>2
  <2> HIDE DEF zero, rest
  <2> QED BY <1>2, <2>1 DEF Frames
<1>5. /\ Len(rest) <= 4 /\ \A i \in 1..Len(rest) : rest[i].type = "Withdrawal"
      /\ rest # <<>> => Head(rest).type = "Withdrawal"
  <2> DEFINE list == Frame.transfers
  <2>1. list \in Seq(Transfers) /\ list # <<>> /\ Len(list) <= 4 /\ Len(list) \in Nat
    BY <1>1, <1>2
  <2>2. \A i \in 2..Len(list) : list[i].type = "Withdrawal"
    BY <1>2 DEF Wellformed
  <2>3. rest = Tail(list)
    OBVIOUS
  <2> HIDE DEF list, rest
  <2>4. Len(rest) = Len(list) - 1 /\ \A i \in 1..Len(rest) : rest[i] = list[i + 1]
    BY <2>1, <2>3
  <2>5. ASSUME NEW i \in 1..Len(rest) PROVE rest[i].type = "Withdrawal"
    <3>1. i + 1 \in 2..Len(list)
      BY <2>1, <2>4
    <3> QED BY <2>2, <2>4, <3>1
  <2>6. rest # <<>> => 1 \in 1..Len(rest) /\ Head(rest) = rest[1]
    BY <1>2
  <2> QED BY <2>1, <2>4, <2>5, <2>6
<1> HIDE DEF frame, rest
<1>6. Wellformed(frame)
  <2>1. \A i \in 2..Len(rest) : rest[i].type = "Withdrawal"
    <3>1. Len(rest) \in Nat
      BY <1>2
    <3> QED BY <1>5, <3>1
  <2> QED BY <1>4, <1>5, <2>1 DEF Wellformed
<1>7. Unwrapped(frame) = 0
  BY <1>4, <1>5 DEF Unwrapped
<1>8. ASSUME NEW t
      PROVE  Lacks(frame, t) = Due(rest, t) /\ Lacks(Frame, t) = Due(rest, t)
             /\ Unwrapped(Frame) = 0
  <2>1. Lacks(frame, t) = Due(rest, t)
    BY <1>4 DEF Lacks
  <2>2. CASE Frame.phase = "ready" /\ x.amount = 0
    <3>1. Lacks(Frame, t) = Brings(x, t) + Due(rest, t)
      BY <1>2, <2>2 DEF Lacks
    <3>2. Brings(x, t) = 0
      BY <2>2 DEF Brings
    <3>3. x.type # "Deposit"
      BY <1>1, <1>2, <2>2 DEF Wellformed, Transfer
    <3>4. Unwrapped(Frame) = 0
      BY <3>3 DEF Unwrapped, Transfer
    <3> QED BY <1>2, <2>1, <3>1, <3>2, <3>4
  <2>3. CASE Frame.phase = "moved" /\ Balance(x.mint) = Frame.expected
    <3>1. Lacks(Frame, t) = Due(rest, t) + Short(x, t)
      BY <1>1, <2>3 DEF Lacks, Transfer, rest
    <3>2. Short(x, t) = 0
      <4>1. ~(x.type = "Deposit" /\ x.mint \in SkimTokens)
        BY <1>1, <1>3, <2>3 DEF IInv, ExpectedInv
      <4> QED BY <4>1 DEF Short
    <3>3. Unwrapped(Frame) = 0
      BY <2>3 DEF Unwrapped
    <3> QED BY <1>2, <2>1, <3>1, <3>2, <3>3
  <2> QED BY <1>1, <2>2, <2>3
<1>9. \A t \in Tokens : /\ books'.owed[t] = books.owed[t]
                        /\ books'.custody[t] + Lacks(frame, t) = books.custody[t] + Lacks(Frame, t)
  BY <1>1, <1>8
<1>10. books'.eth + Unwrapped(Frame) = books.eth + Unwrapped(frame)
  BY <1>1, <1>7, <1>8
<1>11. TypeInv' /\ StackInv' /\ BooksInv' /\ Frame' = frame
  BY <1>1, <1>2, <1>4, <1>6, <1>9, <1>10, StepKeeps
<1>12. ExpectedInv'
  BY <1>4, <1>11 DEF ExpectedInv
<1> QED BY <1>11, <1>12 DEF IInv

LEMMA ReturnKeeps ==
    ASSUME IInv, Return
    PROVE  IInv'
<1> DEFINE rest == Tail(calls)
<1>1. /\ Running /\ Frame.transfers = <<>> /\ calls' = rest /\ books' = books
      /\ committed' = IF calls' = <<>> THEN books ELSE committed
  BY DEF Return
<1>2. /\ calls \in Seq(Frames) /\ books \in Books /\ committed \in Books
      /\ Balanced(books, calls) /\ calls # <<>>
  BY <1>1 DEF IInv, TypeInv, BooksInv, Balanced, Running
<1>3. Frame \in Frames /\ rest \in Seq(Frames) /\ Wellformed(Frame)
  BY <1>1, <1>2, RunningFrame, StackTop
<1>4. /\ Len(calls) \in Nat /\ Len(rest) = Len(calls) - 1
      /\ \A i \in 1..Len(rest) : rest[i] = calls[i + 1]
      /\ rest # <<>> => 1 \in 1..Len(rest) /\ Head(rest) = rest[1]
  BY <1>2
<1> HIDE DEF rest
<1>5. TypeInv'
  BY <1>1, <1>2, <1>3 DEF TypeInv
<1>6. StackInv' /\ (rest # <<>> => HandsOver(Head(rest)))
  <2>1. ASSUME NEW i \in 1..Len(rest) PROVE Wellformed(rest[i]) /\ HandsOver(rest[i])
    <3>1. i + 1 \in 1..Len(calls) /\ i + 1 \in 2..Len(calls)
      BY <1>4
    <3> QED BY <1>4, <3>1 DEF IInv, StackInv
  <2>2. \A i \in 2..Len(rest) : i \in 1..Len(rest)
    BY <1>4
  <2> QED BY <1>1, <1>4, <2>1, <2>2 DEF StackInv
<1>7. ExpectedInv'
  <2>1. ASSUME rest # <<>>, Head(rest).phase \in {"begun", "moved"}
        PROVE  Head(Head(rest).transfers).mint \notin SkimTokens
    BY <1>6, <2>1, TransferAssumption DEF HandsOver
  <2> QED BY <1>1, <2>1 DEF ExpectedInv, Running, Frame, Transfer
<1>8. \A t : Lacks(Frame, t) = 0 /\ Unwrapped(Frame) = 0
  BY <1>1 DEF Lacks, Unwrapped, Due
<1>9. ASSUME NEW g \in [Frames -> Int], g[Frame] = 0
      PROVE  StackTotal(rest, g) = StackTotal(calls, g)
  <2>1. StackTotal(calls, g) = StackTotal(rest, g) + g[Frame] /\ StackTotal(rest, g) \in Int
    BY <1>2, <1>3, StackTop, StackInt DEF Frame, rest
  <2> QED BY <1>9, <2>1
<1>10. Balanced(books, rest)
  BY <1>2, <1>3, <1>8, <1>9, FrameSums DEF Balanced
<1>11. rest = <<>> => books.custody = books.owed /\ books.eth = 0
  <2>1. SUFFICES ASSUME rest = <<>> PROVE books.custody = books.owed /\ books.eth = 0
    OBVIOUS
  <2>2. ASSUME NEW t \in Tokens PROVE books.owed[t] = books.custody[t]
    BY <1>2, <1>10, <2>1, StackEmpty DEF Balanced, Books
  <2>3. books.owed \in [Tokens -> Int] /\ books.custody \in [Tokens -> Int]
    BY <1>2 DEF Books
  <2>4. books.eth = 0
    BY <1>10, <2>1, StackEmpty DEF Balanced
  <2> QED BY <2>2, <2>3, <2>4
<1>12. BooksInv'
  BY <1>1, <1>10, <1>11 DEF BooksInv, Balanced, IInv
<1> QED BY <1>5, <1>6, <1>7, <1>12 DEF IInv

LEMMA AtRest ==
    ASSUME TypeInv, calls = <<>>, books.custody = books.owed, books.eth = 0, committed = books
    PROVE  IInv
<1>1. StackInv /\ ExpectedInv
  BY DEF StackInv, ExpectedInv, Running
<1>2. \A t \in Tokens : books.owed[t] = books.custody[t] + StackTotal(calls, LackingOf(t))
  BY StackEmpty DEF TypeInv, Books
<1>3. books.eth = StackTotal(calls, UnwrappedOf)
  BY StackEmpty
<1> QED BY <1>1, <1>2, <1>3 DEF IInv, BooksInv

LEMMA InitEstablishes ==
    ASSUME Init
    PROVE  IInv
<1>1. TypeInv
  BY DEF Init, TypeInv, Books
<1> QED BY <1>1, AtRest DEF Init

LEMMA NextKeeps ==
    ASSUME IInv, [Next]_vars
    PROVE  IInv'
<1>1. CASE Settle
  BY <1>1, SettleKeeps
<1>2. CASE Update
  BY <1>2, UpdateKeeps
<1>3. CASE Begin
  BY <1>3, BeginKeeps
<1>4. CASE Move
  BY <1>4, MoveKeeps
<1>5. CASE Finish
  BY <1>5, FinishKeeps
<1>6. CASE Return
  BY <1>6, ReturnKeeps
<1>7. CASE Revert
  <2>1. books' = committed /\ committed' = committed /\ calls' = <<>>
    BY <1>7 DEF Revert
  <2>2. TypeInv /\ committed.custody = committed.owed /\ committed.eth = 0
    BY DEF IInv, BooksInv
  <2>3. TypeInv'
    BY <2>1, <2>2 DEF TypeInv
  <2>4. StackInv' /\ ExpectedInv'
    BY <2>1 DEF StackInv, ExpectedInv, Running
  <2>5. \A t \in Tokens : books'.owed[t] = books'.custody[t] + StackTotal(calls', LackingOf(t))
    BY <2>1, <2>2, StackEmpty DEF TypeInv, Books
  <2>6. books'.eth = StackTotal(calls', UnwrappedOf)
    BY <2>1, <2>2, StackEmpty
  <2> QED BY <2>1, <2>2, <2>3, <2>4, <2>5, <2>6 DEF IInv, BooksInv
<1>8. CASE UNCHANGED vars
  BY <1>8 DEF vars, IInv, TypeInv, StackInv, ExpectedInv, BooksInv, Running, Frame, Transfer, Balance
<1> QED BY <1>1, <1>2, <1>3, <1>4, <1>5, <1>6, <1>7, <1>8 DEF Next

LEMMA AlwaysIInv == Spec => []IInv
<1>1. Init => IInv
  BY InitEstablishes
<1>2. IInv /\ [Next]_vars => IInv'
  BY NextKeeps
<1> QED BY <1>1, <1>2, PTL DEF Spec

-----------------------------------------------------------------------------
(* However deep the calls into the contract nest, whatever the tokens keep  *)
(* for themselves and whichever calls fail, a transaction that goes through *)
(* leaves the contract with exactly what it owes.                           *)
THEOREM BooksCloseAtRest == Spec => []ExactAtRest
<1>1. IInv => ExactAtRest
  <2>1. SUFFICES ASSUME IInv, calls = <<>> PROVE books.custody = books.owed /\ books.eth = 0
    BY DEF ExactAtRest, Running
  <2>2. books.owed \in [Tokens -> Int] /\ books.custody \in [Tokens -> Int]
    BY <2>1 DEF IInv, TypeInv, Books
  <2>3. ASSUME NEW t \in Tokens PROVE books.owed[t] = books.custody[t]
    <3>1. books.owed[t] = books.custody[t] + StackTotal(<<>>, LackingOf(t))
      BY <2>1 DEF IInv, BooksInv
    <3>2. books.custody[t] \in Int
      BY <2>2
    <3> QED BY <3>1, <3>2, StackEmpty
  <2>4. books.eth = 0
    BY <2>1, StackEmpty DEF IInv, BooksInv
  <2> QED BY <2>2, <2>3, <2>4
<1> QED BY <1>1, AlwaysIInv, PTL

(* In every callback, what the contract holds of a token covers what it     *)
(* owes of it, unless a deposit of that token is still to come in.          *)
THEOREM CallbacksAreCovered == Spec => []CoveredInCallbacks
<1>1. IInv => CoveredInCallbacks
  <2>1. SUFFICES ASSUME IInv, NEW t \in Tokens, PendingDeposits(t) = {}
                 PROVE  books.owed[t] <= books.custody[t]
    BY DEF CoveredInCallbacks
  <2>2. calls \in Seq(Frames) /\ books.custody[t] \in Int
    BY <2>1 DEF IInv, TypeInv, Books
  <2>3. ASSUME NEW i \in 1..Len(calls) PROVE LackingOf(t)[calls[i]] <= 0
    <3> DEFINE frame == calls[i]
               list  == frame.transfers
               n     == Len(list)
    <3>1. frame \in Frames /\ Wellformed(frame)
      BY <2>1, <2>2 DEF IInv, StackInv
    <3>2. list \in Seq(Transfers) /\ n \in Nat
      BY <3>1 DEF Frames
    <3>3. ~ (list # <<>> /\ Head(list).type = "Deposit" /\ Token(Head(list).mint) = t)
      BY <2>1, <2>2 DEF PendingDeposits
    <3>4. n <= 4 /\ \A j \in 2..n : list[j].type = "Withdrawal"
      BY <3>1 DEF Wellformed
    <3>5. LackingOf(t)[frame] = Lacks(frame, t)
      BY <3>1, FrameSums
    <3> HIDE DEF list, n
    <3>6. ASSUME NEW j \in 1..n PROVE Brings(list[j], t) \in Int /\ Brings(list[j], t) <= 0
      <4>1. list[j] \in Transfers
        BY <3>2 DEF n
      <4>2. list[j].type = "Deposit" => Token(list[j].mint) # t
        <5>1. CASE j = 1
          BY <3>2, <3>3, <5>1 DEF n
        <5>2. CASE j # 1
          BY <3>2, <3>4, <5>2
        <5> QED BY <5>1, <5>2
      <4>3. list[j].amount \in Nat
        BY <4>1 DEF Transfers
      <4> QED BY <4>2, <4>3 DEF Brings
    <3>7. Due(list, t) <= 0
      BY <3>2, <3>6 DEF Due, n
    <3>8. list # <<>> => Due(Tail(list), t) <= 0
      <4> DEFINE rest == Tail(list)
      <4>1. SUFFICES ASSUME list # <<>> PROVE Due(rest, t) <= 0
        OBVIOUS
      <4>2. Len(rest) = n - 1 /\ \A j \in 1..(n - 1) : rest[j] = list[j + 1]
        BY <3>2, <4>1 DEF n
      <4> HIDE DEF rest
      <4>3. ASSUME NEW j \in 1..(n - 1) PROVE Brings(rest[j], t) \in Int /\ Brings(rest[j], t) <= 0
        <5>1. j + 1 \in 1..n
          BY <3>2
        <5> QED BY <3>6, <4>2, <5>1
      <4> QED BY <3>2, <4>2, <4>3 DEF Due
    <3>9. list # <<>> => Short(Head(list), t) = 0
      BY <3>3 DEF Short
    <3>10. list # <<>> => Due(Tail(list), t) \in Int
      <4>1. SUFFICES ASSUME list # <<>> PROVE Due(Tail(list), t) \in Int
        OBVIOUS
      <4>2. Tail(list) \in Seq(Transfers)
        BY <3>2, <4>1
      <4> QED BY <4>2, DueOfRest
    <3>11. Lacks(frame, t) <= 0
      BY <3>7, <3>8, <3>9, <3>10 DEF Lacks, list
    <3> QED BY <3>5, <3>11 DEF frame
  <2>4. LackingOf(t) \in [Frames -> Int]
    BY FrameSums
  <2>5. StackTotal(calls, LackingOf(t)) \in Int /\ StackTotal(calls, LackingOf(t)) <= 0
    BY <2>2, <2>3, <2>4, StackInt
  <2>6. books.owed[t] = books.custody[t] + StackTotal(calls, LackingOf(t))
    BY <2>1 DEF IInv, BooksInv
  <2> QED BY <2>2, <2>5, <2>6
<1> QED BY <1>1, AlwaysIInv, PTL
=============================================================================
