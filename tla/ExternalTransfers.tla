-------------------------- MODULE ExternalTransfers --------------------------
(***************************************************************************)
(* The token transfers of one transaction, step by step.  Module Darkpool   *)
(* takes a handler as one step; here the batch of an atomic match and the   *)
(* single transfer of a wallet update run one move at a time, and whoever   *)
(* is handed control by a move (the payee of native currency, both sides of *)
(* a token with hooks) may call the contract again before it returns.       *)
(*                                                                          *)
(* Only the sum of what wallets and notes entitle to is kept of the tree.   *)
(***************************************************************************)
EXTENDS Integers, Sequences

CONSTANTS
    Tokens, NATIVE, WETH,   \* mints, the native-token address and its wrapper
    SkimTokens,     \* mints whose transfers deliver less than was sent
    HookTokens,     \* mints that call the sender before and the payee after
    Amounts,        \* amounts traded and transferred
    Fees,           \* fees on the external party
    MaxDepth,       \* bound: calls nested in one transaction
    MaxOwed         \* bound: what wallets are credited with of one mint

ASSUME TransferAssumption ==
    /\ WETH \in Tokens /\ NATIVE \notin Tokens
    /\ SkimTokens \cup HookTokens \subseteq Tokens \ {WETH}
    /\ SkimTokens \cap HookTokens = {}
    /\ Amounts \subseteq Nat \ {0} /\ Fees \subseteq Nat

Deposit(mint, amount)    == [mint |-> mint, amount |-> amount, type |-> "Deposit"]
Withdrawal(mint, amount) == [mint |-> mint, amount |-> amount, type |-> "Withdrawal"]

VARIABLES
    books,      \* [custody, eth, owed]: balances of the contract, and what
                \* unspent wallets and notes entitle to, per mint
    committed,  \* books before the current transaction
    calls       \* stack of frames, the running one first:
                \* [transfers, phase, expected, value]
vars == <<books, committed, calls>>

-----------------------------------------------------------------------------
Token(mint) == IF mint = NATIVE THEN WETH ELSE mint

(* getDarkpoolBalanceMaybeNative *)
Balance(mint) == books.custody[Token(mint)]

Init ==
    /\ books = [custody |-> [t \in Tokens |-> 0], eth |-> 0, owed |-> [t \in Tokens |-> 0]]
    /\ committed = books
    /\ calls = <<>>

Running == calls # <<>>
Frame == Head(calls)
Transfer == Head(Frame.transfers)

(* The code outside that a frame's transfer is about to call, or has.       *)
HandsOver(frame) ==
    LET t == Head(frame.transfers) IN
    \/ frame.phase = "begun" /\ t.mint \in HookTokens
    \/ frame.phase = "moved" /\ t.mint \in HookTokens
    \/ frame.phase = "moved" /\ t.mint = NATIVE /\ t.type = "Withdrawal"

MayCall == Running => HandsOver(Frame) /\ Len(calls) < MaxDepth

Call(transfers, value) ==
    calls' = <<[transfers |-> transfers, phase |-> "ready", expected |-> 0,
                value |-> value]>> \o calls

(* A change of what is owed; wallets cannot give what they do not have.     *)
Credit(owed, mint, amount) == [owed EXCEPT ![Token(mint)] = @ + amount]
Affordable(owed) == \A t \in Tokens : owed[t] \in 0..MaxOwed

-----------------------------------------------------------------------------
\* A slip: the fees are paid on top of the buy amount.
buildAtomicMatchTransfersGross(sell, buy, fee) ==
    <<Deposit(sell.mint, sell.amount), Withdrawal(buy.mint, buy.amount),
      Withdrawal(buy.mint, fee.relayer), Withdrawal(buy.mint, fee.protocol)>>

(* buildAtomicMatchTransfers *)
buildAtomicMatchTransfers(sell, buy, fee) ==
    <<Deposit(sell.mint, sell.amount),
      Withdrawal(buy.mint, buy.amount - (fee.relayer + fee.protocol)),
      Withdrawal(buy.mint, fee.relayer),
      Withdrawal(buy.mint, fee.protocol)>>

(* An atomic match: the wallet is rotated before the transfers are made.    *)
SettleAtomicMatch(sell, buy, fee, value) ==
    LET owed == Credit(Credit(books.owed, sell.mint, sell.amount), buy.mint, -buy.amount)
    IN  /\ MayCall
        /\ sell.mint = NATIVE \/ value = 0
        /\ fee.relayer + fee.protocol <= buy.amount
        /\ Affordable(owed)
        /\ books' = [books EXCEPT !.owed = owed, !.eth = @ + value]
        /\ Call(buildAtomicMatchTransfers(sell, buy, fee), value)
        /\ UNCHANGED committed

(* A wallet update with its external transfer, likewise.                    *)
UpdateWallet(transfer) ==
    LET owed == Credit(books.owed, transfer.mint,
                       IF transfer.type = "Deposit" THEN transfer.amount ELSE -transfer.amount)
    IN  /\ MayCall
        /\ Affordable(owed)
        /\ books' = [books EXCEPT !.owed = owed]
        /\ Call(<<transfer>>, 0)
        /\ UNCHANGED committed

Step(frame) == calls' = <<frame>> \o Tail(calls)

(* The balance is read, and what it has to be after the move.               *)
Begin ==
    /\ Running
    /\ Frame.transfers # <<>> /\ Frame.phase = "ready" /\ Transfer.amount > 0
    /\ Step([Frame EXCEPT !.phase = "begun",
                !.expected = Balance(Transfer.mint)
                             + IF Transfer.type = "Deposit" THEN Transfer.amount
                               ELSE -Transfer.amount])
    /\ UNCHANGED <<books, committed>>

Delivered(mint, amount) == IF mint \in SkimTokens THEN amount - 1 ELSE amount

(* The move itself: native currency is wrapped out of the value of the call *)
(* when it comes in, and unwrapped when it goes out.                        *)
Move ==
    LET t == Transfer
        in == IF t.type = "Deposit" THEN Delivered(t.mint, t.amount) ELSE -t.amount
    IN  /\ Running
        /\ Frame.phase = "begun"
        /\ t.type = "Withdrawal" => t.amount <= Balance(t.mint)
        /\ t.type = "Deposit" /\ t.mint = NATIVE => Frame.value = t.amount
        /\ books' = [books EXCEPT
                !.custody[Token(t.mint)] = @ + in,
                !.eth = IF t.mint = NATIVE /\ t.type = "Deposit" THEN @ - t.amount ELSE @]
        /\ Step([Frame EXCEPT !.phase = "moved"])
        /\ UNCHANGED committed

\* A slip: the balance after the move is not looked at.
BalanceUnchecked(mint, expected) == TRUE

BalanceAsExpected(mint, expected) == Balance(mint) = expected

(* The balance is compared to the expected one, and the batch goes on; a    *)
(* transfer of nothing is passed over.                                      *)
Finish ==
    /\ Running
    /\ Frame.transfers # <<>>
    /\ \/ Frame.phase = "ready" /\ Transfer.amount = 0
       \/ Frame.phase = "moved" /\ BalanceAsExpected(Transfer.mint, Frame.expected)
    /\ Step([Frame EXCEPT !.phase = "ready", !.expected = 0, !.transfers = Tail(@)])
    /\ UNCHANGED <<books, committed>>

(* The handler returns to whoever called it.                                *)
Return ==
    /\ Running
    /\ Frame.transfers = <<>>
    /\ calls' = Tail(calls)
    /\ committed' = IF calls' = <<>> THEN books ELSE committed
    /\ UNCHANGED books

(* A failed check, an outside contract that reverts, or too little gas: the *)
(* transaction leaves nothing.  A call whose caller survives its failure is *)
(* as if it had not been made.                                              *)
Revert ==
    /\ Running
    /\ books' = committed
    /\ calls' = <<>>
    /\ UNCHANGED committed

Settle ==
    \E sellMint, buyMint \in Tokens \cup {NATIVE}, sold, bought \in Amounts :
    \E relayer, protocol \in Fees, value \in Amounts \cup {0} :
        /\ Token(sellMint) # Token(buyMint)
        /\ SettleAtomicMatch([mint |-> sellMint, amount |-> sold],
                             [mint |-> buyMint, amount |-> bought],
                             [relayer |-> relayer, protocol |-> protocol], value)

Update ==
    \E t \in Tokens, a \in Amounts, type \in {"Deposit", "Withdrawal"} :
        UpdateWallet([mint |-> t, amount |-> a, type |-> type])

Next == Settle \/ Update \/ Begin \/ Move \/ Finish \/ Return \/ Revert

Spec == Init /\ [][Next]_vars

-----------------------------------------------------------------------------
(* However calls nest, a transaction that goes through leaves the contract  *)
(* with exactly what its wallets and notes entitle to, of every mint: a     *)
(* call made from inside a transfer is neither counted for the outer one's  *)
(* deposit nor covers for a token that delivered less; and the value of     *)
(* each call has been wrapped.  So module Darkpool may take a handler as    *)
(* one step.                                                                *)
ExactAtRest == ~Running => books.custody = books.owed /\ books.eth = 0

(* While outside code runs in the middle of a transfer, what the contract   *)
(* still holds covers everything that is owed except the deposits that have *)
(* not come in yet: nothing is ever paid out ahead of its backing.          *)
PendingDeposits(t) ==
    {i \in DOMAIN calls :
        LET frame == calls[i] IN
        /\ frame.transfers # <<>>
        /\ Head(frame.transfers).type = "Deposit"
        /\ Token(Head(frame.transfers).mint) = t }

CoveredInCallbacks ==
    \A t \in Tokens : PendingDeposits(t) = {} => books.owed[t] <= books.custody[t]
=============================================================================
