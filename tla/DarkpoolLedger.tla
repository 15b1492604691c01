--------------------------- MODULE DarkpoolLedger ---------------------------
(***************************************************************************)
(* What the darkpool promises, with no Merkle tree, nullifier, blinder or   *)
(* proof in sight: a ledger of elements worth something, each of which is   *)
(* spent at most once.  A step spends up to two elements and issues up to   *)
(* two, and the tokens in custody move by exactly the difference of their   *)
(* worth.                                                                   *)
(***************************************************************************)
EXTENDS Integers

CONSTANTS Tokens, Element, Nil,
          Value(_, _)       \* Value(e, t): what element e is worth in mint t

VARIABLES created, spent, custody

vars == <<created, spent, custody>>

Worth(e, t) == IF e = Nil THEN 0 ELSE Value(e, t)

Init ==
    /\ created = {} /\ spent = {}
    /\ custody = [t \in Tokens |-> 0]

(* Spend e and f, issue m and n; Nil stands for none.  What is spent was    *)
(* issued before or by the step itself: two matched wallets may be one      *)
(* wallet and its successor.                                                *)
Transact(e, f, m, n) ==
    LET Spending == {e, f} \ {Nil}
    IN  /\ e = f => e = Nil
        /\ Spending \cap spent = {}
        /\ created' = created \cup ({m, n} \ {Nil})
        /\ Spending \subseteq created'
        /\ spent' = spent \cup Spending
        /\ \A t \in Tokens :
             custody'[t] - custody[t]
               = Worth(m, t) + Worth(n, t) - Worth(e, t) - Worth(f, t)

Next == \E e, f, m, n \in created' \cup {Nil} : Transact(e, f, m, n)

Spec == Init /\ [][Next]_vars
=============================================================================
