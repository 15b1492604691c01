--------------------------- MODULE RunningTotals ---------------------------
(* Sums over the positions of a sequence, written as a recursive function.  *)
EXTENDS Integers

(* The sum of f over 1..n.                                                  *)
RunningTotal(f, n) ==
    LET upTo[i \in 0..n] == IF i = 0 THEN 0 ELSE upTo[i-1] + f[i] IN upTo[n]
=============================================================================
