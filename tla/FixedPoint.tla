----------------------------- MODULE FixedPoint -----------------------------
(* Prices and rates as integers over a power of two, with truncation.       *)
EXTENDS Integers

CONSTANT Precision      \* 2^63 in the code

ASSUME PrecisionAssumption == Precision \in Nat \ {0}

unsafeFixedPointMul(x, scalar) == (x * scalar) \div Precision

\* A slip: the quotient is rounded up.
divIntegerRoundedUp(x, y) == (x * Precision + y - 1) \div y

divIntegerByFixedPoint(x, y) == (x * Precision) \div y
=============================================================================
