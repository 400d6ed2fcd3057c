------------------------------- MODULE Money -------------------------------
(* Amounts are whole dollars; a percentage or a ratio is a whole number of   *)
(* some fraction.  What rounds in the code rounds here.                      *)
EXTENDS Integers

CONSTANT Whole  \* what a percentage of 1 is written as: prices are pct * nav / Whole

ASSUME MoneyAssumption == Whole \in Nat \ {0}

\* The nearest whole number to n / m, a half away from zero (n is not negative).
Nearest(n, m) == (2 * n + m) \div (2 * m)

\* roundDollar (Decimal price * nav), which Issuance.daml and Clearing.daml each define.
RoundDollar(pct, nav) == Nearest(pct * nav, Whole)
=============================================================================
