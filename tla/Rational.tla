------------------------------ MODULE Rational ------------------------------
(***************************************************************************)
(* Exact fractions in lowest terms, for the amounts of money that the code   *)
(* keeps in doubles.  Rounding is not modelled.                             *)
(***************************************************************************)
EXTENDS Integers, FiniteSetsExt

Abs(n) == IF n < 0 THEN -n ELSE n

Fraction == [num : Int, den : Nat \ {0}]

\* num / den with the smallest denominator
Frac(num, den) ==
  LET least == Min({d \in 1..den : (num * d) % den = 0})
  IN  [num |-> (num * least) \div den, den |-> least]

Whole(n) == [num |-> n, den |-> 1]

Plus(a, b) == Frac(a.num * b.den + b.num * a.den, a.den * b.den)
Minus(a, b) == Frac(a.num * b.den - b.num * a.den, a.den * b.den)
Scaled(a, n) == Frac(a.num * n, a.den)
Over(a, n) == Frac(a.num, a.den * n)
AtMost(a, b) == a.num * b.den <= b.num * a.den
=============================================================================
