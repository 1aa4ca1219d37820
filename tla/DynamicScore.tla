----------------------------- MODULE DynamicScore -----------------------------
(***************************************************************************)
(* The dynamic score of a challenge (ranking/scoring.py), in the decimal   *)
(* floating-point arithmetic of the code: initial and minimum score are    *)
(* DecimalFields, so every quotient, product and difference is rounded to  *)
(* a number of significant digits.                                         *)
(***************************************************************************)
EXTENDS Integers, FiniteSetsExt

CONSTANT Digits   \* the precision of the decimal context (28 in Python)

ASSUME DigitsAssumption == Digits \in Nat \ {0}

\* The powers of ten, as a function, so that they can be proved about.
TenTo ==
  LET power[k \in 0..(Digits + 1)] == IF k = 0 THEN 1 ELSE 10 * power[k - 1]
  IN  power

\* A non-negative number is a fraction num / den.  A rounded one has a power
\* of ten as its den; a larger scale than Digits + 1 is not needed here.
Nearest(num, den) ==
  LET floor == num \div den
      twice == 2 * (num % den)
  IN  IF twice > den \/ (twice = den /\ floor % 2 = 1) THEN floor + 1 ELSE floor

Rounded(num, den) ==
  LET scale == Max({s \in 0..(Digits + 1) : 10 * num < den * TenTo[Digits + 1 - s]})
  IN  [num |-> Nearest(num * TenTo[scale], den), den |-> TenTo[scale]]

Ceiling(x) == (x.num + x.den - 1) \div x.den

\* calculate_dynamic_score: a parabola that falls from the initial score and
\* stays at the minimum from decay solvers on.
calculate_dynamic_score(g, count) ==
  LET quotient == Rounded(g.initial - g.minimum, g.decay * g.decay)
      drop     == Rounded(quotient.num * count * count, quotient.den)
      value    == Rounded(g.initial * drop.den - drop.num, drop.den)
  IN  IF drop.num >= (g.initial - g.minimum) * drop.den
      THEN g.minimum
      ELSE Min({g.initial, Max({g.minimum, Ceiling(value)})})

\* The same without rounding: ceil(initial - x) is initial - floor(x).
ExactScore(g, count) ==
  Max({g.minimum, g.initial - ((g.initial - g.minimum) * count * count) \div (g.decay * g.decay)})
=============================================================================
