------------------------------ MODULE Rationals ------------------------------
(***************************************************************************)
(* Exact fractions, standing for the program's 64-bit floats where what a  *)
(* statistic is matters and how it is rounded does not.  NaN is the        *)
(* fraction 0/0, and spreads; a fraction over 0 is NaN, not an infinity.   *)
(***************************************************************************)
EXTENDS Integers, FiniteSets, FiniteSetsExt

NaN == <<0, 0>>
IsNaN(x) == x = NaN

LOCAL Magnitude(n) == IF n < 0 THEN -n ELSE n
LOCAL Divides(d, n) == n % d = 0
LOCAL Gcd(m, n) == Max({d \in 1..n : Divides(d, m) /\ Divides(d, n)})

LOCAL Reduced(n, d, g) == <<n \div g, d \div g>>

\* n/d in lowest terms, over a positive denominator.
Frac(n, d) ==
  IF d = 0 THEN NaN
  ELSE Reduced(IF d < 0 THEN -n ELSE n, Magnitude(d), Gcd(Magnitude(n), Magnitude(d)))

Whole(n) == <<n, 1>>
Zero == Whole(0)
One == Whole(1)

Plus(x, y)  == IF IsNaN(x) \/ IsNaN(y) THEN NaN ELSE Frac(x[1] * y[2] + y[1] * x[2], x[2] * y[2])
Times(x, y) == IF IsNaN(x) \/ IsNaN(y) THEN NaN ELSE Frac(x[1] * y[1], x[2] * y[2])
Minus(x, y) == IF IsNaN(y) THEN NaN ELSE Plus(x, <<-y[1], y[2]>>)
Over(x, y)  == IF IsNaN(x) \/ IsNaN(y) THEN NaN ELSE Frac(x[1] * y[2], x[2] * y[1])
Less(x, y)  == x[1] * y[2] < y[1] * x[2]
AtMost(x, y) == ~Less(y, x)

Least(S)    == CHOOSE x \in S : \A y \in S : AtMost(x, y)
Greatest(S) == CHOOSE x \in S : \A y \in S : AtMost(y, x)

\* The sum of f over S.
Total(f(_), S) == FoldSet(LAMBDA x, acc : Plus(f(x), acc), Zero, S)
=============================================================================
