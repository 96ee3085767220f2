----------------------------- MODULE Fractions -----------------------------
(***************************************************************************)
(* Exact fractions <<numerator, denominator>>, reduced, where the code has *)
(* floats.                                                                 *)
(***************************************************************************)
EXTENDS Integers, FiniteSetsExt, Functions

Pair == Int \X Int

\* Greatest common divisor of two naturals, by Euclid's algorithm.
Divisor[p \in Nat \X Nat] ==
  IF p[2] = 0 THEN p[1] ELSE Divisor[<<p[2], p[1] % p[2]>>]

\* x in lowest terms.
Reduced[x \in Pair] ==
  LET k == Divisor[<<IF x[1] < 0 THEN -x[1] ELSE x[1], x[2]>>]
  IN  <<x[1] \div k, x[2] \div k>>

Added[p \in Pair \X Pair] ==
  LET x == p[1]  y == p[2]
  IN  Reduced[<<x[1] * y[2] + y[1] * x[2], x[2] * y[2]>>]

Multiplied[p \in Pair \X Pair] ==
  LET x == p[1]  y == p[2]
  IN  Reduced[<<x[1] * y[1], x[2] * y[2]>>]

\* Fractions that are not negative.
Amount == Nat \X (Nat \ {0})

Zero == <<0, 1>>

One == <<1, 1>>

Whole(n) == <<n, 1>>

Negative(x) == <<-x[1], x[2]>>

Plus(x, y) == Added[<<x, y>>]

Minus(x, y) == Added[<<x, Negative(y)>>]

Times(x, y) == Multiplied[<<x, y>>]

\* y is positive
Over(x, y) == Multiplied[<<x, <<y[2], y[1]>>>>]

Less(x, y) == Minus(x, y)[1] < 0

Abs(x) == IF x[1] < 0 THEN Negative(x) ELSE x

\* int(x)
Truncated(x) == IF x[1] < 0 THEN -((-x[1]) \div x[2]) ELSE x[1] \div x[2]

\* Sum of the values of function f.
Total(f) == FoldFunction(Plus, Zero, f)

=============================================================================
