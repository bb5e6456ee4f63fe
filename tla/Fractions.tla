------------------------------ MODULE Fractions ------------------------------
(***************************************************************************)
(* Exact rational numbers in lowest terms, in place of the floats of the   *)
(* Python half: a fraction is [n |-> numerator, d |-> denominator], d > 0. *)
(* The operations are functions so that TLC evaluates their arguments once.*)
(***************************************************************************)
EXTENDS Integers

Quotients == [n : Int, d : Nat \ {0}]
Pairs == Quotients \X Quotients

Magnitude(i) == IF i < 0 THEN -i ELSE i

\* The greatest common divisor of a pair.
gcd[p \in Nat \X Nat] == IF p[2] = 0 THEN p[1] ELSE gcd[<<p[2], p[1] % p[2]>>]

lowest[q \in Quotients] ==
  LET g == gcd[<<Magnitude(q.n), q.d>>] IN [n |-> q.n \div g, d |-> q.d \div g]

Fractions == {q \in Quotients : gcd[<<Magnitude(q.n), q.d>>] = 1}

\* n / d for an integer n and a positive integer d.
Ratio(num, den) == lowest[[n |-> num, d |-> den]]
Whole(i) == [n |-> i, d |-> 1]
Zero == Whole(0)

sum[p \in Pairs] == Ratio(p[1].n * p[2].d + p[2].n * p[1].d, p[1].d * p[2].d)
product[p \in Pairs] == Ratio(p[1].n * p[2].n, p[1].d * p[2].d)
opposite[a \in Quotients] == [n |-> -a.n, d |-> a.d]
inverse[a \in Quotients] ==
  [n |-> IF a.n > 0 THEN a.d ELSE -a.d, d |-> Magnitude(a.n)]   \* a # 0
less[p \in Pairs] == p[1].n * p[2].d < p[2].n * p[1].d

a ++ b == sum[<<a, b>>]
a -- b == sum[<<a, opposite[b]>>]
a ** b == product[<<a, b>>]
a // b == product[<<a, inverse[b]>>]

a \prec b == less[<<a, b>>]
a \preceq b == ~less[<<b, a>>]

Absolute(a) == [n |-> Magnitude(a.n), d |-> a.d]
=============================================================================
