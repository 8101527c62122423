----------------------------- MODULE Fractions -----------------------------
(***************************************************************************)
(* Exact fractions [n, d] in lowest terms, d > 0: what the floating-point  *)
(* estimates of the energy services are modelled by, so that TLC compares  *)
(* them without rounding of its own.                                       *)
(***************************************************************************)
EXTENDS Integers

LOCAL Abs(x) == IF x < 0 THEN -x ELSE x

gcd[a \in Nat, b \in Nat] == IF b = 0 THEN a ELSE gcd[b, a % b]

Fraction == [n : Int, d : Nat \ {0}]
Whole(x) == [n |-> x, d |-> 1]
Zero == Whole(0)

(* n / d in lowest terms.  That g divides both is tested, not assumed: the *)
(* value of a fraction does not rest on what the recursion computes.       *)
Reduced(n, d, g) ==
  IF n = 0 THEN Zero
  ELSE IF g \in Nat \ {0} /\ n % g = 0 /\ d % g = 0 THEN [n |-> n \div g, d |-> d \div g]
  ELSE [n |-> n, d |-> d]

Q(n, d) == Reduced(n, d, gcd[Abs(n), d])

Leq(a, b)   == a.n * b.d <= b.n * a.d
Less(a, b)  == ~Leq(b, a)
Plus(a, b)  == Q(a.n * b.d + b.n * a.d, a.d * b.d)
Minus(a, b) == Q(a.n * b.d - b.n * a.d, a.d * b.d)
Times(a, b) == Q(a.n * b.n, a.d * b.d)
Over(a, b)  == Q(a.n * b.d, a.d * b.n)        \* b > 0
Percent(p, a) == Q(p * a.n, 100 * a.d)
Greater(a, b) == IF Leq(a, b) THEN b ELSE a
Smaller(a, b) == IF Leq(a, b) THEN a ELSE b

(* The nearest integer.                                                    *)
Nearest(a) == (2 * a.n + a.d) \div (2 * a.d)
=============================================================================
