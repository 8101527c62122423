-------------------------- MODULE DecisionsProofs --------------------------
(***************************************************************************)
(* Proofs about Decisions: what holds of a recommendation for every        *)
(* catalog, network, station state and telemetry.  They rest on lemmas     *)
(* about exact fractions: each operation yields a fraction of the value it *)
(* should have, the order is total, and sums, differences and products are *)
(* monotonic.                                                              *)
(***************************************************************************)
EXTENDS Decisions, FiniteSetTheorems, TLAPS

-----------------------------------------------------------------------------
(* Integers.                                                               *)

LEMMA MulMono ==
  ASSUME NEW x \in Int, NEW y \in Int, NEW k \in Nat, x <= y
  PROVE  x * k <= y * k
  OBVIOUS

LEMMA MulCancel ==
  ASSUME NEW x \in Int, NEW y \in Int, NEW k \in Nat \ {0}, x * k <= y * k
  PROVE  x <= y
  OBVIOUS

LEMMA MulCancelEq ==
  ASSUME NEW x \in Int, NEW y \in Int, NEW k \in Nat \ {0}, x * k = y * k
  PROVE  x = y
  OBVIOUS

LEMMA SameSign ==
  ASSUME NEW x \in Int, NEW y \in Int, NEW d \in Nat \ {0}, NEW e \in Nat \ {0}, x * d = y * e
  PROVE  (x > 0 <=> y > 0) /\ (x >= 0 <=> y >= 0) /\ (x = 0 <=> y = 0)
<1>1. x > 0 => x * d > 0
  OBVIOUS
<1>2. y > 0 => y * e > 0
  OBVIOUS
<1>3. x < 0 => x * d < 0
  OBVIOUS
<1>4. y < 0 => y * e < 0
  OBVIOUS
<1> QED BY <1>1, <1>2, <1>3, <1>4

LEMMA ExactDivision ==
  ASSUME NEW n \in Int, NEW g \in Nat \ {0}, n % g = 0
  PROVE  n \div g \in Int /\ n = g * (n \div g)
<1>1. g > 0 /\ n \div g \in Int
  OBVIOUS
<1>2. n = g * (n \div g) + (n % g)
  BY <1>1
<1> QED BY <1>1, <1>2

-----------------------------------------------------------------------------
(* Values.                                                                 *)

LEMMA WholeType ==
  ASSUME NEW x \in Int
  PROVE  Whole(x) \in Fraction
  BY DEF Whole, Fraction

LEMMA ReducedValue ==
  ASSUME NEW n \in Int, NEW d \in Nat \ {0}, NEW g
  PROVE  Reduced(n, d, g) \in Fraction /\ Reduced(n, d, g).n * d = n * Reduced(n, d, g).d
<1>1. CASE n = 0
  BY <1>1 DEF Reduced, Zero, Whole, Fraction
<1>2. CASE n # 0 /\ g \in Nat \ {0} /\ n % g = 0 /\ d % g = 0
  <2>1. PICK m \in Int, e \in Int : m = n \div g /\ e = d \div g /\ n = g * m /\ d = g * e
    BY <1>2, ExactDivision
  <2>2. e > 0
    BY <1>2, <2>1
  <2>3. Reduced(n, d, g) = [n |-> m, d |-> e]
    BY <1>2, <2>1 DEF Reduced
  <2>4. m * (g * e) = (g * m) * e
    BY <1>2, <2>1
  <2>5. m * d = n * e
    BY <2>1, <2>4
  <2>6. [n |-> m, d |-> e] \in Fraction
    BY <2>1, <2>2 DEF Fraction
  <2> QED BY <2>3, <2>5, <2>6
<1>3. CASE n # 0 /\ ~(g \in Nat \ {0} /\ n % g = 0 /\ d % g = 0)
  <2>1. Reduced(n, d, g) = [n |-> n, d |-> d]
    BY <1>3 DEF Reduced
  <2>2. [n |-> n, d |-> d] \in Fraction
    BY DEF Fraction
  <2> QED BY <2>1, <2>2
<1> QED BY <1>1, <1>2, <1>3

LEMMA QValue ==
  ASSUME NEW n \in Int, NEW d \in Nat \ {0}
  PROVE  Q(n, d) \in Fraction /\ Q(n, d).n * d = n * Q(n, d).d
  BY ReducedValue, Zenon DEF Q

LEMMA QSign ==
  ASSUME NEW n \in Int, NEW d \in Nat \ {0}
  PROVE  /\ Q(n, d).n > 0 <=> n > 0
         /\ Q(n, d).n >= 0 <=> n >= 0
         /\ n = 0 <=> Q(n, d) = Zero
<1>1. Q(n, d) \in Fraction /\ Q(n, d).n * d = n * Q(n, d).d
  BY QValue
<1>2. Q(n, d).n \in Int /\ Q(n, d).d \in Nat \ {0}
  BY <1>1 DEF Fraction
<1>3. n = 0 => Q(n, d) = Zero
  BY Zenon DEF Q, Reduced
<1>4. Q(n, d) = Zero => Q(n, d).n = 0
  BY DEF Zero, Whole
<1> QED BY <1>1, <1>2, <1>3, <1>4, SameSign

LEMMA PlusValue ==
  ASSUME NEW a \in Fraction, NEW b \in Fraction
  PROVE  /\ Plus(a, b) \in Fraction
         /\ Plus(a, b).n * (a.d * b.d) = (a.n * b.d + b.n * a.d) * Plus(a, b).d
<1>1. a.n * b.d + b.n * a.d \in Int /\ a.d * b.d \in Nat \ {0}
  BY DEF Fraction
<1> QED BY <1>1, QValue DEF Plus

LEMMA MinusValue ==
  ASSUME NEW a \in Fraction, NEW b \in Fraction
  PROVE  /\ Minus(a, b) \in Fraction
         /\ Minus(a, b).n * (a.d * b.d) = (a.n * b.d - b.n * a.d) * Minus(a, b).d
<1>1. a.n * b.d - b.n * a.d \in Int /\ a.d * b.d \in Nat \ {0}
  BY DEF Fraction
<1> QED BY <1>1, QValue DEF Minus

LEMMA TimesValue ==
  ASSUME NEW a \in Fraction, NEW b \in Fraction
  PROVE  /\ Times(a, b) \in Fraction
         /\ Times(a, b).n * (a.d * b.d) = (a.n * b.n) * Times(a, b).d
<1>1. a.n * b.n \in Int /\ a.d * b.d \in Nat \ {0}
  BY DEF Fraction
<1> QED BY <1>1, QValue DEF Times

LEMMA OverValue ==
  ASSUME NEW a \in Fraction, NEW b \in Fraction, b.n > 0
  PROVE  /\ Over(a, b) \in Fraction
         /\ Over(a, b).n * (a.d * b.n) = (a.n * b.d) * Over(a, b).d
<1>1. a.n * b.d \in Int /\ a.d * b.n \in Nat \ {0}
  BY DEF Fraction
<1> QED BY <1>1, QValue DEF Over

LEMMA PercentValue ==
  ASSUME NEW p \in Int, NEW a \in Fraction
  PROVE  /\ Percent(p, a) \in Fraction
         /\ Percent(p, a).n * (100 * a.d) = (p * a.n) * Percent(p, a).d
<1>1. p * a.n \in Int /\ 100 * a.d \in Nat \ {0}
  BY DEF Fraction
<1> QED BY <1>1, QValue DEF Percent

-----------------------------------------------------------------------------
(* The order.                                                              *)

LEMMA LeqRefl ==
  ASSUME NEW a \in Fraction
  PROVE  Leq(a, a)
  BY DEF Leq, Fraction

LEMMA LeqTotal ==
  ASSUME NEW a \in Fraction, NEW b \in Fraction, ~Leq(a, b)
  PROVE  Leq(b, a)
  BY DEF Leq, Fraction

LEMMA LeqTrans ==
  ASSUME NEW a \in Fraction, NEW b \in Fraction, NEW c \in Fraction, Leq(a, b), Leq(b, c)
  PROVE  Leq(a, c)
<1> DEFINE an == a.n  ad == a.d  bn == b.n  bd == b.d  cn == c.n  cd == c.d
<1>1. /\ an \in Int /\ bn \in Int /\ cn \in Int
      /\ ad \in Nat \ {0} /\ bd \in Nat \ {0} /\ cd \in Nat \ {0}
  BY DEF Fraction
<1>2. an * bd <= bn * ad /\ bn * cd <= cn * bd
  BY DEF Leq
<1> HIDE DEF an, ad, bn, bd, cn, cd
<1>3. (an * bd) * cd <= (bn * ad) * cd
  BY <1>1, <1>2, MulMono
<1>4. (bn * cd) * ad <= (cn * bd) * ad
  BY <1>1, <1>2, MulMono
<1>5. (an * cd) * bd = (an * bd) * cd /\ (bn * ad) * cd = (bn * cd) * ad
      /\ (cn * bd) * ad = (cn * ad) * bd
  BY <1>1
<1>6. (an * cd) * bd <= (cn * ad) * bd
  <2> DEFINE x == (an * cd) * bd  y == (bn * ad) * cd  z == (cn * ad) * bd
  <2>1. x \in Int /\ y \in Int /\ z \in Int
    BY <1>1
  <2>2. x <= y /\ y <= z
    BY <1>3, <1>4, <1>5
  <2> QED BY <2>1, <2>2
<1>7. an * cd <= cn * ad
  BY <1>1, <1>6, MulCancel
<1> QED BY <1>7 DEF an, ad, cn, cd, Leq

(* Fractions compare as the quotients they are the values of.              *)
LEMMA LeqValues ==
  ASSUME NEW p \in Fraction, NEW q \in Fraction,
         NEW n \in Int, NEW d \in Nat \ {0}, NEW m \in Int, NEW e \in Nat \ {0},
         p.n * d = n * p.d, q.n * e = m * q.d
  PROVE  Leq(p, q) <=> n * e <= m * d
<1> DEFINE pn == p.n  pd == p.d  qn == q.n  qd == q.d
<1>1. pn \in Int /\ qn \in Int /\ pd \in Nat \ {0} /\ qd \in Nat \ {0}
  BY DEF Fraction
<1>2. Leq(p, q) <=> pn * qd <= qn * pd
  BY DEF Leq
<1>3. pn * d = n * pd /\ qn * e = m * qd
  OBVIOUS
<1> HIDE DEF pn, pd, qn, qd
<1>4. d * e \in Nat \ {0} /\ pd * qd \in Nat \ {0}
  BY <1>1
<1>5. (pn * qd) * (d * e) = (n * e) * (pd * qd)
  <2>1. (pn * qd) * (d * e) = (pn * d) * (qd * e)
    BY <1>1
  <2>2. (n * pd) * (qd * e) = (n * e) * (pd * qd)
    BY <1>1
  <2> QED BY <1>3, <2>1, <2>2
<1>6. (qn * pd) * (d * e) = (m * d) * (pd * qd)
  <2>1. (qn * pd) * (d * e) = (qn * e) * (pd * d)
    BY <1>1
  <2>2. (m * qd) * (pd * d) = (m * d) * (pd * qd)
    BY <1>1
  <2> QED BY <1>3, <2>1, <2>2
<1>7. pn * qd \in Int /\ qn * pd \in Int /\ n * e \in Int /\ m * d \in Int
  BY <1>1
<1>8. pn * qd <= qn * pd => n * e <= m * d
  BY <1>4, <1>5, <1>6, <1>7, MulMono, MulCancel
<1>9. n * e <= m * d => pn * qd <= qn * pd
  BY <1>4, <1>5, <1>6, <1>7, MulMono, MulCancel
<1> QED BY <1>2, <1>8, <1>9

LEMMA LeqWhole ==
  ASSUME NEW x \in Int, NEW y \in Int
  PROVE  Leq(Whole(x), Whole(y)) <=> x <= y
  BY DEF Leq, Whole

LEMMA PlusComm ==
  ASSUME NEW a \in Fraction, NEW b \in Fraction
  PROVE  Plus(a, b) = Plus(b, a)
<1>1. a.n * b.d + b.n * a.d = b.n * a.d + a.n * b.d /\ a.d * b.d = b.d * a.d
  BY DEF Fraction
<1> QED BY <1>1 DEF Plus

LEMMA GreaterBounds ==
  ASSUME NEW a \in Fraction, NEW b \in Fraction
  PROVE  /\ Greater(a, b) \in Fraction /\ Greater(a, b) \in {a, b}
         /\ Leq(a, Greater(a, b)) /\ Leq(b, Greater(a, b))
  BY LeqRefl, LeqTotal DEF Greater

LEMMA SmallerBounds ==
  ASSUME NEW a \in Fraction, NEW b \in Fraction
  PROVE  /\ Smaller(a, b) \in Fraction /\ Smaller(a, b) \in {a, b}
         /\ Leq(Smaller(a, b), a) /\ Leq(Smaller(a, b), b)
  BY LeqRefl, LeqTotal DEF Smaller

-----------------------------------------------------------------------------
(* Monotonicity.                                                           *)

LEMMA PlusMono ==
  ASSUME NEW a \in Fraction, NEW b \in Fraction, NEW c \in Fraction, Leq(a, b)
  PROVE  Leq(Plus(a, c), Plus(b, c))
<1> DEFINE an == a.n  ad == a.d  bn == b.n  bd == b.d  cn == c.n  cd == c.d
<1>1. /\ an \in Int /\ bn \in Int /\ cn \in Int
      /\ ad \in Nat \ {0} /\ bd \in Nat \ {0} /\ cd \in Nat \ {0}
  BY DEF Fraction
<1>2. an * bd <= bn * ad
  BY DEF Leq
<1>3. /\ Plus(a, c) \in Fraction /\ Plus(a, c).n * (ad * cd) = (an * cd + cn * ad) * Plus(a, c).d
      /\ Plus(b, c) \in Fraction /\ Plus(b, c).n * (bd * cd) = (bn * cd + cn * bd) * Plus(b, c).d
  BY PlusValue
<1> HIDE DEF an, ad, bn, bd, cn, cd
<1>4. (an * cd + cn * ad) * (bd * cd) <= (bn * cd + cn * bd) * (ad * cd)
  <2>1. (an * bd) * (cd * cd) <= (bn * ad) * (cd * cd)
    BY <1>1, <1>2, MulMono
  <2>2. (an * cd + cn * ad) * (bd * cd) = (an * bd) * (cd * cd) + cn * ad * bd * cd
    BY <1>1
  <2>3. (bn * cd + cn * bd) * (ad * cd) = (bn * ad) * (cd * cd) + cn * ad * bd * cd
    BY <1>1
  <2>4. cn * ad * bd * cd \in Int /\ (an * bd) * (cd * cd) \in Int /\ (bn * ad) * (cd * cd) \in Int
    BY <1>1
  <2> QED BY <2>1, <2>2, <2>3, <2>4
<1>5. /\ an * cd + cn * ad \in Int /\ bn * cd + cn * bd \in Int
      /\ ad * cd \in Nat \ {0} /\ bd * cd \in Nat \ {0}
  BY <1>1
<1> QED BY <1>3, <1>4, <1>5, LeqValues

LEMMA TimesMono ==
  ASSUME NEW a \in Fraction, NEW b \in Fraction, NEW c \in Fraction, Leq(a, b), c.n >= 0
  PROVE  Leq(Times(a, c), Times(b, c))
<1> DEFINE an == a.n  ad == a.d  bn == b.n  bd == b.d  cn == c.n  cd == c.d
<1>1. /\ an \in Int /\ bn \in Int /\ cn \in Nat
      /\ ad \in Nat \ {0} /\ bd \in Nat \ {0} /\ cd \in Nat \ {0}
  BY DEF Fraction
<1>2. an * bd <= bn * ad
  BY DEF Leq
<1>3. /\ Times(a, c) \in Fraction /\ Times(a, c).n * (ad * cd) = (an * cn) * Times(a, c).d
      /\ Times(b, c) \in Fraction /\ Times(b, c).n * (bd * cd) = (bn * cn) * Times(b, c).d
  BY TimesValue
<1> HIDE DEF an, ad, bn, bd, cn, cd
<1>4. (an * cn) * (bd * cd) <= (bn * cn) * (ad * cd)
  <2>1. cn * cd \in Nat
    BY <1>1
  <2>2. (an * bd) * (cn * cd) <= (bn * ad) * (cn * cd)
    BY <1>1, <1>2, <2>1, MulMono
  <2>3. (an * cn) * (bd * cd) = (an * bd) * (cn * cd) /\ (bn * cn) * (ad * cd) = (bn * ad) * (cn * cd)
    BY <1>1
  <2> QED BY <2>2, <2>3
<1>5. /\ an * cn \in Int /\ bn * cn \in Int /\ ad * cd \in Nat \ {0} /\ bd * cd \in Nat \ {0}
  BY <1>1
<1> QED BY <1>3, <1>4, <1>5, LeqValues

LEMMA OverMono ==
  ASSUME NEW a \in Fraction, NEW b \in Fraction, NEW c \in Fraction, Leq(a, b), c.n > 0
  PROVE  Leq(Over(a, c), Over(b, c))
<1> DEFINE an == a.n  ad == a.d  bn == b.n  bd == b.d  cn == c.n  cd == c.d
<1>1. /\ an \in Int /\ bn \in Int /\ cn \in Nat \ {0}
      /\ ad \in Nat \ {0} /\ bd \in Nat \ {0} /\ cd \in Nat \ {0}
  BY DEF Fraction
<1>2. an * bd <= bn * ad
  BY DEF Leq
<1>3. /\ Over(a, c) \in Fraction /\ Over(a, c).n * (ad * cn) = (an * cd) * Over(a, c).d
      /\ Over(b, c) \in Fraction /\ Over(b, c).n * (bd * cn) = (bn * cd) * Over(b, c).d
  BY OverValue
<1> HIDE DEF an, ad, bn, bd, cn, cd
<1>4. (an * cd) * (bd * cn) <= (bn * cd) * (ad * cn)
  <2>1. cn * cd \in Nat
    BY <1>1
  <2>2. (an * bd) * (cn * cd) <= (bn * ad) * (cn * cd)
    BY <1>1, <1>2, <2>1, MulMono
  <2>3. (an * cd) * (bd * cn) = (an * bd) * (cn * cd) /\ (bn * cd) * (ad * cn) = (bn * ad) * (cn * cd)
    BY <1>1
  <2> QED BY <2>2, <2>3
<1>5. /\ an * cd \in Int /\ bn * cd \in Int /\ ad * cn \in Nat \ {0} /\ bd * cn \in Nat \ {0}
  BY <1>1
<1> QED BY <1>3, <1>4, <1>5, LeqValues

(* A product is at most what its factor is of the quotient, and conversely.*)
LEMMA TimesOver ==
  ASSUME NEW a \in Fraction, NEW b \in Fraction, NEW c \in Fraction, c.n > 0
  PROVE  Leq(Times(a, c), b) <=> Leq(a, Over(b, c))
<1> DEFINE an == a.n  ad == a.d  bn == b.n  bd == b.d  cn == c.n  cd == c.d
<1>1. /\ an \in Int /\ bn \in Int /\ cn \in Nat \ {0}
      /\ ad \in Nat \ {0} /\ bd \in Nat \ {0} /\ cd \in Nat \ {0}
  BY DEF Fraction
<1>2. /\ Times(a, c) \in Fraction /\ Times(a, c).n * (ad * cd) = (an * cn) * Times(a, c).d
      /\ Over(b, c) \in Fraction /\ Over(b, c).n * (bd * cn) = (bn * cd) * Over(b, c).d
  BY TimesValue, OverValue
<1>3. a \in Fraction /\ a.n * ad = an * a.d /\ b \in Fraction /\ b.n * bd = bn * b.d
  OBVIOUS
<1> HIDE DEF an, ad, bn, bd, cn, cd
<1>4. /\ an * cn \in Int /\ bn * cd \in Int /\ ad * cd \in Nat \ {0} /\ bd * cn \in Nat \ {0}
  BY <1>1
<1>5. Leq(Times(a, c), b) <=> (an * cn) * bd <= bn * (ad * cd)
  BY <1>1, <1>2, <1>3, <1>4, LeqValues
<1>6. Leq(a, Over(b, c)) <=> an * (bd * cn) <= (bn * cd) * ad
  BY <1>1, <1>2, <1>3, <1>4, LeqValues
<1>7. (an * cn) * bd = an * (bd * cn) /\ bn * (ad * cd) = (bn * cd) * ad
  BY <1>1
<1> QED BY <1>5, <1>6, <1>7

-----------------------------------------------------------------------------
(* Signs.                                                                  *)

LEMMA Positive ==
  ASSUME NEW a \in Fraction
  PROVE  /\ Less(Zero, a) <=> a.n > 0
         /\ Leq(Zero, a) <=> a.n >= 0
         /\ Less(a, Zero) <=> a.n < 0
  BY DEF Less, Leq, Zero, Whole, Fraction

LEMMA ZeroType == Zero \in Fraction /\ Zero.n = 0
  BY DEF Zero, Whole, Fraction

LEMMA TimesSign ==
  ASSUME NEW a \in Fraction, NEW b \in Fraction, a.n >= 0, b.n >= 0
  PROVE  Times(a, b).n >= 0
<1>1. a.n \in Nat /\ b.n \in Nat /\ a.d \in Nat \ {0} /\ b.d \in Nat \ {0}
  BY DEF Fraction
<1>2. a.n * b.n \in Nat /\ a.d * b.d \in Nat \ {0}
  BY <1>1
<1> QED BY <1>2, QSign DEF Times

LEMMA PlusSign ==
  ASSUME NEW a \in Fraction, NEW b \in Fraction, a.n >= 0, b.n >= 0
  PROVE  Plus(a, b).n >= 0
<1>1. a.n \in Nat /\ b.n \in Nat /\ a.d \in Nat \ {0} /\ b.d \in Nat \ {0}
  BY DEF Fraction
<1>2. a.n * b.d + b.n * a.d \in Nat /\ a.d * b.d \in Nat \ {0}
  BY <1>1
<1> QED BY <1>2, QSign DEF Plus

LEMMA OverSign ==
  ASSUME NEW a \in Fraction, NEW b \in Fraction, b.n > 0
  PROVE  /\ Over(a, b).n >= 0 <=> a.n >= 0
         /\ Over(a, b).n > 0 <=> a.n > 0
         /\ a.n = 0 <=> Over(a, b) = Zero
<1>1. a.n \in Int /\ b.n \in Nat \ {0} /\ a.d \in Nat \ {0} /\ b.d \in Nat \ {0}
  BY DEF Fraction
<1>2. a.n * b.d \in Int /\ a.d * b.n \in Nat \ {0}
  BY <1>1
<1>3. (a.n * b.d) * 1 = a.n * b.d /\ 1 \in Nat \ {0}
  BY <1>2
<1>4. (a.n * b.d > 0 <=> a.n > 0) /\ (a.n * b.d >= 0 <=> a.n >= 0) /\ (a.n * b.d = 0 <=> a.n = 0)
  BY <1>1, <1>2, <1>3, SameSign
<1> QED BY <1>2, <1>4, QSign DEF Over

-----------------------------------------------------------------------------
(* Rounding.                                                               *)

LEMMA NearestBounds ==
  ASSUME NEW a \in Fraction
  PROVE  /\ Nearest(a) \in Int
         /\ Nearest(a) * (2 * a.d) <= 2 * a.n + a.d
         /\ 2 * a.n + a.d < (Nearest(a) + 1) * (2 * a.d)
<1> DEFINE n == a.n  d == a.d
<1>1. n \in Int /\ d \in Nat \ {0} /\ Nearest(a) = (2 * n + d) \div (2 * d)
  BY DEF Fraction, Nearest
<1> HIDE DEF n, d
<1>2. PICK x \in Int, y \in Nat : x = 2 * n + d /\ y = 2 * d /\ y > 0
  BY <1>1
<1>3. x \div y \in Int /\ x = y * (x \div y) + (x % y) /\ x % y \in 0..(y - 1)
  BY <1>2
<1>4. (x \div y) * y <= x /\ x < ((x \div y) + 1) * y
  <2>1. PICK q \in Int, r \in 0..(y - 1) : q = x \div y /\ x = y * q + r
    BY <1>3
  <2>2. q * y <= x /\ x < (q + 1) * y
    BY <1>2, <2>1
  <2> QED BY <2>1, <2>2
<1> QED BY <1>1, <1>2, <1>3, <1>4 DEF n, d

(* A number that rounds to no more than another exceeds it by less than 1. *)
LEMMA NearestClose ==
  ASSUME NEW a \in Fraction, NEW b \in Fraction, Nearest(a) <= Nearest(b)
  PROVE  Leq(a, Plus(b, Whole(1)))
<1> DEFINE an == a.n  ad == a.d  bn == b.n  bd == b.d
<1>1. /\ an \in Int /\ bn \in Int /\ ad \in Nat \ {0} /\ bd \in Nat \ {0}
  BY DEF Fraction
<1>2. PICK x \in Int, y \in Int : x = Nearest(a) /\ y = Nearest(b)
  BY NearestBounds
<1>3. 2 * an + ad < (x + 1) * (2 * ad) /\ y * (2 * bd) <= 2 * bn + bd /\ x <= y
  BY <1>2, NearestBounds
<1>4. a.n * ad = an * a.d /\ Whole(1) \in Fraction /\ Whole(1).n = 1 /\ Whole(1).d = 1
  BY <1>1, WholeType DEF Whole
<1>5. Plus(b, Whole(1)) \in Fraction /\ Plus(b, Whole(1)).n * bd = (bn + bd) * Plus(b, Whole(1)).d
  BY <1>1, <1>4, PlusValue
<1> HIDE DEF an, ad, bn, bd
<1>6. an * bd <= (bn + bd) * ad
  <2>1. (2 * an + ad) * bd <= ((x + 1) * (2 * ad)) * bd
    BY <1>1, <1>3, MulMono
  <2>2. (y * (2 * bd)) * ad <= (2 * bn + bd) * ad
    BY <1>1, <1>3, MulMono
  <2>3. x * (2 * ad * bd) <= y * (2 * ad * bd)
    <3>1. 2 * ad * bd \in Nat
      BY <1>1
    <3> QED BY <1>3, <3>1, MulMono
  <2>4. ((x + 1) * (2 * ad)) * bd = x * (2 * ad * bd) + 2 * (ad * bd)
    BY <1>1
  <2>5. (y * (2 * bd)) * ad = y * (2 * ad * bd)
    BY <1>1
  <2>6. (2 * an + ad) * bd = 2 * (an * bd) + ad * bd /\ (2 * bn + bd) * ad = 2 * (bn * ad) + ad * bd
    BY <1>1
  <2>7. (bn + bd) * ad = bn * ad + ad * bd
    BY <1>1
  <2>8. /\ an * bd \in Int /\ bn * ad \in Int /\ ad * bd \in Int
        /\ x * (2 * ad * bd) \in Int /\ y * (2 * ad * bd) \in Int
    BY <1>1
  <2> QED BY <2>1, <2>2, <2>3, <2>4, <2>5, <2>6, <2>7, <2>8
<1>7. bn + bd \in Int
  BY <1>1
<1> QED BY <1>1, <1>4, <1>5, <1>6, <1>7, LeqValues DEF an, ad

LEMMA NearestMono ==
  ASSUME NEW a \in Fraction, NEW b \in Fraction, Leq(a, b)
  PROVE  Nearest(a) <= Nearest(b)
<1> DEFINE an == a.n  ad == a.d  bn == b.n  bd == b.d
<1>1. /\ an \in Int /\ bn \in Int /\ ad \in Nat \ {0} /\ bd \in Nat \ {0}
      /\ an * bd <= bn * ad
  BY DEF Fraction, Leq
<1>2. PICK x \in Int, y \in Int : x = Nearest(a) /\ y = Nearest(b)
  BY NearestBounds
<1>3. x * (2 * ad) <= 2 * an + ad /\ 2 * bn + bd < (y + 1) * (2 * bd)
  BY <1>2, NearestBounds
<1> HIDE DEF an, ad, bn, bd
<1>4. x < y + 1
  <2>1. (x * (2 * ad)) * bd <= (2 * an + ad) * bd
    BY <1>1, <1>3, MulMono
  <2>2. (2 * bn + bd) * ad < ((y + 1) * (2 * bd)) * ad
    BY <1>1, <1>3
  <2>3. (2 * an + ad) * bd <= (2 * bn + bd) * ad
    BY <1>1
  <2>4. (x * (2 * ad)) * bd = x * (2 * ad * bd) /\ ((y + 1) * (2 * bd)) * ad = (y + 1) * (2 * ad * bd)
    BY <1>1
  <2>5. /\ x * (2 * ad * bd) \in Int /\ (y + 1) * (2 * ad * bd) \in Int
        /\ (2 * an + ad) * bd \in Int /\ (2 * bn + bd) * ad \in Int
    BY <1>1
  <2>6. x * (2 * ad * bd) < (y + 1) * (2 * ad * bd)
    BY <2>1, <2>2, <2>3, <2>4, <2>5
  <2>7. ~(y + 1 <= x)
    <3>1. 2 * ad * bd \in Nat
      BY <1>1
    <3>2. y + 1 <= x => (y + 1) * (2 * ad * bd) <= x * (2 * ad * bd)
      BY <3>1, MulMono
    <3> QED BY <2>5, <2>6, <3>2
  <2> QED BY <2>7
<1> QED BY <1>2, <1>4

-----------------------------------------------------------------------------
(* The value of a sum and of a product, by the values of their operands.   *)

LEMMA PlusOf ==
  ASSUME NEW a \in Fraction, NEW b \in Fraction,
         NEW n \in Int, NEW d \in Nat \ {0}, NEW m \in Int, NEW e \in Nat \ {0},
         a.n * d = n * a.d, b.n * e = m * b.d
  PROVE  Plus(a, b).n * (d * e) = (n * e + m * d) * Plus(a, b).d
<1> DEFINE an == a.n  ad == a.d  bn == b.n  bd == b.d  pn == Plus(a, b).n  pd == Plus(a, b).d
<1>1. /\ an \in Int /\ bn \in Int /\ ad \in Nat \ {0} /\ bd \in Nat \ {0}
      /\ pn \in Int /\ pd \in Nat \ {0}
  BY PlusValue DEF Fraction
<1>2. pn * (ad * bd) = (an * bd + bn * ad) * pd
  BY PlusValue
<1>3. an * d = n * ad /\ bn * e = m * bd
  OBVIOUS
<1> HIDE DEF an, ad, bn, bd, pn, pd
<1>4. (pn * (d * e)) * (ad * bd) = ((n * e + m * d) * pd) * (ad * bd)
  <2>1. (pn * (d * e)) * (ad * bd) = (pn * (ad * bd)) * (d * e)
    BY <1>1
  <2>2. ((an * bd + bn * ad) * pd) * (d * e) = ((an * d) * (bd * e) + (bn * e) * (ad * d)) * pd
    BY <1>1
  <2>3. ((n * ad) * (bd * e) + (m * bd) * (ad * d)) * pd = ((n * e + m * d) * pd) * (ad * bd)
    BY <1>1
  <2> QED BY <1>2, <1>3, <2>1, <2>2, <2>3
<1>5. ad * bd \in Nat \ {0} /\ pn * (d * e) \in Int /\ (n * e + m * d) * pd \in Int
  BY <1>1
<1>6. pn * (d * e) = (n * e + m * d) * pd
  BY <1>4, <1>5, MulCancelEq
<1> QED BY <1>6 DEF pn, pd

LEMMA TimesOf ==
  ASSUME NEW a \in Fraction, NEW b \in Fraction,
         NEW n \in Int, NEW d \in Nat \ {0}, NEW m \in Int, NEW e \in Nat \ {0},
         a.n * d = n * a.d, b.n * e = m * b.d
  PROVE  Times(a, b).n * (d * e) = (n * m) * Times(a, b).d
<1> DEFINE an == a.n  ad == a.d  bn == b.n  bd == b.d  pn == Times(a, b).n  pd == Times(a, b).d
<1>1. /\ an \in Int /\ bn \in Int /\ ad \in Nat \ {0} /\ bd \in Nat \ {0}
      /\ pn \in Int /\ pd \in Nat \ {0}
  BY TimesValue DEF Fraction
<1>2. pn * (ad * bd) = (an * bn) * pd
  BY TimesValue
<1>3. an * d = n * ad /\ bn * e = m * bd
  OBVIOUS
<1> HIDE DEF an, ad, bn, bd, pn, pd
<1>4. (pn * (d * e)) * (ad * bd) = ((n * m) * pd) * (ad * bd)
  <2>1. (pn * (d * e)) * (ad * bd) = (pn * (ad * bd)) * (d * e)
    BY <1>1
  <2>2. ((an * bn) * pd) * (d * e) = ((an * d) * (bn * e)) * pd
    BY <1>1
  <2>3. ((n * ad) * (m * bd)) * pd = ((n * m) * pd) * (ad * bd)
    BY <1>1
  <2> QED BY <1>2, <1>3, <2>1, <2>2, <2>3
<1>5. ad * bd \in Nat \ {0} /\ pn * (d * e) \in Int /\ (n * m) * pd \in Int
  BY <1>1
<1>6. pn * (d * e) = (n * m) * pd
  BY <1>4, <1>5, MulCancelEq
<1> QED BY <1>6 DEF pn, pd

(* Rounding moves a value by half a unit at most.                          *)
LEMMA HalfType == Half \in Fraction /\ Half.n >= 0 /\ Half.n * 2 = 1 * Half.d
BY QValue, QSign DEF Half

LEMMA RoundedHalf ==
  ASSUME NEW a \in Fraction
  PROVE  /\ Rounded(a) \in Fraction
         /\ Leq(Rounded(a), Plus(a, Half)) /\ Leq(a, Plus(Rounded(a), Half))
<1> DEFINE an == a.n  ad == a.d  r == Rounded(a)  x == Nearest(a)
<1>1. /\ an \in Int /\ ad \in Nat \ {0} /\ x \in Int
      /\ x * (2 * ad) <= 2 * an + ad /\ 2 * an + ad < (x + 1) * (2 * ad)
  BY NearestBounds DEF Fraction
<1>2. PICK one \in Nat \ {0}, two \in Nat \ {0} : one = 1 /\ two = 2
  OBVIOUS
<1>3. r \in Fraction /\ r.n * one = x * r.d
  BY <1>1, <1>2, WholeType DEF Rounded, Whole
<1>4. Half \in Fraction /\ Half.n * two = one * Half.d /\ a.n * ad = an * a.d
  BY <1>2, HalfType
<1>5. Plus(a, Half) \in Fraction /\ Plus(r, Half) \in Fraction
  BY <1>3, <1>4, PlusValue
<1> HIDE DEF an, ad, r, x
<1>6. /\ Plus(a, Half).n * (ad * two) = (an * two + one * ad) * Plus(a, Half).d
      /\ Plus(r, Half).n * (one * two) = (x * two + one * one) * Plus(r, Half).d
  BY <1>1, <1>2, <1>3, <1>4, PlusOf
<1>7. /\ an * two + one * ad \in Int /\ ad * two \in Nat \ {0}
      /\ x * two + one * one \in Int /\ one * two \in Nat \ {0}
  BY <1>1, <1>2
<1>8. Leq(r, Plus(a, Half)) <=> x * (ad * two) <= (an * two + one * ad) * one
  BY <1>1, <1>2, <1>3, <1>5, <1>6, <1>7, LeqValues
<1>9. Leq(a, Plus(r, Half)) <=> an * (one * two) <= (x * two + one * one) * ad
  BY <1>1, <1>2, <1>3, <1>4, <1>5, <1>6, <1>7, LeqValues
<1>10. x * (ad * two) <= (an * two + one * ad) * one
  BY <1>1, <1>2
<1>11. an * (one * two) <= (x * two + one * one) * ad
  <2>1. x * (2 * ad) = 2 * (x * ad) /\ (x + 1) * (2 * ad) = 2 * (x * ad) + 2 * ad
        /\ (x * 2 + 1) * ad = 2 * (x * ad) + ad /\ x * ad \in Int
    BY <1>1
  <2>2. an * 2 <= (x * 2 + 1) * ad
    BY <1>1, <2>1
  <2> QED BY <1>2, <2>2
<1>12. Leq(r, Plus(a, Half)) /\ Leq(a, Plus(r, Half))
  BY <1>8, <1>9, <1>10, <1>11
<1> QED BY <1>3, <1>12 DEF r

LEMMA PlusThree ==
  ASSUME NEW a \in Fraction, NEW b \in Fraction, NEW c \in Fraction
  PROVE  LET sum == Plus(Plus(a, b), c)
         IN  /\ sum \in Fraction
             /\ sum.n * ((a.d * b.d) * c.d)
                  = ((a.n * b.d + b.n * a.d) * c.d + c.n * (a.d * b.d)) * sum.d
<1> DEFINE p == Plus(a, b)  n == a.n * b.d + b.n * a.d  d == a.d * b.d
<1>1. p \in Fraction /\ p.n * d = n * p.d
  BY PlusValue
<1>2. n \in Int /\ d \in Nat \ {0}
  BY DEF Fraction
<1>3. c.n \in Int /\ c.d \in Nat \ {0} /\ c.n * c.d = c.n * c.d
  BY DEF Fraction
<1> HIDE DEF p, n, d
<1>4. Plus(p, c).n * (d * c.d) = (n * c.d + c.n * d) * Plus(p, c).d
  BY <1>1, <1>2, <1>3, PlusOf
<1>5. Plus(p, c) \in Fraction
  BY <1>1, PlusValue
<1> QED BY <1>4, <1>5 DEF p, n, d

(* The order in which two terms are added does not matter.                 *)
LEMMA PlusSwap ==
  ASSUME NEW a \in Fraction, NEW b \in Fraction, NEW c \in Fraction
  PROVE  Leq(Plus(Plus(a, b), c), Plus(Plus(a, c), b))
<1> DEFINE p == Plus(Plus(a, b), c)  q == Plus(Plus(a, c), b)
           n == (a.n * b.d + b.n * a.d) * c.d + c.n * (a.d * b.d)  d == (a.d * b.d) * c.d
           m == (a.n * c.d + c.n * a.d) * b.d + b.n * (a.d * c.d)  e == (a.d * c.d) * b.d
<1>1. p \in Fraction /\ p.n * d = n * p.d /\ q \in Fraction /\ q.n * e = m * q.d
  BY PlusThree
<1>2. n \in Int /\ m \in Int /\ d \in Nat \ {0} /\ e \in Nat \ {0} /\ n = m /\ d = e
  <2> DEFINE an == a.n  ad == a.d  bn == b.n  bd == b.d  cn == c.n  cd == c.d
  <2>1. /\ an \in Int /\ bn \in Int /\ cn \in Int
        /\ ad \in Nat \ {0} /\ bd \in Nat \ {0} /\ cd \in Nat \ {0}
    BY DEF Fraction
  <2> HIDE DEF an, ad, bn, bd, cn, cd
  <2>2. /\ (an * bd + bn * ad) * cd + cn * (ad * bd) = (an * cd + cn * ad) * bd + bn * (ad * cd)
        /\ (ad * bd) * cd = (ad * cd) * bd
        /\ (an * bd + bn * ad) * cd + cn * (ad * bd) \in Int /\ (ad * bd) * cd \in Nat \ {0}
    BY <2>1
  <2> QED BY <2>2 DEF an, ad, bn, bd, cn, cd
<1> HIDE DEF n, m, d, e, p, q
<1>3. n * e <= m * d
  BY <1>2
<1>4. Leq(p, q)
  BY <1>1, <1>2, <1>3, LeqValues
<1> QED BY <1>4 DEF p, q

(* Adding what is not negative.                                            *)
LEMMA PlusMore ==
  ASSUME NEW a \in Fraction, NEW b \in Fraction, b.n >= 0
  PROVE  Leq(a, Plus(a, b))
<1>1. /\ Plus(Zero, a) \in Fraction /\ Plus(b, a) \in Fraction
      /\ Leq(Plus(Zero, a), Plus(b, a)) /\ Plus(b, a) = Plus(a, b)
  BY ZeroType, Positive, PlusValue, PlusMono, PlusComm
<1>2. Leq(a, Plus(Zero, a))
  <2>1. /\ a.n \in Int /\ a.d \in Nat \ {0} /\ Zero.n = 0 /\ Zero.d = 1 /\ Zero \in Fraction
    BY ZeroType DEF Fraction, Zero, Whole
  <2>2. Plus(Zero, a).n * (1 * a.d) = (0 * a.d + a.n * 1) * Plus(Zero, a).d
    BY <2>1, PlusValue
  <2>3. 0 * a.d + a.n * 1 = a.n /\ 1 * a.d = a.d
    BY <2>1
  <2>4. Plus(Zero, a).n * a.d = a.n * Plus(Zero, a).d
    BY <2>2, <2>3
  <2>5. Leq(a, Plus(Zero, a)) <=> a.n * a.d <= a.n * a.d
    BY <1>1, <2>1, <2>4, LeqValues
  <2> QED BY <2>1, <2>5
<1> QED BY <1>1, <1>2, LeqTrans

LEMMA PlusMono2 ==
  ASSUME NEW a \in Fraction, NEW b \in Fraction, NEW c \in Fraction, NEW e \in Fraction,
         Leq(a, b), Leq(c, e)
  PROVE  Leq(Plus(a, c), Plus(b, e))
<1>1. Leq(Plus(a, c), Plus(b, c)) /\ Leq(Plus(c, b), Plus(e, b))
  BY PlusMono
<1>2. Plus(c, b) = Plus(b, c) /\ Plus(e, b) = Plus(b, e)
  BY PlusComm
<1>3. Plus(a, c) \in Fraction /\ Plus(b, c) \in Fraction /\ Plus(b, e) \in Fraction
  BY PlusValue
<1> QED BY <1>1, <1>2, <1>3, LeqTrans

-----------------------------------------------------------------------------
(* Fractions over one denominator compare and add like integers.           *)

Counts(p, d, x) == p \in Fraction /\ p.n * d = x * p.d

LEMMA CountOf ==
  ASSUME NEW a \in Fraction, NEW k \in Nat \ {0}, NEW d, d = a.d * k
  PROVE  a.n * k \in Int /\ d \in Nat \ {0} /\ Counts(a, d, a.n * k)
<1> DEFINE an == a.n  ad == a.d
<1>1. an \in Int /\ ad \in Nat \ {0}
  BY DEF Fraction
<1> HIDE DEF an, ad
<1>2. an * k \in Int /\ ad * k \in Nat \ {0} /\ an * (ad * k) = (an * k) * ad
  BY <1>1
<1> QED BY <1>2 DEF Counts, an, ad

LEMMA CountLeq ==
  ASSUME NEW d \in Nat \ {0}, NEW x \in Int, NEW y \in Int, NEW p, NEW q,
         Counts(p, d, x), Counts(q, d, y)
  PROVE  Leq(p, q) <=> x <= y
<1>1. Leq(p, q) <=> x * d <= y * d
  BY LeqValues DEF Counts
<1> QED BY <1>1, MulMono, MulCancel

LEMMA CountPlus ==
  ASSUME NEW d \in Nat \ {0}, NEW x \in Int, NEW y \in Int, NEW p, NEW q,
         Counts(p, d, x), Counts(q, d, y)
  PROVE  Counts(Plus(p, q), d, x + y)
<1> DEFINE n == Plus(p, q).n  e == Plus(p, q).d
<1>1. Plus(p, q) \in Fraction /\ n \in Int /\ e \in Nat \ {0}
  BY PlusValue DEF Counts, Fraction
<1>2. n * (d * d) = (x * d + y * d) * e
  BY PlusOf DEF Counts
<1> HIDE DEF n, e
<1>3. (n * d) * d = ((x + y) * e) * d /\ n * d \in Int /\ (x + y) * e \in Int
  BY <1>1, <1>2
<1>4. n * d = (x + y) * e
  BY <1>3, MulCancelEq
<1> QED BY <1>1, <1>4 DEF Counts, n, e

LEMMA CountMinus ==
  ASSUME NEW d \in Nat \ {0}, NEW x \in Int, NEW y \in Int, NEW p, NEW q,
         Counts(p, d, x), Counts(q, d, y)
  PROVE  Counts(Minus(p, q), d, x - y)
<1> DEFINE n == Minus(p, q).n  e == Minus(p, q).d
           pn == p.n  pd == p.d  qn == q.n  qd == q.d
<1>1. Minus(p, q) \in Fraction /\ n \in Int /\ e \in Nat \ {0}
  BY MinusValue DEF Counts, Fraction
<1>2. /\ pn \in Int /\ qn \in Int /\ pd \in Nat \ {0} /\ qd \in Nat \ {0}
      /\ pn * d = x * pd /\ qn * d = y * qd
  BY DEF Counts, Fraction
<1>3. n * (pd * qd) = (pn * qd - qn * pd) * e
  BY MinusValue DEF Counts
<1> HIDE DEF n, e, pn, pd, qn, qd
<1>4. (n * d) * (pd * qd) = ((x - y) * e) * (pd * qd)
  <2>1. (n * d) * (pd * qd) = (n * (pd * qd)) * d
    BY <1>1, <1>2
  <2>2. ((pn * qd - qn * pd) * e) * d = ((pn * d) * qd - (qn * d) * pd) * e
    BY <1>1, <1>2
  <2>3. ((x * pd) * qd - (y * qd) * pd) * e = ((x - y) * e) * (pd * qd)
    BY <1>1, <1>2
  <2> QED BY <1>2, <1>3, <2>1, <2>2, <2>3
<1>5. n * d \in Int /\ (x - y) * e \in Int /\ pd * qd \in Nat \ {0}
  BY <1>1, <1>2
<1>6. n * d = (x - y) * e
  BY <1>4, <1>5, MulCancelEq
<1> QED BY <1>1, <1>6 DEF Counts, n, e

LEMMA CountTimes ==
  ASSUME NEW d \in Nat \ {0}, NEW x \in Int, NEW p, Counts(p, d, x), NEW w \in Int
  PROVE  Counts(Times(p, Whole(w)), d, x * w)
<1> DEFINE one == 1
<1>1. Whole(w) \in Fraction /\ one \in Nat \ {0} /\ Whole(w).n * one = w * Whole(w).d
  BY WholeType DEF Whole
<1> HIDE DEF one
<1>2. Times(p, Whole(w)).n * (d * one) = (x * w) * Times(p, Whole(w)).d
  BY <1>1, TimesOf DEF Counts
<1>3. Times(p, Whole(w)) \in Fraction
  BY <1>1, TimesValue DEF Counts
<1>4. d * one = d
  BY DEF one
<1> QED BY <1>2, <1>3, <1>4 DEF Counts

LEMMA CountBounds ==
  ASSUME NEW d \in Nat \ {0}, NEW x \in Int, NEW y \in Int, NEW p, NEW q,
         Counts(p, d, x), Counts(q, d, y)
  PROVE  /\ Counts(Greater(p, q), d, IF x <= y THEN y ELSE x)
         /\ Counts(Smaller(p, q), d, IF x <= y THEN x ELSE y)
<1>1. Leq(p, q) <=> x <= y
  BY CountLeq
<1> QED BY <1>1 DEF Greater, Smaller

LEMMA MinusMono ==
  ASSUME NEW a \in Fraction, NEW b \in Fraction, NEW c \in Fraction, Leq(a, b)
  PROVE  Leq(Minus(a, c), Minus(b, c))
<1> DEFINE k == b.d * c.d  l == a.d * c.d  m == a.d * b.d  d == a.d * (b.d * c.d)
           x == a.n * k  y == b.n * l  z == c.n * m
<1>1. a.d \in Nat \ {0} /\ b.d \in Nat \ {0} /\ c.d \in Nat \ {0}
  BY DEF Fraction
<1>2. k \in Nat \ {0} /\ l \in Nat \ {0} /\ m \in Nat \ {0}
      /\ d = a.d * k /\ d = b.d * l /\ d = c.d * m
  BY <1>1
<1> HIDE DEF k, l, m, d
<1>3. /\ x \in Int /\ y \in Int /\ z \in Int /\ d \in Nat \ {0}
      /\ Counts(a, d, x) /\ Counts(b, d, y) /\ Counts(c, d, z)
  BY <1>2, CountOf
<1> HIDE DEF x, y, z
<1>4. x <= y /\ Counts(Minus(a, c), d, x - z) /\ Counts(Minus(b, c), d, y - z)
  BY <1>3, CountLeq, CountMinus
<1>5. x - z \in Int /\ y - z \in Int /\ x - z <= y - z
  BY <1>3, <1>4
<1> QED BY <1>3, <1>4, <1>5, CountLeq

LEMMA GreaterMono ==
  ASSUME NEW a \in Fraction, NEW b \in Fraction, NEW c \in Fraction, Leq(a, b)
  PROVE  Leq(Greater(c, a), Greater(c, b))
<1>1. /\ Greater(c, a) \in {c, a} /\ Greater(c, b) \in Fraction
      /\ Leq(c, Greater(c, b)) /\ Leq(b, Greater(c, b))
  BY GreaterBounds
<1>2. Leq(a, Greater(c, b))
  BY <1>1, LeqTrans
<1> QED BY <1>1, <1>2

(* Taking away what is not negative.                                       *)
LEMMA MinusLess ==
  ASSUME NEW a \in Fraction, NEW b \in Fraction, b.n >= 0
  PROVE  Leq(Minus(a, b), a)
<1> DEFINE an == a.n  ad == a.d  bn == b.n  bd == b.d
           x == an * bd  y == bn * ad  d == ad * bd
<1>1. an \in Int /\ bn \in Nat /\ ad \in Nat \ {0} /\ bd \in Nat \ {0}
  BY DEF Fraction
<1>2. d = a.d * bd /\ d = b.d * ad
  BY <1>1
<1>3. x \in Int /\ y \in Nat /\ d \in Nat \ {0}
  <2> HIDE DEF an, ad, bn, bd
  <2> QED BY <1>1
<1> HIDE DEF d
<1>4. Counts(a, d, x) /\ Counts(b, d, y)
  BY <1>1, <1>2, CountOf
<1> HIDE DEF x, y
<1>5. Counts(Minus(a, b), d, x - y) /\ x - y \in Int /\ x - y <= x
  BY <1>3, <1>4, CountMinus
<1> QED BY <1>3, <1>4, <1>5, CountLeq

LEMMA PercentMono ==
  ASSUME NEW p \in Int, NEW q \in Int, p <= q, NEW a \in Fraction, a.n >= 0
  PROVE  /\ Leq(Percent(p, a), Percent(q, a))
         /\ q <= 100 => Leq(Percent(q, a), a)
<1> DEFINE n == a.n  d == 100 * a.d  x == p * n  y == q * n
<1>1. n \in Nat /\ a.d \in Nat \ {0} /\ d \in Nat \ {0} /\ a.n * d = (100 * n) * a.d
  BY DEF Fraction
<1>2. Counts(Percent(p, a), d, x) /\ Counts(Percent(q, a), d, y)
  BY PercentValue DEF Counts
<1>3. Counts(a, d, 100 * n)
  BY <1>1 DEF Counts
<1> HIDE DEF n, d
<1>4. x \in Int /\ y \in Int /\ x <= y /\ 100 * n \in Int
  BY <1>1, MulMono
<1>5. q <= 100 => y <= 100 * n
  BY <1>1, MulMono
<1> HIDE DEF x, y
<1>6. Leq(Percent(p, a), Percent(q, a))
  BY <1>1, <1>2, <1>4, CountLeq
<1>7. q <= 100 => Leq(Percent(q, a), a)
  BY <1>1, <1>2, <1>3, <1>4, <1>5, CountLeq
<1> QED BY <1>6, <1>7

(* What part of c in per cent a is.                                        *)
LEMMA PartInPercent ==
  ASSUME NEW a \in Fraction, NEW c \in Fraction, a.n >= 0, c.n > 0, Leq(a, c)
  PROVE  LET s == Over(Times(Whole(100), a), c)
         IN  s \in Fraction /\ s.n >= 0 /\ Leq(s, Whole(100))
<1> DEFINE t == Times(Whole(100), a)  s == Over(t, c)
           an == a.n  ad == a.d  cn == c.n  cd == c.d
           tn == t.n  td == t.d  sn == s.n  sd == s.d
<1>1. Whole(100) \in Fraction /\ Whole(100).n = 100 /\ Whole(100).d = 1
  BY WholeType DEF Whole
<1>2. t \in Fraction /\ tn >= 0 /\ tn * (1 * ad) = (100 * an) * td
  <2>1. t.n * (Whole(100).d * a.d) = (Whole(100).n * a.n) * t.d
    BY <1>1, TimesValue
  <2>2. t \in Fraction
    BY <1>1, TimesValue
  <2>3. Whole(100).n >= 0
    BY <1>1
  <2>4. t.n >= 0
    BY <1>1, <2>3, TimesSign
  <2> HIDE DEF t
  <2> QED BY <1>1, <2>1, <2>2, <2>4
<1>3. s \in Fraction /\ sn >= 0 /\ sn * (td * cn) = (tn * cd) * sd
  BY <1>2, OverValue, OverSign
<1>4. /\ an \in Nat /\ cn \in Nat \ {0} /\ ad \in Nat \ {0} /\ cd \in Nat \ {0}
      /\ an * cd <= cn * ad
  BY DEF Fraction, Leq
<1>5. tn \in Nat /\ td \in Nat \ {0} /\ sn \in Nat /\ sd \in Nat \ {0}
  BY <1>2, <1>3 DEF Fraction
<1>6. Leq(s, Whole(100)) <=> sn * 1 <= 100 * sd
  BY <1>1 DEF Leq
<1> HIDE DEF an, ad, cn, cd, tn, td, sn, sd
<1>7. (sn * (cn * ad)) * td = (100 * sd * (an * cd)) * td
  <2>1. (sn * (cn * ad)) * td = (sn * (td * cn)) * ad
    BY <1>4, <1>5
  <2>2. ((tn * cd) * sd) * ad = (tn * (1 * ad)) * (cd * sd)
    BY <1>4, <1>5
  <2>3. ((100 * an) * td) * (cd * sd) = (100 * sd * (an * cd)) * td
    BY <1>4, <1>5
  <2> QED BY <1>2, <1>3, <2>1, <2>2, <2>3
<1>8. sn * (cn * ad) \in Int /\ 100 * sd * (an * cd) \in Int /\ cn * ad \in Nat \ {0}
  BY <1>4, <1>5
<1>9. sn * (cn * ad) = 100 * sd * (an * cd)
  BY <1>5, <1>7, <1>8, MulCancelEq
<1>10. (100 * sd) * (an * cd) <= (100 * sd) * (cn * ad)
  <2>1. an * cd \in Int /\ cn * ad \in Int /\ 100 * sd \in Nat
    BY <1>4, <1>5
  <2>2. (an * cd) * (100 * sd) <= (cn * ad) * (100 * sd)
    BY <1>4, <2>1, MulMono
  <2>3. (an * cd) * (100 * sd) = (100 * sd) * (an * cd) /\ (cn * ad) * (100 * sd) = (100 * sd) * (cn * ad)
    BY <2>1
  <2> QED BY <2>2, <2>3
<1>11. sn <= 100 * sd
  <2>1. sn * (cn * ad) <= (100 * sd) * (cn * ad)
    BY <1>9, <1>10
  <2>2. 100 * sd \in Int /\ sn \in Int
    BY <1>5
  <2> QED BY <1>8, <2>1, <2>2, MulCancel
<1> QED BY <1>3, <1>5, <1>6, <1>11 DEF sn


-----------------------------------------------------------------------------
(* Types.  Every quantity of a request is a fraction, if it is known.      *)

LEMMA GivenType ==
  ASSUME NEW value \in Nat \cup {None}, NEW default
  PROVE  /\ default \in Value => Given(value, default) \in Value
         /\ default \in Fraction => Given(value, default) \in Fraction
         /\ default.n >= 0 => Given(value, default).n >= 0
         /\ value # None => Given(value, default) = Whole(value) /\ Whole(value) \in Fraction
  BY WholeType DEF Given, Value, Whole

LEMMA RoundedType ==
  ASSUME NEW a \in Fraction
  PROVE  /\ Rounded(a) \in Fraction
         /\ a.n >= 0 => Rounded(a).n >= 0
<1>1. Nearest(a) \in Int /\ Rounded(a) \in Fraction /\ Rounded(a).n = Nearest(a)
  BY NearestBounds, WholeType DEF Rounded, Whole
<1>2. Nearest(Zero) = 0
  BY DEF Nearest, Zero, Whole
<1>3. a.n >= 0 => Nearest(Zero) <= Nearest(a)
  BY ZeroType, Positive, NearestMono
<1> QED BY <1>1, <1>2, <1>3

LEMMA ModelType ==
  ASSUME NEW v \in Vehicle
  PROVE  Catalog[v.model] \in Capability
  BY CatalogAssumption DEF Vehicle

LEMMA ModularType ==
  ASSUME NEW c \in Capability, c.module # None, NEW count \in Nat \ {0}, NEW used \in Nat \ {0}
  PROVE  Modular(c, count, used) \in Fraction /\ Modular(c, count, used).n > 0
<1>1. c.module \in Nat \ {0} /\ c.usable \in Nat \ {0} /\ c.battery \in Nat \ {0}
  BY DEF Capability
<1>2. c.module * count * c.usable > 0 /\ c.module * count * c.usable \in Int
  BY <1>1
<1>3. c.battery * used \in Nat \ {0}
  BY <1>1
<1> QED BY <1>2, <1>3, QValue, QSign DEF Modular

LEMMA CapacityType ==
  ASSUME NEW v \in Vehicle
  PROVE  UsableCapacity(v) \in Fraction /\ UsableCapacity(v).n > 0
<1> DEFINE c == Catalog[v.model]
           counted == /\ c.module # None /\ v.installed # None
                      /\ v.installed % 2 = 0 /\ v.installed \div 2 \in 1..c.modules
<1>1. c \in Capability /\ v.installed \in Nat \cup {None}
  BY ModelType DEF Vehicle
<1>2. UsableCapacity(v) = IF counted THEN Modular(c, v.installed, 2) ELSE Whole(c.usable)
  BY DEF UsableCapacity
<1> HIDE DEF c
<1>3. CASE counted
  <2>1. v.installed \in Nat /\ v.installed # 0
    BY <1>1, <1>3
  <2> QED BY <1>1, <1>2, <1>3, <2>1, ModularType
<1>4. CASE ~counted
  <2>1. c.usable \in Nat \ {0}
    BY <1>1 DEF Capability
  <2> HIDE DEF counted
  <2>2. UsableCapacity(v) = Whole(c.usable)
    BY <1>2, <1>4
  <2> QED BY <2>1, <2>2, WholeType DEF Whole
<1> QED BY <1>3, <1>4

LEMMA ConsumptionType ==
  ASSUME NEW x \in Context
  PROVE  Consumption(x) \in Fraction /\ Consumption(x).n > 0
<1>1. Catalog[x.vehicle.model].consumption \in Nat \ {0}
  BY ModelType DEF Context, Capability
<1>2. x.consumption \in (Nat \ {0}) \cup {None}
  BY DEF Context
<1> DEFINE k == IF x.consumption \in {None, 0} THEN Catalog[x.vehicle.model].consumption ELSE x.consumption
<1>3. k \in Nat \ {0} /\ Consumption(x) = Whole(k)
  BY <1>1, <1>2 DEF Consumption
<1> QED BY <1>3, WholeType DEF Whole

LEMMA PolicyReserveType ==
  ASSUME NEW trip \in Value
  PROVE  PolicyReserve(trip) \in Fraction /\ PolicyReserve(trip).n >= 0
<1>1. Whole(Km) \in Fraction /\ Whole(Km).n >= 0
  BY PolicyAssumption, WholeType DEF Whole
<1>2. CASE trip # None /\ ~Leq(trip, Zero)
  <2>1. Percent(15, trip) \in Fraction
    BY <1>2, PercentValue DEF Value
  <2>2. PolicyReserve(trip) = Greater(Whole(Km), Percent(15, trip))
    BY <1>2 DEF PolicyReserve
  <2>3. Leq(Zero, Greater(Whole(Km), Percent(15, trip)))
    BY <1>1, <2>1, GreaterBounds, LeqTrans, Positive, ZeroType
  <2> QED BY <1>1, <2>1, <2>2, <2>3, GreaterBounds, Positive
<1>3. CASE trip = None \/ Leq(trip, Zero)
  BY <1>1, <1>3 DEF PolicyReserve
<1> QED BY <1>2, <1>3

LEMMA RemainingType ==
  ASSUME NEW x \in Context
  PROVE  Remaining(x) \in Value
<1>1. /\ x.trip \in Nat \cup {None} /\ x.planned \in Nat \cup {None}
      /\ x.travelled \in Nat \cup {None}
  BY DEF Context
<1>2. Given(x.travelled, Zero) \in Fraction
  BY <1>1, GivenType, ZeroType
<1>3. ASSUME x.planned # None
      PROVE  Greater(Zero, Minus(Whole(x.planned), Given(x.travelled, Zero))) \in Fraction
  <2>1. Minus(Whole(x.planned), Given(x.travelled, Zero)) \in Fraction
    BY <1>1, <1>2, <1>3, WholeType, MinusValue
  <2> QED BY <2>1, ZeroType, GreaterBounds
<1>4. x.trip # None => Whole(x.trip) \in Fraction
  BY <1>1, WholeType
<1> QED BY <1>3, <1>4 DEF Remaining, Value

LEMMA EnergyLeftType ==
  ASSUME NEW x \in Context, x.soc # None, NEW capacity \in Fraction
  PROVE  EnergyLeft(x, capacity) \in Fraction /\ RangeLeft(x, capacity) \in Fraction
<1>1. x.soc \in Int /\ x.energy \in Nat \cup {None} /\ x.range \in Nat \cup {None}
  BY DEF Context
<1>2. EnergyLeft(x, capacity) \in Fraction
  BY <1>1, PercentValue, GivenType DEF EnergyLeft
<1>3. Times(Whole(Km), EnergyLeft(x, capacity)) \in Fraction
  BY <1>2, WholeType, PolicyAssumption, TimesValue
<1>4. Over(Times(Whole(Km), EnergyLeft(x, capacity)), Consumption(x)) \in Fraction
  BY <1>3, ConsumptionType, OverValue
<1> QED BY <1>1, <1>2, <1>4, GivenType DEF RangeLeft

(* What the detection reports.                                             *)
LEMMA NeedType ==
  ASSUME NEW x \in Context, NEW capacity \in Fraction
  PROVE  /\ EvaluateNeed(x, capacity).reserve \in Value
         /\ EvaluateNeed(x, capacity).trip \in Value
         /\ EvaluateNeed(x, capacity).energy \in Value
         /\ EvaluateNeed(x, capacity).range \in Value
<1> DEFINE low == BelowSafe(x, capacity)
           state == Assessment(Remaining(x), Reserve(x), EnergyLeft(x, capacity),
                               RangeLeft(x, capacity), low)
<1>1. ASSUME NEW reason
      PROVE  /\ Unassessed(reason).reserve \in Value /\ Unassessed(reason).trip \in Value
             /\ Unassessed(reason).energy \in Value /\ Unassessed(reason).range \in Value
  BY DEF Unassessed, Value
<1>2. ASSUME x.soc # None
      PROVE  /\ state.reserve \in Value /\ state.trip \in Value
             /\ state.energy \in Value /\ state.range \in Value
  <2>1. EnergyLeft(x, capacity) \in Fraction /\ RangeLeft(x, capacity) \in Fraction
    BY <1>2, EnergyLeftType
  <2>2. Remaining(x) \in Value
    BY RemainingType
  <2>3. Reserve(x) \in Fraction
    BY <2>2, PolicyReserveType, GivenType DEF Reserve, Context
  <2>4. Remaining(x) # None => Rounded(Remaining(x)) \in Fraction
    BY <2>2, RoundedType DEF Value
  <2>5. /\ state.reserve = Rounded(Reserve(x)) /\ state.energy = Rounded(EnergyLeft(x, capacity))
        /\ state.range = Rounded(RangeLeft(x, capacity))
        /\ state.trip = IF Remaining(x) = None THEN None ELSE Rounded(Remaining(x))
    BY DEF Assessment
  <2> QED BY <2>1, <2>3, <2>4, <2>5, RoundedType DEF Value
<1> HIDE DEF state
<1>3. \/ \E reason : EvaluateNeed(x, capacity) = Unassessed(reason)
      \/ x.soc # None /\ EvaluateNeed(x, capacity) = state
  BY DEF EvaluateNeed, state
<1> QED BY <1>1, <1>2, <1>3

-----------------------------------------------------------------------------
(* Requests.                                                               *)

Sound(r) ==
  /\ r.vehicle \in Vehicle
  /\ r.usable \in Fraction /\ r.usable.n > 0
  /\ r.consumption \in Fraction /\ r.consumption.n > 0
  /\ r.soc \in Value /\ r.energy \in Value /\ r.range \in Value
  /\ r.trip \in Value /\ r.reserve \in Value
  /\ r.range \in Fraction /\ r.range.n = 0 => r.range = Zero

LEMMA WholeZero ==
  ASSUME NEW x \in Int, Whole(x).n = 0
  PROVE  Whole(x) = Zero
  BY DEF Whole, Zero

LEMMA RequestFields ==
  ASSUME NEW x
  PROVE  LET r == EnergyRequest(x)
             capacity == UsableCapacity(x.vehicle)
             state == EvaluateNeed(x, capacity)
             auto == x.service = None
         IN  /\ r.vehicle = x.vehicle
             /\ r.usable = capacity
             /\ r.consumption = Consumption(x)
             /\ r.soc = Given(x.soc, None)
             /\ r.energy = Given(x.energy, state.energy)
             /\ r.range = IF auto THEN state.range ELSE Given(x.range, state.range)
             /\ r.trip = IF auto THEN state.trip ELSE Given(x.trip, state.trip)
             /\ r.reserve = IF auto THEN state.reserve ELSE Given(x.reserve, state.reserve)
             /\ r.explicitRange = (x.range # None)
             /\ DOMAIN r = {"source", "vehicle", "need", "requested", "resolved", "valid", "reason",
                            "soc", "energy", "range", "trip", "reserve", "explicitRange",
                            "consumption", "usable"}
  BY DEF EnergyRequest, Requested

LEMMA RequestSound ==
  ASSUME NEW x \in Context
  PROVE  Sound(EnergyRequest(x))
<1> DEFINE r == EnergyRequest(x)
           capacity == UsableCapacity(x.vehicle)
           state == EvaluateNeed(x, capacity)
<1>1. /\ x.vehicle \in Vehicle /\ x.soc \in Nat \cup {None} /\ x.energy \in Nat \cup {None}
      /\ x.range \in Nat \cup {None} /\ x.trip \in Nat \cup {None} /\ x.reserve \in Nat \cup {None}
  BY DEF Context
<1>2. capacity \in Fraction /\ capacity.n > 0
  BY <1>1, CapacityType
<1>3. /\ state.reserve \in Value /\ state.trip \in Value
      /\ state.energy \in Value /\ state.range \in Value
  BY <1>2, NeedType
<1>4. None \in Value
  BY DEF Value
<1>5. state.range \in Fraction => \E y \in Int : state.range = Whole(y)
  <2>1. state.range = None \/ (x.soc # None /\ state.range = Rounded(RangeLeft(x, capacity)))
    BY DEF EvaluateNeed, Unassessed, Assessment
  <2>2. None \notin Fraction
    BY CatalogAssumption
  <2>3. x.soc # None => Nearest(RangeLeft(x, capacity)) \in Int
    BY <1>2, EnergyLeftType, NearestBounds
  <2> QED BY <2>1, <2>2, <2>3 DEF Rounded
<1> HIDE DEF state, capacity
<1>6. /\ Given(x.soc, None) \in Value /\ Given(x.energy, state.energy) \in Value
      /\ Given(x.range, state.range) \in Value /\ Given(x.trip, state.trip) \in Value
      /\ Given(x.reserve, state.reserve) \in Value
  BY <1>1, <1>3, <1>4, GivenType
<1>7. /\ r.vehicle = x.vehicle /\ r.usable = capacity /\ r.consumption = Consumption(x)
      /\ r.soc \in Value /\ r.energy \in Value /\ r.range \in Value
      /\ r.trip \in Value /\ r.reserve \in Value
      /\ r.range = state.range \/ r.range = Given(x.range, state.range)
  BY <1>3, <1>6, RequestFields DEF state, capacity
<1>8. r.range \in Fraction /\ r.range.n = 0 => r.range = Zero
  <2>1. r.range \in Fraction => \E y \in Int : r.range = Whole(y)
    BY <1>1, <1>5, <1>7 DEF Given
  <2> QED BY <2>1, WholeZero
<1> HIDE DEF r
<1>9. Sound(r)
  BY <1>1, <1>2, <1>7, <1>8, ConsumptionType DEF Sound
<1> QED BY <1>9 DEF r

LEMMA CurrentType ==
  ASSUME NEW r, Sound(r), r.soc # None
  PROVE  /\ Current(r, r.usable) \in Fraction
         /\ ~Negative(r.soc) /\ ~Negative(r.energy) => Current(r, r.usable).n >= 0
<1>1. CASE r.energy # None
  BY <1>1, Positive DEF Sound, Value, Current, Negative, Fraction
<1>2. CASE r.energy = None
  <2>1. r.soc \in Fraction /\ r.usable \in Fraction /\ r.usable.n > 0 /\ r.usable.n \in Int
    BY DEF Sound, Value, Fraction
  <2>2. Q(1, 100) \in Fraction /\ Q(1, 100).n > 0 /\ Q(1, 100).n \in Int
    BY QValue, QSign DEF Fraction
  <2>3. Times(r.soc, r.usable) \in Fraction
    BY <2>1, TimesValue
  <2>4. Current(r, r.usable) = Times(Q(1, 100), Times(r.soc, r.usable))
    BY <1>2 DEF Current
  <2>5. ~Negative(r.soc) => r.soc.n >= 0
    BY <2>1, Positive DEF Negative, Fraction
  <2>6. r.soc.n >= 0 => Times(Q(1, 100), Times(r.soc, r.usable)).n >= 0
    BY <2>1, <2>2, <2>3, TimesSign
  <2> QED BY <2>2, <2>3, <2>4, <2>5, <2>6, TimesValue
<1> QED BY <1>1, <1>2

(* The consumption of a basis, which a range above zero makes positive.    *)
LEMMA PerUnitType ==
  ASSUME NEW r, Sound(r), r.soc # None, r.range \in Fraction, r.range.n >= 0
  PROVE  /\ PerUnit(r) \in Fraction
         /\ ~Negative(r.soc) /\ ~Negative(r.energy) /\ PerUnit(r) # Zero => PerUnit(r).n > 0
<1>1. Km \in Nat \ {0} /\ Whole(Km) \in Fraction /\ Whole(Km).n = Km
  BY PolicyAssumption, WholeType DEF Whole
<1>2. CASE ~r.explicitRange
  <2>1. PerUnit(r) = Over(r.consumption, Whole(Km))
    BY <1>2 DEF PerUnit
  <2>2. r.consumption \in Fraction /\ r.consumption.n > 0 /\ Whole(Km).n > 0
    BY <1>1 DEF Sound
  <2>3. Over(r.consumption, Whole(Km)) \in Fraction
    BY <1>1, <2>2, OverValue
  <2>4. Over(r.consumption, Whole(Km)).n > 0
    BY <1>1, <2>2, OverSign
  <2> QED BY <2>1, <2>3, <2>4
<1>3. CASE r.explicitRange /\ r.range = Zero
  <2>1. Catalog[r.vehicle.model].consumption \in Nat \ {0}
    BY ModelType DEF Sound, Capability
  <2>2. PerUnit(r) = Q(Catalog[r.vehicle.model].consumption, Km)
    BY <1>3 DEF PerUnit
  <2> QED BY <1>1, <2>1, <2>2, QValue, QSign
<1>4. CASE r.explicitRange /\ r.range # Zero
  <2>1. r.range.n > 0
    BY <1>4 DEF Sound, Fraction
  <2>2. PerUnit(r) = Over(Current(r, r.usable), r.range)
    BY <1>4 DEF PerUnit
  <2>3. Current(r, r.usable) \in Fraction
    BY CurrentType
  <2>4. PerUnit(r) \in Fraction
    BY <2>1, <2>2, <2>3, OverValue
  <2>5. ASSUME ~Negative(r.soc), ~Negative(r.energy), PerUnit(r) # Zero
        PROVE  PerUnit(r).n > 0
    <3>1. Current(r, r.usable).n >= 0 /\ Current(r, r.usable).n # 0 /\ Current(r, r.usable).n \in Int
      BY <2>1, <2>2, <2>3, <2>5, CurrentType, OverSign DEF Fraction
    <3> QED BY <2>1, <2>2, <2>3, <3>1, OverSign
  <2> QED BY <2>4, <2>5
<1> QED BY <1>2, <1>3, <1>4

LEMMA ReserveSign ==
  ASSUME NEW x \in Context, EnergyRequest(x).reserve # None
  PROVE  EnergyRequest(x).reserve \in Fraction /\ EnergyRequest(x).reserve.n >= 0
<1> DEFINE capacity == UsableCapacity(x.vehicle)
           state == EvaluateNeed(x, capacity)
           stated == Given(x.reserve, state.reserve)
<1>1. Reserve(x) \in Fraction /\ Reserve(x).n >= 0
  BY RemainingType, PolicyReserveType, GivenType DEF Reserve, Context
<1>2. state.reserve # None => state.reserve = Rounded(Reserve(x))
  BY DEF EvaluateNeed, Unassessed, Assessment
<1>3. state.reserve # None => state.reserve \in Fraction /\ state.reserve.n >= 0
  BY <1>1, <1>2, RoundedType
<1> HIDE DEF state
<1>4. x.reserve # None => stated = Whole(x.reserve) /\ stated \in Fraction /\ stated.n >= 0
  BY WholeType DEF Given, Whole, Context
<1>5. x.reserve = None => stated = state.reserve
  BY DEF Given
<1>6. EnergyRequest(x).reserve = state.reserve \/ EnergyRequest(x).reserve = stated
  BY RequestFields DEF state
<1> HIDE DEF stated
<1> QED BY <1>3, <1>4, <1>5, <1>6

-----------------------------------------------------------------------------
(* The drive to the destination.                                           *)

LEMMA ArrivedFields ==
  ASSUME NEW x, NEW leg
  PROVE  LET r == EnergyRequest(x)
             q == Arrived(r, leg)
             left == Greater(Zero, Minus(Current(r, r.usable), Times(Whole(leg.distance), PerUnit(r))))
         IN  /\ q.vehicle = r.vehicle /\ q.usable = r.usable /\ q.consumption = r.consumption
             /\ q.explicitRange = r.explicitRange /\ q.reserve = r.reserve
             /\ q.source = r.source /\ q.requested = r.requested /\ q.resolved = r.resolved
             /\ q.need = r.need /\ q.valid = r.valid /\ q.reason = r.reason
             /\ q.energy = left /\ q.soc = Over(Times(Whole(100), left), r.usable)
             /\ q.range = Minus(r.range, Whole(leg.distance)) /\ q.trip = Zero
<1> DEFINE r == EnergyRequest(x)
<1>1. DOMAIN r = {"source", "vehicle", "need", "requested", "resolved", "valid", "reason", "soc",
                  "energy", "range", "trip", "reserve", "explicitRange", "consumption", "usable"}
  BY RequestFields
<1> HIDE DEF r
<1>2. LET q == Arrived(r, leg)
          left == Greater(Zero, Minus(Current(r, r.usable), Times(Whole(leg.distance), PerUnit(r))))
      IN  /\ q.vehicle = r.vehicle /\ q.usable = r.usable /\ q.consumption = r.consumption
          /\ q.explicitRange = r.explicitRange /\ q.reserve = r.reserve
          /\ q.source = r.source /\ q.requested = r.requested /\ q.resolved = r.resolved
          /\ q.need = r.need /\ q.valid = r.valid /\ q.reason = r.reason
          /\ q.energy = left /\ q.soc = Over(Times(Whole(100), left), r.usable)
          /\ q.range = Minus(r.range, Whole(leg.distance)) /\ q.trip = Zero
  BY <1>1 DEF Arrived
<1> QED BY <1>2 DEF r

(* What can reach the destination arrives there with a range.              *)
LEMMA ReachesType ==
  ASSUME NEW r, Sound(r), NEW leg \in Leg, ReachesDestination(r, leg),
         r.reserve # None => r.reserve.n >= 0
  PROVE  r.range \in Fraction /\ r.range.n >= 0
<1>1. r.range \in Fraction /\ Whole(leg.distance) \in Fraction /\ Whole(leg.distance).n >= 0
  BY WholeType DEF ReachesDestination, Sound, Value, Leg, Whole
<1> DEFINE kept == IF r.reserve # None THEN r.reserve ELSE Zero
<1>2. kept \in Fraction /\ kept.n >= 0 /\ Leq(Plus(Whole(leg.distance), kept), r.range)
  BY ZeroType DEF ReachesDestination, Sound, Value
<1> HIDE DEF kept
<1>3. Plus(Whole(leg.distance), kept) \in Fraction /\ Leq(Zero, Plus(Whole(leg.distance), kept))
  BY <1>1, <1>2, PlusValue, PlusSign, Positive
<1> QED BY <1>1, <1>2, <1>3, LeqTrans, ZeroType, Positive

LEMMA ArrivedSound ==
  ASSUME NEW x \in Context, NEW leg \in Leg,
         EnergyRequest(x).soc # None,
         EnergyRequest(x).range \in Fraction, EnergyRequest(x).range.n >= 0
  PROVE  Sound(Arrived(EnergyRequest(x), leg)) /\ Arrived(EnergyRequest(x), leg).soc # None
<1> DEFINE r == EnergyRequest(x)
           q == Arrived(r, leg)
           way == Whole(leg.distance)
           left == Greater(Zero, Minus(Current(r, r.usable), Times(way, PerUnit(r))))
<1>1. Sound(r)
  BY RequestSound
<1>2. /\ q.vehicle = r.vehicle /\ q.usable = r.usable /\ q.consumption = r.consumption
      /\ q.explicitRange = r.explicitRange /\ q.reserve = r.reserve
      /\ q.energy = left /\ q.soc = Over(Times(Whole(100), left), r.usable)
      /\ q.range = Minus(r.range, way) /\ q.trip = Zero
  BY ArrivedFields
<1> HIDE DEF r, q
<1>3. way \in Fraction /\ Whole(100) \in Fraction
  BY WholeType DEF Leg
<1>4. Current(r, r.usable) \in Fraction /\ PerUnit(r) \in Fraction
  BY <1>1, CurrentType, PerUnitType DEF r
<1>5. left \in Fraction
  BY <1>3, <1>4, TimesValue, MinusValue, GreaterBounds, ZeroType
<1> HIDE DEF left
<1>6. Over(Times(Whole(100), left), r.usable) \in Fraction
  BY <1>1, <1>3, <1>5, TimesValue, OverValue DEF Sound
<1>7. /\ Minus(r.range, way) \in Fraction
      /\ Minus(r.range, way).n = 0 => Minus(r.range, way) = Zero
  <2>1. r.range \in Fraction
    BY DEF r
  <2>2. r.range.n * way.d - way.n * r.range.d \in Int /\ r.range.d * way.d \in Nat \ {0}
    BY <1>3, <2>1 DEF Fraction
  <2>3. Q(r.range.n * way.d - way.n * r.range.d, r.range.d * way.d) = Minus(r.range, way)
    BY DEF Minus
  <2> HIDE DEF way
  <2> QED BY <2>2, <2>3, QValue, QSign DEF Fraction
<1>8. Sound(q)
  BY <1>1, <1>2, <1>5, <1>6, <1>7, ZeroType DEF Sound, Value
<1>9. q.soc # None
  BY <1>2, <1>6, CatalogAssumption
<1> QED BY <1>8, <1>9 DEF q, r

-----------------------------------------------------------------------------
(* What eligibility says of a candidate.                                   *)

LEMMA NoneEligible == EligiblePairs(<<>>) = {}
  BY DEF EligiblePairs

LEMMA VerdictFields ==
  ASSUME NEW reason, NEW metrics, NEW op, NEW estimate
  PROVE  /\ Verdict(reason, metrics, op, estimate).eligible <=> reason = "ELIGIBLE"
         /\ Verdict(reason, metrics, op, estimate).metrics = metrics
         /\ Verdict(reason, metrics, op, estimate).op = op
         /\ Verdict(reason, metrics, op, estimate).estimate = estimate
  BY Zenon DEF Verdict

Onward(to, metrics) == IF to = None THEN None ELSE metrics.onward.distance

EstimateOf(r, c, to, metrics, op) ==
  Estimate(r, c.service, metrics.distance, Onward(to, metrics), op.serviceTime)

(* Necessary and sufficient: nothing stands in the way of the pair, and    *)
(* the battery can be filled there.                                        *)
LEMMA EligibleMeans ==
  ASSUME NEW r, NEW c, NEW to, NEW metrics, NEW op
  PROVE  LET v == Evaluated(r, c, to, metrics, op)
             feasible == metrics.reachable /\ FeasibleTo(metrics.distance, r)
         IN  /\ v.eligible <=>
                   /\ Eligibility(metrics.reachable, Compatible(r.vehicle, c), op, c.service, feasible)
                        = "ELIGIBLE"
                   /\ to # None => metrics.onward # None
                   /\ EstimateOf(r, c, to, metrics, op).status = "AVAILABLE"
             /\ v.metrics = metrics /\ v.op = op
             /\ v.eligible => v.estimate = EstimateOf(r, c, to, metrics, op)
<1> DEFINE feasible == metrics.reachable /\ FeasibleTo(metrics.distance, r)
           reason == Eligibility(metrics.reachable, Compatible(r.vehicle, c), op, c.service, feasible)
           estimate == EstimateOf(r, c, to, metrics, op)
           v == Evaluated(r, c, to, metrics, op)
<1>1. v = IF reason # "ELIGIBLE" THEN Verdict(reason, metrics, op, None)
          ELSE IF to # None /\ metrics.onward = None THEN Verdict("UNREACHABLE", metrics, op, None)
          ELSE Verdict(Outcome(estimate), metrics, op, estimate)
  BY DEF Evaluated, EstimateOf, Onward, Estimated
<1>2. Outcome(estimate) = "ELIGIBLE" <=> estimate.status = "AVAILABLE"
  BY DEF Outcome
<1> HIDE DEF reason, estimate, v
<1>3. CASE reason # "ELIGIBLE"
  <2>1. v = Verdict(reason, metrics, op, None)
    BY <1>1, <1>3
  <2>2. /\ Verdict(reason, metrics, op, None).eligible <=> reason = "ELIGIBLE"
        /\ Verdict(reason, metrics, op, None).metrics = metrics
        /\ Verdict(reason, metrics, op, None).op = op
        /\ Verdict(reason, metrics, op, None).estimate = None
    BY VerdictFields
  <2>3. ~v.eligible /\ v.metrics = metrics /\ v.op = op
    BY <1>3, <2>1, <2>2
  <2> QED BY <1>3, <2>3 DEF reason, v
<1>4. CASE reason = "ELIGIBLE" /\ to # None /\ metrics.onward = None
  <2>1. v = Verdict("UNREACHABLE", metrics, op, None) /\ "UNREACHABLE" # "ELIGIBLE"
    BY <1>1, <1>4
  <2>2. /\ Verdict("UNREACHABLE", metrics, op, None).eligible <=> "UNREACHABLE" = "ELIGIBLE"
        /\ Verdict("UNREACHABLE", metrics, op, None).metrics = metrics
        /\ Verdict("UNREACHABLE", metrics, op, None).op = op
        /\ Verdict("UNREACHABLE", metrics, op, None).estimate = None
    BY VerdictFields
  <2>3. ~v.eligible /\ v.metrics = metrics /\ v.op = op
    BY <2>1, <2>2
  <2> QED BY <1>4, <2>3 DEF v
<1>5. CASE reason = "ELIGIBLE" /\ ~(to # None /\ metrics.onward = None)
  <2>1. v = Verdict(Outcome(estimate), metrics, op, estimate)
    BY <1>1, <1>5
  <2>2. /\ Verdict(Outcome(estimate), metrics, op, estimate).eligible <=> Outcome(estimate) = "ELIGIBLE"
        /\ Verdict(Outcome(estimate), metrics, op, estimate).metrics = metrics
        /\ Verdict(Outcome(estimate), metrics, op, estimate).op = op
        /\ Verdict(Outcome(estimate), metrics, op, estimate).estimate = estimate
    BY VerdictFields
  <2>3. /\ v.eligible <=> estimate.status = "AVAILABLE"
        /\ v.metrics = metrics /\ v.op = op /\ v.estimate = estimate
    BY <1>2, <2>1, <2>2
  <2> QED BY <1>5, <2>3 DEF v, reason, estimate
<1> QED BY <1>3, <1>4, <1>5

LEMMA EligibilityMeans ==
  ASSUME NEW reachable, NEW compatible, NEW op, NEW service, NEW feasible
  PROVE  Eligibility(reachable, compatible, op, service, feasible) = "ELIGIBLE" <=>
           /\ reachable /\ compatible /\ op.status = "OPEN"
           /\ ~(service = "BATTERY_SWAP" /\ op.slots > 0 /\ op.batteries = 0)
           /\ op.capacity # 0 /\ ~(op.wait # None /\ op.wait > MaxWait)
           /\ feasible
  BY DEF Eligibility

LEMMA EstimateMeans ==
  ASSUME NEW r, NEW service, NEW distance, NEW onward, NEW time
  PROVE  LET e == Estimate(r, service, distance, onward, time)
             arrival == Arriving(r, distance)
             required == Required(r, onward)
             swap == service = "BATTERY_SWAP"
             target == IF swap THEN Percent(SwapPct, r.usable) ELSE Greater(arrival, required)
         IN  /\ e.status = "AVAILABLE" <=>
                   /\ BasisValid(r) /\ PerUnit(r) # Zero /\ ~Less(arrival, Zero)
                   /\ ~Less(r.usable, required)
                   /\ ~(swap /\ onward # None /\ Less(target, required))
             /\ e.status = "AVAILABLE" =>
                   /\ e.departure = target
                   /\ e.duration = IF swap THEN Whole(time)
                                   ELSE ChargingTime(r.vehicle.model, arrival, target, r.usable)
<1> DEFINE arrival == Arriving(r, distance)
           required == Required(r, onward)
           swap == service = "BATTERY_SWAP"
           target == IF swap THEN Percent(SwapPct, r.usable) ELSE Greater(arrival, required)
           full == \/ Less(r.usable, required)
                   \/ swap /\ onward # None /\ Less(target, required)
           time0 == IF swap THEN Whole(time)
                    ELSE ChargingTime(r.vehicle.model, arrival, target, r.usable)
           e == Estimate(r, service, distance, onward, time)
<1>1. e = IF ~BasisValid(r) THEN NoEstimate("UNAVAILABLE", "BASIS")
          ELSE IF PerUnit(r) = Zero THEN NoEstimate("UNAVAILABLE", "CONSUMPTION")
          ELSE IF Less(arrival, Zero) THEN NoEstimate("INFEASIBLE", "INSUFFICIENT_SOC_TO_REACH")
          ELSE IF full THEN NoEstimate("INFEASIBLE", "INSUFFICIENT_DEPARTURE_ENERGY")
          ELSE [status |-> "AVAILABLE", reason |-> None,
                arrival |-> arrival, departure |-> target, duration |-> time0]
  BY DEF Estimate, Replenished
<1> HIDE DEF arrival, required, target, full, time0, e
<1>2. \A s, t : s # "AVAILABLE" => NoEstimate(s, t).status # "AVAILABLE"
  BY DEF NoEstimate
<1>3. /\ e.status = "AVAILABLE" <=> BasisValid(r) /\ PerUnit(r) # Zero /\ ~Less(arrival, Zero) /\ ~full
      /\ e.status = "AVAILABLE" => e.departure = target /\ e.duration = time0
  BY <1>1, <1>2
<1> QED BY <1>3, Zenon DEF e, arrival, required, target, full, time0

(* The pairs a search offers.                                              *)
LEMMA OfferedMeans ==
  ASSUME NEW r, NEW net, NEW from, NEW to, NEW state, NEW c
  PROVE  LET found == Candidates(r, net, from, to, state)
             metrics == Metrics(net, from, c.station, to)
             op == Operational(state[c.station], c.service)
         IN  /\ c \in EligiblePairs(found) <=>
                   /\ SearchStatus(r) = "SUCCESS" /\ c \in Expanded(r)
                   /\ Evaluated(r, c, to, metrics, op).eligible
             /\ c \in EligiblePairs(found) => found[c] = Evaluated(r, c, to, metrics, op)
  BY DEF EligiblePairs, Candidates, Evaluate

LEMMA MetricsType ==
  ASSUME NEW net \in [Places \X Places -> Leg \cup {None}], NEW from \in Places,
         NEW station \in Stations, NEW to \in Places \cup {None},
         Metrics(net, from, station, to).reachable
  PROVE  LET metrics == Metrics(net, from, station, to)
         IN  /\ metrics.distance \in Nat /\ metrics.duration \in Nat
             /\ metrics.onward \in Leg \cup {None}
             /\ metrics.detourDistance \in Nat \cup {None}
             /\ metrics.detourDuration \in Nat \cup {None}
             /\ to = None => metrics.onward = None
<1> DEFINE metrics == Metrics(net, from, station, to)
           leg1 == net[<<from, station>>]
           leg2 == IF to = None THEN None ELSE net[<<station, to>>]
           direct == IF to = None THEN None ELSE net[<<from, to>>]
           compared == leg2 # None /\ direct # None
           far == IF compared THEN Detour(leg1.distance + leg2.distance, direct.distance) ELSE None
           long == IF compared THEN Detour(leg1.duration + leg2.duration, direct.duration) ELSE None
<1>1. leg1 \in Leg \cup {None} /\ leg2 \in Leg \cup {None} /\ direct \in Leg \cup {None}
  BY DEF Places
<1>2. metrics = IF leg1 = None THEN NoMetrics
                ELSE [reachable |-> TRUE, distance |-> leg1.distance, duration |-> leg1.duration,
                      onward |-> leg2, detourDistance |-> far, detourDuration |-> long]
  BY DEF Metrics
<1>3. to = None => leg2 = None
  OBVIOUS
<1> HIDE DEF leg1, leg2, direct
<1>4. far \in Nat \cup {None} /\ long \in Nat \cup {None}
  <2>1. CASE compared /\ leg1 # None
    <3>1. /\ leg1.distance \in Nat /\ leg2.distance \in Nat /\ direct.distance \in Nat
          /\ leg1.duration \in Nat /\ leg2.duration \in Nat /\ direct.duration \in Nat
      BY <1>1, <2>1 DEF Leg
    <3> QED BY <3>1 DEF Detour
  <2>2. CASE ~compared
    BY <2>2
  <2>3. leg1 # None
    BY <1>2 DEF NoMetrics
  <2> QED BY <2>1, <2>2, <2>3
<1> HIDE DEF far, long
<1>5. leg1 # None /\ leg1.distance \in Nat /\ leg1.duration \in Nat
  <2>1. leg1 # None
    BY <1>2 DEF NoMetrics, metrics
  <2> QED BY <1>1, <2>1 DEF Leg
<1> QED BY <1>1, <1>2, <1>3, <1>4, <1>5

-----------------------------------------------------------------------------
(* The invariant: where the request that is searched for comes from, and   *)
(* what the candidates and their order are of.                             *)

Chosen ==
  /\ live = EnergyRequest(ctx)
  /\ IF mode = "AFTER_DESTINATION"
     THEN /\ prefix = network[<<"origin", "destination">>]
          /\ ReachesDestination(live, prefix) /\ BasisValid(live) /\ PerUnit(live) # Zero
          /\ request = Arrived(live, prefix)
     ELSE prefix = None /\ request = live

Found ==
  /\ Chosen /\ ~Refused(request)
  /\ candidates = Candidates(request, network, From, To, rows)

Ordered ==
  /\ delay \in Delays /\ assessed \in [EligiblePairs(candidates) -> Assessments]
  /\ ranked = Ranking(delay, assessed)

Consistent ==
  /\ ctx \in Contexts /\ mode \in Modes /\ network \in Networks /\ rows \in Operations
  /\ pc \in {"demand", "drive", "search"} => candidates = <<>>
  /\ pc = "demand" => prefix = None
  /\ pc = "drive" => /\ mode = "AFTER_DESTINATION"
                     /\ live = EnergyRequest(ctx) /\ request = live
  /\ pc = "search" => Chosen
  /\ pc = "rank" => Found
  /\ candidates = <<>> \/ Found
  /\ pc # "done" => ranked = <<>>
  /\ ranked = <<>> \/ Ordered

LEMMA ConsistentInit == Init => Consistent
  BY DEF Init, Consistent

(* What the order is computed from.                                        *)
LEMMA SameRanking ==
  ASSUME UNCHANGED <<prefix, candidates>>, NEW factor, NEW a
  PROVE  Ranking(factor, a)' = Ranking(factor, a)
BY DEF Ranking, Sorted, Totals, Key, Cost, Reference, Total, Travel, Start

LEMMA ConsistentStep == Consistent /\ [Next]_vars => Consistent'
<1> SUFFICES ASSUME Consistent, [Next]_vars PROVE Consistent'
  OBVIOUS
<1>1. CASE Demand
  <2>1. /\ pc = "demand" /\ live' = EnergyRequest(ctx) /\ request' = live'
        /\ pc' = "done" \/ pc' = IF mode = "AFTER_DESTINATION" THEN "drive" ELSE "search"
        /\ UNCHANGED <<ctx, mode, network, rows, prefix, candidates, assessed, delay, ranked>>
    BY <1>1 DEF Demand, Reject, Goto, input
  <2>2. candidates = <<>> /\ prefix = None /\ ranked = <<>>
    BY <2>1 DEF Consistent
  <2> QED BY <2>1, <2>2 DEF Consistent, Chosen
<1>2. CASE Drive
  <2>1. /\ pc = "drive" /\ UNCHANGED <<ctx, mode, network, rows, live, candidates, assessed, delay, ranked>>
        /\ \/ pc' = "done" /\ UNCHANGED <<request, prefix>>
           \/ /\ pc' = "search"
              /\ prefix' = network[<<"origin", "destination">>]
              /\ ReachesDestination(request, prefix') /\ BasisValid(request) /\ PerUnit(request) # Zero
              /\ request' = Arrived(request, prefix')
    BY <1>2 DEF Drive, Reject, Goto, input
  <2>2. /\ mode = "AFTER_DESTINATION" /\ live = EnergyRequest(ctx) /\ request = live
        /\ candidates = <<>> /\ ranked = <<>>
    BY <2>1 DEF Consistent
  <2> QED BY <2>1, <2>2 DEF Consistent, Chosen
<1>3. CASE Search
  <2>1. /\ pc = "search"
        /\ UNCHANGED <<ctx, mode, network, rows, live, request, prefix, assessed, delay, ranked>>
        /\ \/ pc' = "done" /\ UNCHANGED candidates
           \/ /\ pc' = "rank" /\ ~Refused(request)
              /\ candidates' = Candidates(request, network, From, To, rows)
    BY <1>3 DEF Search, Reject, Goto, input
  <2>2. Chosen /\ candidates = <<>> /\ ranked = <<>>
    BY <2>1 DEF Consistent
  <2>3. Chosen' /\ From' = From /\ To' = To
    BY <2>1, <2>2 DEF Chosen, From, To
  <2>4. pc' = "rank" => Found'
    BY <2>1, <2>3 DEF Found
  <2> QED BY <2>1, <2>2, <2>4 DEF Consistent
<1>4. CASE Rank
  <2>1. /\ pc = "rank" /\ pc' = "done"
        /\ UNCHANGED <<ctx, mode, network, rows, live, request, prefix, candidates>>
        /\ \E factor \in Delays, a \in [EligiblePairs(candidates) -> Assessments] :
             delay' = factor /\ assessed' = a /\ ranked' = Ranking(factor, a)
    BY <1>4 DEF Rank, Reject, input
  <2>2. Found'
    BY <2>1 DEF Consistent, Found, Chosen, From, To
  <2>3. EligiblePairs(candidates)' = EligiblePairs(candidates)
    BY <2>1 DEF EligiblePairs
  <2>4. Ordered'
    BY <2>1, <2>3, SameRanking DEF Ordered
  <2> QED BY <2>1, <2>2, <2>4 DEF Consistent
<1>5. CASE UNCHANGED vars
  <2>1. UNCHANGED <<pc, ctx, mode, network, rows, live, request, prefix, candidates, assessed, delay, ranked>>
    BY <1>5 DEF vars, input
  <2>2. (Chosen' = Chosen) /\ (Found' = Found)
    BY <2>1 DEF Chosen, Found, From, To
  <2>3. Ordered' = Ordered
    BY <2>1, SameRanking DEF Ordered
  <2> QED BY <2>1, <2>2, <2>3 DEF Consistent
<1> QED BY <1>1, <1>2, <1>3, <1>4, <1>5 DEF Next

LEMMA EligibleFound ==
  ASSUME Consistent, NEW c \in EligiblePairs(candidates)
  PROVE  Found
  BY NoneEligible DEF Consistent

MetricsOf(c) == Metrics(network, From, c.station, To)
OpOf(c) == Operational(rows[c.station], c.service)

LEMMA EligibleFacts ==
  ASSUME Consistent, NEW c \in EligiblePairs(candidates)
  PROVE  /\ c \in Pairs
         /\ candidates[c] = Evaluated(request, c, To, MetricsOf(c), OpOf(c))
         /\ candidates[c].metrics = MetricsOf(c) /\ candidates[c].op = OpOf(c)
         /\ candidates[c].estimate = EstimateOf(request, c, To, MetricsOf(c), OpOf(c))
         /\ candidates[c].estimate.status = "AVAILABLE"
         /\ MetricsOf(c).reachable /\ FeasibleTo(MetricsOf(c).distance, request)
         /\ To # None => MetricsOf(c).onward # None
<1>1. Found
  BY EligibleFound
<1>2. c \in EligiblePairs(Candidates(request, network, From, To, rows))
  BY <1>1 DEF Found
<1> DEFINE feasible == MetricsOf(c).reachable /\ FeasibleTo(MetricsOf(c).distance, request)
<1>3. /\ c \in Expanded(request)
      /\ Evaluated(request, c, To, MetricsOf(c), OpOf(c)).eligible
      /\ candidates[c] = Evaluated(request, c, To, MetricsOf(c), OpOf(c))
  BY <1>1, <1>2, OfferedMeans DEF MetricsOf, OpOf, Found
<1>4. /\ Eligibility(MetricsOf(c).reachable, Compatible(request.vehicle, c), OpOf(c), c.service, feasible)
           = "ELIGIBLE"
      /\ To # None => MetricsOf(c).onward # None
      /\ EstimateOf(request, c, To, MetricsOf(c), OpOf(c)).status = "AVAILABLE"
      /\ candidates[c].metrics = MetricsOf(c) /\ candidates[c].op = OpOf(c)
      /\ candidates[c].estimate = EstimateOf(request, c, To, MetricsOf(c), OpOf(c))
  BY <1>3, EligibleMeans
<1>5. feasible
  <2>1. \A b \in BOOLEAN :
          Eligibility(MetricsOf(c).reachable, Compatible(request.vehicle, c), OpOf(c), c.service, b)
            = "ELIGIBLE" => b
    BY DEF Eligibility
  <2>2. feasible \in BOOLEAN
    OBVIOUS
  <2> HIDE DEF feasible
  <2> QED BY <1>4, <2>1, <2>2
<1>6. c \in Pairs
  BY <1>3 DEF Expanded
<1> QED BY <1>3, <1>4, <1>5, <1>6

LEMMA FoundTypes ==
  ASSUME Consistent, Found
  PROVE  /\ ctx \in Context /\ live = EnergyRequest(ctx) /\ Sound(live) /\ Sound(request)
         /\ network \in [Places \X Places -> Leg \cup {None}]
         /\ From \in Places /\ To \in Places \cup {None}
         /\ prefix # None =>
              /\ prefix \in Leg /\ live.range \in Fraction
              /\ request.range = Minus(live.range, Whole(prefix.distance))
         /\ prefix = None => request = live
         /\ request.vehicle = ctx.vehicle /\ request.usable = live.usable
         /\ request.reserve = live.reserve /\ request.explicitRange = live.explicitRange
<1>1. /\ ctx \in Context /\ network \in [Places \X Places -> Leg \cup {None}]
      /\ live = EnergyRequest(ctx) /\ live.vehicle = ctx.vehicle /\ Chosen
  BY InputAssumption, RequestFields DEF Consistent, Found, Chosen
<1>2. Sound(live)
  BY <1>1, RequestSound
<1>3. From \in Places /\ To \in Places \cup {None}
  BY DEF From, To, Places
<1>4. CASE mode = "AFTER_DESTINATION"
  <2>1. /\ prefix = network[<<"origin", "destination">>] /\ ReachesDestination(live, prefix)
        /\ BasisValid(live) /\ request = Arrived(EnergyRequest(ctx), prefix)
    BY <1>1, <1>4 DEF Chosen
  <2>2. prefix \in Leg
    BY <1>1, <2>1 DEF ReachesDestination, Places
  <2>3. live.range \in Fraction /\ live.range.n >= 0
    BY <1>1, <1>2, <2>1, <2>2, ReachesType, ReserveSign
  <2>4. Sound(request)
    BY <1>1, <2>1, <2>2, <2>3, ArrivedSound DEF BasisValid
  <2>5. /\ request.range = Minus(live.range, Whole(prefix.distance))
        /\ request.vehicle = ctx.vehicle /\ request.usable = live.usable
        /\ request.reserve = live.reserve /\ request.explicitRange = live.explicitRange
    BY <1>1, <2>1, ArrivedFields
  <2>6. prefix # None
    BY <2>1 DEF ReachesDestination
  <2> QED BY <1>1, <1>2, <1>3, <2>2, <2>3, <2>4, <2>5, <2>6
<1>5. CASE mode # "AFTER_DESTINATION"
  <2>1. prefix = None /\ request = live
    BY <1>1, <1>5 DEF Chosen
  <2> QED BY <1>1, <1>2, <1>3, <2>1
<1> QED BY <1>4, <1>5

-----------------------------------------------------------------------------
(* Half a kilometre is kept on the way, wherever the search started.       *)
LEMMA KeptOverLegs ==
  ASSUME NEW range \in Fraction, NEW p \in Nat, NEW m \in Nat, NEW half \in Fraction,
         Leq(Plus(Whole(m), half), Minus(range, Whole(p)))
  PROVE  Leq(Plus(half, Whole(p + m)), range)
<1> DEFINE rn == range.n  rd == range.d  hn == half.n  hd == half.d
<1>1. rn \in Int /\ hn \in Int /\ rd \in Nat \ {0} /\ hd \in Nat \ {0}
      /\ range.n * rd = rn * range.d
  BY DEF Fraction
<1>2. \A x \in Nat : Whole(x) \in Fraction /\ Whole(x).n = x /\ Whole(x).d = 1
  BY DEF Whole, Fraction
<1>3. /\ Plus(Whole(m), half) \in Fraction
      /\ Plus(Whole(m), half).n * (1 * hd) = (m * hd + hn * 1) * Plus(Whole(m), half).d
      /\ Minus(range, Whole(p)) \in Fraction
      /\ Minus(range, Whole(p)).n * (rd * 1) = (rn * 1 - p * rd) * Minus(range, Whole(p)).d
  BY <1>2, PlusValue, MinusValue
<1>4. p + m \in Nat
  OBVIOUS
<1>5. /\ Plus(half, Whole(p + m)) \in Fraction
      /\ Plus(half, Whole(p + m)).n * (hd * 1) = (hn * 1 + (p + m) * hd) * Plus(half, Whole(p + m)).d
  BY <1>2, <1>4, PlusValue
<1> HIDE DEF rn, rd, hn, hd
<1>6. (m * hd + hn * 1) * (rd * 1) <= (rn * 1 - p * rd) * (1 * hd)
  <2>1. m * hd + hn * 1 \in Int /\ rn * 1 - p * rd \in Int /\ 1 * hd \in Nat \ {0} /\ rd * 1 \in Nat \ {0}
    BY <1>1
  <2> QED BY <1>3, <2>1, LeqValues
<1>7. (hn * 1 + (p + m) * hd) * rd <= rn * (hd * 1)
  <2>1. (m * hd + hn * 1) * (rd * 1) = m * (hd * rd) + hn * rd
    BY <1>1
  <2>2. (rn * 1 - p * rd) * (1 * hd) = rn * hd - p * (hd * rd)
    BY <1>1
  <2>3. (hn * 1 + (p + m) * hd) * rd = hn * rd + p * (hd * rd) + m * (hd * rd)
    BY <1>1
  <2>4. /\ m * (hd * rd) \in Int /\ p * (hd * rd) \in Int /\ hn * rd \in Int /\ rn * hd \in Int
    BY <1>1
  <2> QED BY <1>1, <1>6, <2>1, <2>2, <2>3, <2>4
<1>8. hn * 1 + (p + m) * hd \in Int /\ hd * 1 \in Nat \ {0}
  BY <1>1
<1> QED BY <1>1, <1>5, <1>7, <1>8, LeqValues DEF rn, rd

-----------------------------------------------------------------------------
(* The battery of an eligible candidate.                                   *)

LEMMA ArrivingType ==
  ASSUME NEW r, Sound(r), r.soc # None, PerUnit(r) \in Fraction, NEW distance \in Nat
  PROVE  Arriving(r, distance) \in Fraction
<1>1. Current(r, r.usable) \in Fraction
  BY CurrentType
<1>2. Times(Whole(distance), PerUnit(r)) \in Fraction
  BY WholeType, TimesValue
<1> QED BY <1>1, <1>2, MinusValue DEF Arriving

LEMMA RequiredType ==
  ASSUME NEW r, Sound(r), PerUnit(r) \in Fraction, NEW onward \in Nat \cup {None}
  PROVE  /\ ReserveAfter(r, onward) \in Fraction
         /\ Required(r, onward) \in Fraction
<1>1. ReserveAfter(r, onward) \in Fraction
  <2>1. onward # None => Whole(onward) \in Value
    BY WholeType DEF Value
  <2>2. None \in Value
    BY DEF Value
  <2> QED BY <2>1, <2>2, PolicyReserveType DEF ReserveAfter, Sound, Value
<1>2. CASE onward = None
  BY <1>1, <1>2, PercentValue, PolicyAssumption DEF Required, Sound
<1>3. CASE onward # None
  <2>1. Plus(Whole(onward), ReserveAfter(r, onward)) \in Fraction
    BY <1>1, <1>3, WholeType, PlusValue
  <2> QED BY <1>1, <1>3, <2>1, TimesValue DEF Required
<1> QED BY <1>2, <1>3

LEMMA BatteryFacts ==
  ASSUME Consistent, NEW c \in EligiblePairs(candidates)
  PROVE  /\ Sound(request) /\ BasisValid(request)
         /\ request.range \in Fraction /\ request.range.n > 0
         /\ PerUnit(request) \in Fraction /\ PerUnit(request).n > 0
         /\ MetricsOf(c).distance \in Nat /\ MetricsOf(c).duration \in Nat
         /\ MetricsOf(c).onward \in Leg \cup {None}
         /\ Onward(To, MetricsOf(c)) \in Nat \cup {None}
         /\ Arriving(request, MetricsOf(c).distance) \in Fraction
         /\ Required(request, Onward(To, MetricsOf(c))) \in Fraction
<1>1. Sound(request) /\ ~Refused(request)
  BY EligibleFound, FoundTypes DEF Found
<1>2. BasisValid(request) /\ PerUnit(request) # Zero
  BY EligibleFacts, EstimateMeans DEF EstimateOf
<1>3. request.range \in Fraction /\ request.range.n > 0
  <2>1. request.range # None /\ Less(Zero, request.range)
    BY EligibleFacts DEF FeasibleTo
  <2> QED BY <1>1, <2>1, Positive DEF Sound, Value
<1>4. PerUnit(request) \in Fraction /\ PerUnit(request).n > 0
  <2>1. ~Negative(request.soc) /\ ~Negative(request.energy)
    BY <1>1 DEF Refused
  <2>2. request.soc # None /\ request.range.n >= 0
    BY <1>2, <1>3 DEF BasisValid, Fraction
  <2> QED BY <1>1, <1>2, <1>3, <2>1, <2>2, PerUnitType
<1>5. /\ MetricsOf(c).distance \in Nat /\ MetricsOf(c).duration \in Nat
      /\ MetricsOf(c).onward \in Leg \cup {None}
  <2>1. c.station \in Stations
    BY EligibleFacts DEF Pairs
  <2> QED BY <2>1, EligibleFound, EligibleFacts, FoundTypes, MetricsType DEF MetricsOf
<1>6. Onward(To, MetricsOf(c)) \in Nat \cup {None}
  BY <1>5, EligibleFacts DEF Onward, Leg
<1>7. Arriving(request, MetricsOf(c).distance) \in Fraction
  BY <1>1, <1>2, <1>4, <1>5, ArrivingType DEF BasisValid
<1>8. Required(request, Onward(To, MetricsOf(c))) \in Fraction
  BY <1>1, <1>4, <1>6, RequiredType
<1> QED BY <1>1, <1>2, <1>3, <1>4, <1>5, <1>6, <1>7, <1>8

(* Charging stops at what is required or above it, and a swap that hands   *)
(* out less is no candidate.                                               *)
LEMMA DepartureSuffices ==
  ASSUME Consistent, NEW c \in EligiblePairs(candidates), Onward(To, MetricsOf(c)) # None
  PROVE  LET departure == candidates[c].estimate.departure
         IN  departure \in Fraction /\ Leq(Required(request, Onward(To, MetricsOf(c))), departure)
<1> DEFINE arrival == Arriving(request, MetricsOf(c).distance)
           required == Required(request, Onward(To, MetricsOf(c)))
           swap == c.service = "BATTERY_SWAP"
           target == IF swap THEN Percent(SwapPct, request.usable) ELSE Greater(arrival, required)
           departure == candidates[c].estimate.departure
<1>1. departure = target /\ ~(swap /\ Less(target, required))
  BY EligibleFacts, EstimateMeans DEF EstimateOf
<1>2. arrival \in Fraction /\ required \in Fraction /\ request.usable \in Fraction
  BY BatteryFacts DEF Sound
<1> HIDE DEF arrival, required
<1>3. Percent(SwapPct, request.usable) \in Fraction
  BY <1>2, PercentValue, PolicyAssumption
<1>4. Greater(arrival, required) \in Fraction /\ Leq(required, Greater(arrival, required))
  BY <1>2, GreaterBounds
<1>5. target \in Fraction /\ Leq(required, target)
  BY <1>1, <1>3, <1>4 DEF Less
<1> HIDE DEF target, departure
<1> QED BY <1>1, <1>5 DEF required, departure

-----------------------------------------------------------------------------
(* The telemetry behind an eligible candidate: the detection found it      *)
(* complete and took every value from it, exact or rounded.                *)

IsOf(reported, exact) ==
  /\ exact \in Fraction /\ reported \in Fraction
  /\ Leq(reported, Plus(exact, Half)) /\ Leq(exact, Plus(reported, Half))

LEMMA ExactOrRounded ==
  ASSUME NEW a \in Fraction, NEW r \in {a, Rounded(a)}
  PROVE  IsOf(r, a)
<1>1. CASE r = a
  BY <1>1, HalfType, PlusMore DEF IsOf
<1>2. CASE r = Rounded(a)
  BY <1>2, RoundedHalf DEF IsOf
<1> QED BY <1>1, <1>2

LEMMA GivenOrRounded ==
  ASSUME NEW value \in Nat \cup {None}, NEW exact, exact \in Fraction,
         value # None => exact = Whole(value)
  PROVE  IsOf(Rounded(exact), exact) /\ IsOf(Given(value, Rounded(exact)), exact)
<1>1. Given(value, Rounded(exact)) \in {exact, Rounded(exact)}
  BY DEF Given
<1> QED BY <1>1, ExactOrRounded

LEMMA BasisOfDetection ==
  ASSUME Consistent, NEW c \in EligiblePairs(candidates)
  PROVE  BasisValid(live)
<1>1. Chosen
  BY EligibleFound DEF Found
<1> QED BY <1>1, BatteryFacts DEF Chosen

LEMMA Detected ==
  ASSUME Consistent, NEW c \in EligiblePairs(candidates)
  PROVE  LET capacity == UsableCapacity(ctx.vehicle)
         IN  /\ live.usable = capacity
             /\ IsOf(live.energy, EnergyLeft(ctx, capacity))
             /\ IsOf(live.range, RangeLeft(ctx, capacity))
             /\ IsOf(live.reserve, Reserve(ctx))
<1> DEFINE capacity == UsableCapacity(ctx.vehicle)
           state == EvaluateNeed(ctx, capacity)
           energy == EnergyLeft(ctx, capacity)
           range == RangeLeft(ctx, capacity)
           reserve == Reserve(ctx)
<1>1. ctx \in Context /\ live = EnergyRequest(ctx) /\ Sound(live)
  BY EligibleFound, FoundTypes
<1>2. /\ ctx.vehicle \in Vehicle /\ ctx.soc \in 0..100 \cup {None} /\ ctx.energy \in Nat \cup {None}
      /\ ctx.range \in Nat \cup {None} /\ ctx.trip \in Nat \cup {None}
      /\ ctx.reserve \in Nat \cup {None} /\ ctx.consumption \in (Nat \ {0}) \cup {None}
  BY <1>1 DEF Context
<1>3. /\ live.usable = capacity /\ live.soc = Given(ctx.soc, None)
      /\ live.energy = Given(ctx.energy, state.energy)
      /\ live.range = state.range \/ live.range = Given(ctx.range, state.range)
      /\ live.reserve = state.reserve \/ live.reserve = Given(ctx.reserve, state.reserve)
  BY <1>1, RequestFields
<1>4. BasisValid(live) /\ capacity \in Fraction
  BY <1>2, BasisOfDetection, CapacityType
<1> HIDE DEF capacity
<1>5. ctx.soc # None
  BY <1>3, <1>4 DEF BasisValid, Given
<1>6. ~InvalidState(ctx, capacity)
  <2>1. ctx.energy # None => live.energy = Whole(ctx.energy) /\ Whole(ctx.energy) # None
    BY <1>2, <1>3, WholeType, CatalogAssumption DEF Given
  <2>2. ctx.energy # None => Leq(Whole(ctx.energy), capacity)
    BY <1>3, <1>4, <2>1 DEF BasisValid, Current
  <2>3. ctx.energy # None => ~Less(capacity, Whole(ctx.energy))
    BY <2>2 DEF Less
  <2>4. ctx.soc \in 0..100 /\ None \notin Int
    BY <1>2, <1>5, CatalogAssumption
  <2> QED BY <1>2, <2>3, <2>4 DEF InvalidState
<1>7. state = Assessment(Remaining(ctx), reserve, energy, range, BelowSafe(ctx, capacity))
  BY <1>5, <1>6 DEF EvaluateNeed
<1>8. state.energy = Rounded(energy) /\ state.range = Rounded(range) /\ state.reserve = Rounded(reserve)
  BY <1>7 DEF Assessment
<1>9. energy \in Fraction /\ range \in Fraction /\ reserve \in Fraction
  <2>1. energy \in Fraction /\ range \in Fraction
    BY <1>1, <1>4, <1>5, EnergyLeftType
  <2>2. reserve \in Fraction
    BY <1>1, <1>2, RemainingType, PolicyReserveType, GivenType DEF Reserve
  <2> QED BY <2>1, <2>2
<1>10. /\ ctx.energy # None => energy = Whole(ctx.energy)
       /\ ctx.range # None => range = Whole(ctx.range)
       /\ ctx.reserve # None => reserve = Whole(ctx.reserve)
  BY DEF EnergyLeft, RangeLeft, Reserve, Given
<1> HIDE DEF state, energy, range, reserve
<1>11. IsOf(live.energy, energy)
  BY <1>2, <1>3, <1>8, <1>9, <1>10, GivenOrRounded
<1>12. IsOf(live.range, range)
  BY <1>2, <1>3, <1>8, <1>9, <1>10, GivenOrRounded
<1>13. IsOf(live.reserve, reserve)
  BY <1>2, <1>3, <1>8, <1>9, <1>10, GivenOrRounded
<1> QED BY <1>3, <1>11, <1>12, <1>13 DEF energy, range, reserve, capacity

-----------------------------------------------------------------------------
(* What is compared with the rounded range.                                *)
LEMMA WithinReported ==
  ASSUME Consistent, NEW c \in EligiblePairs(candidates)
  PROVE  /\ Way(c) \in Nat /\ Plus(Q(Km, 2), Whole(Way(c))) \in Fraction
         /\ Leq(Plus(Q(Km, 2), Whole(Way(c))), live.range)
<1> DEFINE m == MetricsOf(c).distance
           half == Q(Km, 2)
<1>1. Found
  BY EligibleFound
<1>2. m \in Nat
  BY BatteryFacts
<1>3. half \in Fraction
  BY PolicyAssumption, QValue
<1>4. candidates[c].metrics.distance = m
  BY EligibleFacts
<1>5. Leq(Plus(Whole(m), half), request.range) /\ request.range # None
  BY EligibleFacts DEF FeasibleTo
<1>6. Way(c) = (IF prefix = None THEN 0 ELSE prefix.distance) + m
  BY <1>4 DEF Way
<1> HIDE DEF m, half
<1>7. Way(c) \in Nat /\ Leq(Plus(half, Whole(Way(c))), live.range)
  <2>1. CASE prefix = None
    <3>1. request = live
      BY <1>1, <2>1, FoundTypes
    <3>2. Plus(Whole(m), half) = Plus(half, Whole(m)) /\ Way(c) = m
      BY <1>2, <1>3, <1>6, <2>1, WholeType, PlusComm
    <3> QED BY <1>2, <1>5, <3>1, <3>2
  <2>2. CASE prefix # None
    <3>1. /\ prefix.distance \in Nat /\ live.range \in Fraction
          /\ request.range = Minus(live.range, Whole(prefix.distance))
      BY <1>1, <2>2, FoundTypes DEF Leg
    <3>2. Way(c) = prefix.distance + m
      BY <1>6, <2>2
    <3>3. Leq(Plus(half, Whole(prefix.distance + m)), live.range)
      BY <1>2, <1>3, <1>5, <3>1, KeptOverLegs
    <3> QED BY <1>2, <3>1, <3>2, <3>3
  <2> QED BY <2>1, <2>2
<1>8. Plus(half, Whole(Way(c))) \in Fraction
  BY <1>3, <1>7, WholeType, PlusValue
<1> QED BY <1>7, <1>8 DEF half

LEMMA ReachFollows == Consistent => ReachableNow
<1> SUFFICES ASSUME Consistent, NEW c \in EligiblePairs(candidates)
             PROVE  Leq(Plus(Q(Km, 2), Whole(Way(c))),
                        Plus(RangeLeft(ctx, UsableCapacity(ctx.vehicle)), Half))
  BY DEF ReachableNow
<1> DEFINE range == RangeLeft(ctx, UsableCapacity(ctx.vehicle))
           way == Plus(Q(Km, 2), Whole(Way(c)))
<1>1. way \in Fraction /\ Leq(way, live.range)
  BY WithinReported
<1>2. /\ range \in Fraction /\ live.range \in Fraction /\ Leq(live.range, Plus(range, Half))
  BY Detected DEF IsOf
<1> HIDE DEF range, way
<1>3. Plus(range, Half) \in Fraction
  BY <1>2, HalfType, PlusValue
<1>4. Leq(way, Plus(range, Half))
  BY <1>1, <1>2, <1>3, LeqTrans
<1> QED BY <1>4 DEF range, way

(* Nobody is sent to a station that is out of reach, for any network and   *)
(* any telemetry: over the destination or straight to the station, half a  *)
(* kilometre of what the battery holds is left, to half a unit of rounding *)
(* (candidate/energy_feasibility.py, api/v1/ranking.py recommend).         *)
THEOREM NobodyStranded == Spec => []ReachableNow
BY ConsistentInit, ConsistentStep, ReachFollows, PTL DEF Spec

-----------------------------------------------------------------------------
(* The charge at departure.                                                *)

(* A product with a sum is no more than the sum of the products.           *)
LEMMA TimesPlus ==
  ASSUME NEW a \in Fraction, NEW b \in Fraction, NEW c \in Fraction
  PROVE  Leq(Times(Plus(a, b), c), Plus(Times(a, c), Times(b, c)))
<1> DEFINE an == a.n  ad == a.d  bn == b.n  bd == b.d  cn == c.n  cd == c.d
           left == Times(Plus(a, b), c)  right == Plus(Times(a, c), Times(b, c))
<1>1. /\ an \in Int /\ bn \in Int /\ cn \in Int
      /\ ad \in Nat \ {0} /\ bd \in Nat \ {0} /\ cd \in Nat \ {0}
      /\ c.n * cd = cn * c.d
  BY DEF Fraction
<1>2. /\ Plus(a, b) \in Fraction /\ Times(a, c) \in Fraction /\ Times(b, c) \in Fraction
      /\ Plus(a, b).n * (ad * bd) = (an * bd + bn * ad) * Plus(a, b).d
      /\ Times(a, c).n * (ad * cd) = (an * cn) * Times(a, c).d
      /\ Times(b, c).n * (bd * cd) = (bn * cn) * Times(b, c).d
  BY PlusValue, TimesValue
<1>3. left \in Fraction /\ right \in Fraction
  BY <1>2, PlusValue, TimesValue
<1> DEFINE sn == an * bd + bn * ad  sd == ad * bd
           tn == an * cn  td == ad * cd  un == bn * cn  ud == bd * cd
<1> HIDE DEF an, ad, bn, bd, cn, cd
<1>4. /\ sn \in Int /\ tn \in Int /\ un \in Int
      /\ sd \in Nat \ {0} /\ td \in Nat \ {0} /\ ud \in Nat \ {0}
  BY <1>1
<1> HIDE DEF sn, sd, tn, td, un, ud
<1>5. left.n * (sd * cd) = (sn * cn) * left.d
  BY <1>1, <1>2, <1>4, TimesOf DEF sn, sd
<1>6. right.n * (td * ud) = (tn * ud + un * td) * right.d
  BY <1>2, <1>4, PlusOf DEF tn, td, un, ud
<1> HIDE DEF left, right
<1>7. (sn * cn) * (td * ud) <= (tn * ud + un * td) * (sd * cd)
  <2>1. (sn * cn) * (td * ud) = (tn * ud + un * td) * (sd * cd)
    BY <1>1 DEF sn, sd, tn, td, un, ud
  <2>2. (sn * cn) * (td * ud) \in Int
    BY <1>1, <1>4
  <2> QED BY <2>1, <2>2
<1>8. /\ sn * cn \in Int /\ sd * cd \in Nat \ {0}
      /\ tn * ud + un * td \in Int /\ td * ud \in Nat \ {0}
  BY <1>1, <1>4
<1>9. Leq(left, right)
  BY <1>3, <1>5, <1>6, <1>7, <1>8, LeqValues
<1> QED BY <1>9 DEF left, right

(* What an onward way and a reserve ask for when the reserve is half a     *)
(* unit short.                                                             *)
LEMMA ReserveShort ==
  ASSUME NEW way \in Fraction, NEW asked \in Fraction, NEW kept \in Fraction,
         Leq(asked, Plus(kept, Half)), NEW unit \in Fraction, unit.n > 0,
         NEW departure \in Fraction, Leq(Times(Plus(way, kept), unit), departure)
  PROVE  Leq(Times(Plus(way, asked), unit), Plus(departure, Times(Half, unit)))
<1>1. /\ Half \in Fraction /\ Plus(way, asked) \in Fraction /\ Plus(way, kept) \in Fraction
      /\ Plus(kept, Half) \in Fraction
  BY HalfType, PlusValue
<1>2. /\ Plus(Plus(way, kept), Half) \in Fraction /\ Plus(Plus(kept, Half), way) \in Fraction
      /\ Plus(Plus(kept, way), Half) \in Fraction
  BY <1>1, PlusValue
<1>3. Leq(Plus(way, asked), Plus(Plus(way, kept), Half))
  <2>1. Leq(Plus(asked, way), Plus(Plus(kept, Half), way))
    BY <1>1, PlusMono
  <2>2. Leq(Plus(Plus(kept, Half), way), Plus(Plus(kept, way), Half))
    BY <1>1, PlusSwap
  <2>3. Plus(asked, way) = Plus(way, asked) /\ Plus(kept, way) = Plus(way, kept)
    BY PlusComm
  <2> QED BY <1>1, <1>2, <2>1, <2>2, <2>3, LeqTrans
<1> DEFINE need == Plus(way, asked)  have == Plus(way, kept)
<1>4. need \in Fraction /\ have \in Fraction /\ Plus(have, Half) \in Fraction
      /\ Leq(need, Plus(have, Half)) /\ Leq(Times(have, unit), departure)
  BY <1>1, <1>2, <1>3
<1> HIDE DEF need, have
<1>5. /\ Times(need, unit) \in Fraction /\ Times(Plus(have, Half), unit) \in Fraction
      /\ Times(have, unit) \in Fraction /\ Times(Half, unit) \in Fraction
  BY <1>1, <1>4, TimesValue
<1>6. Leq(Times(need, unit), Times(Plus(have, Half), unit))
  <2>1. unit.n >= 0
    BY DEF Fraction
  <2> QED BY <1>4, <2>1, TimesMono
<1>7. Leq(Times(Plus(have, Half), unit), Plus(Times(have, unit), Times(Half, unit)))
  BY <1>1, <1>4, TimesPlus
<1>8. Leq(Plus(Times(have, unit), Times(Half, unit)), Plus(departure, Times(Half, unit)))
  BY <1>4, <1>5, PlusMono
<1>9. /\ Plus(Times(have, unit), Times(Half, unit)) \in Fraction
      /\ Plus(departure, Times(Half, unit)) \in Fraction
  BY <1>5, PlusValue
<1>10. Leq(Times(need, unit), Plus(departure, Times(Half, unit)))
  BY <1>5, <1>6, <1>7, <1>8, <1>9, LeqTrans
<1> QED BY <1>10 DEF need

LEMMA ReserveFollows == Consistent => ArrivesWithReserve
<1> SUFFICES ASSUME Consistent, NEW c \in EligiblePairs(candidates)
             PROVE  LET departure == candidates[c].estimate.departure
                        onward == candidates[c].metrics.onward
                        configured == IF c.service = "CHARGING" THEN NoDestinationPct ELSE SwapPct
                    IN  IF To = None
                        THEN Leq(Percent(configured, live.usable), departure)
                        ELSE Leq(Times(Plus(Whole(onward.distance), Reserve(ctx)), PerUnit(live)),
                                 Plus(departure, Times(Half, PerUnit(live))))
  BY DEF ArrivesWithReserve
<1> DEFINE arrival == Arriving(request, MetricsOf(c).distance)
           required == Required(request, Onward(To, MetricsOf(c)))
           swap == c.service = "BATTERY_SWAP"
           departure == candidates[c].estimate.departure
<1>1. Found /\ request.usable = live.usable /\ request.reserve = live.reserve
      /\ c.service \in {"CHARGING", "BATTERY_SWAP"}
  BY EligibleFound, FoundTypes, EligibleFacts DEF Pairs, Services
<1>2. CASE To = None
  <2>1. departure = IF swap THEN Percent(SwapPct, request.usable) ELSE Greater(arrival, required)
    BY EligibleFacts, EstimateMeans DEF EstimateOf
  <2>2. required = Percent(NoDestinationPct, request.usable)
    BY <1>2 DEF Required, Onward
  <2>3. arrival \in Fraction /\ required \in Fraction /\ request.usable \in Fraction
    BY BatteryFacts DEF Sound
  <2> HIDE DEF arrival, required, departure
  <2>4. Percent(SwapPct, request.usable) \in Fraction
    BY <2>3, PercentValue, PolicyAssumption
  <2>5. CASE swap
    BY <1>1, <1>2, <2>1, <2>4, <2>5, LeqRefl DEF departure
  <2>6. CASE ~swap
    <3>1. Leq(required, departure)
      BY <2>1, <2>3, <2>6, GreaterBounds
    <3>2. c.service = "CHARGING"
      BY <1>1, <2>6
    <3> QED BY <1>1, <1>2, <2>2, <3>1, <3>2 DEF departure
  <2> QED BY <2>5, <2>6
<1>3. CASE To # None
  <2> DEFINE way == MetricsOf(c).onward.distance
             unit == PerUnit(live)
  <2>1. request = live
    BY <1>1, <1>3 DEF Found, Chosen, To
  <2>2. unit \in Fraction /\ unit.n > 0
    BY <2>1, BatteryFacts
  <2>3. way \in Nat /\ Onward(To, MetricsOf(c)) = way /\ way # None
    BY <1>3, BatteryFacts, EligibleFacts, CatalogAssumption DEF Onward, Leg
  <2>4. /\ Reserve(ctx) \in Fraction /\ live.reserve \in Fraction
        /\ Leq(Reserve(ctx), Plus(live.reserve, Half))
    BY Detected DEF IsOf
  <2>5. live.reserve # None
    BY <2>4, CatalogAssumption
  <2>6. Required(request, way) = Times(Plus(Whole(way), live.reserve), unit)
    BY <2>1, <2>3, <2>5 DEF Required, ReserveAfter
  <2>7. departure \in Fraction /\ Leq(Required(request, way), departure)
    BY <2>3, DepartureSuffices
  <2>8. candidates[c].metrics.onward.distance = way
    BY EligibleFacts
  <2>9. Whole(way) \in Fraction
    BY <2>3, WholeType
  <2> HIDE DEF way, unit, departure
  <2>10. Leq(Times(Plus(Whole(way), Reserve(ctx)), unit), Plus(departure, Times(Half, unit)))
    BY <2>2, <2>4, <2>6, <2>7, <2>9, ReserveShort
  <2> QED BY <1>3, <2>8, <2>10 DEF unit, departure
<1> QED BY <1>2, <1>3

(* The reserve is kept, for any catalog, network and telemetry: a vehicle  *)
(* served on its way reaches its destination with the reserve of its trip, *)
(* and one without a way to go leaves with the configured charge           *)
(* (replenishment.py estimate_replenishment).                              *)
THEOREM ServiceKeepsReserve == Spec => []ArrivesWithReserve
BY ConsistentInit, ConsistentStep, ReserveFollows, PTL DEF Spec

-----------------------------------------------------------------------------
(* Orders.                                                                 *)

(* A finite set that is not empty has a member nothing comes before.       *)
LEMMA FirstExists ==
  ASSUME NEW S, IsFiniteSet(S), S # {}, NEW R,
         \A x \in S : <<x, x>> \notin R,
         \A x \in S, y \in S, z \in S : <<x, y>> \in R /\ <<y, z>> \in R => <<x, z>> \in R
  PROVE  \E m \in S : {y \in S : <<y, m>> \in R} = {}
<1> DEFINE Below(m) == {y \in S : <<y, m>> \in R}
           T == {Below(m) : m \in S}
<1>1. T \subseteq SUBSET S /\ T # {}
  <2>1. \A m \in S : Below(m) \in SUBSET S
    OBVIOUS
  <2> HIDE DEF Below
  <2> QED BY <2>1
<1>2. IsWellFoundedOn(StrictSubsetOrdering(S), SUBSET S)
  BY FS_StrictSubsetOrderingWellFounded, FS_FiniteSubsetsOfFinite
<1> HIDE DEF T
<1>3. \E U \in T : \A V \in T : ~(<<V, U>> \in StrictSubsetOrdering(S))
  BY <1>1, <1>2, WFMin
<1>4. PICK m \in S : \A y \in S : ~(<<Below(y), Below(m)>> \in StrictSubsetOrdering(S))
  <2> HIDE DEF Below
  <2> QED BY <1>3, Zenon DEF T
<1>5. ASSUME NEW y \in Below(m) PROVE FALSE
  <2>1. y \in S /\ Below(y) \subseteq Below(m) /\ y \in Below(m) /\ y \notin Below(y)
    BY <1>5
  <2>2. Below(y) \in SUBSET S /\ Below(m) \in SUBSET S
    OBVIOUS
  <2> HIDE DEF Below
  <2>3. <<Below(y), Below(m)>> \in StrictSubsetOrdering(S)
    BY <2>1, <2>2 DEF StrictSubsetOrdering
  <2> QED BY <1>4, <2>1, <2>3
<1> QED BY <1>5

LEMMA PairsFinite == IsFiniteSet(Pairs)
<1> DEFINE f == [p \in Stations \X Services |-> [station |-> p[1], service |-> p[2]]]
<1>1. IsFiniteSet(Services)
  <2>1. IsFiniteSet({"CHARGING"}) /\ IsFiniteSet({"BATTERY_SWAP"})
    BY FS_Singleton
  <2>2. Services = {"CHARGING"} \cup {"BATTERY_SWAP"}
    BY DEF Services
  <2> QED BY <2>1, <2>2, FS_Union
<1>2. IsFiniteSet(Stations \X Services)
  BY <1>1, SiteAssumption, FS_Product
<1>3. f \in Surjection(Stations \X Services, Pairs)
  <2>1. f \in [Stations \X Services -> Pairs]
    BY DEF Pairs
  <2>2. ASSUME NEW c \in Pairs PROVE \E p \in Stations \X Services : f[p] = c
    <3>1. c.station \in Stations /\ c.service \in Services
          /\ c = [station |-> c.station, service |-> c.service]
      BY DEF Pairs
    <3>2. <<c.station, c.service>> \in Stations \X Services
      BY <3>1
    <3>3. f[<<c.station, c.service>>] = [station |-> c.station, service |-> c.service]
      BY <3>2
    <3> QED BY <3>1, <3>2, <3>3
  <2> HIDE DEF f
  <2> QED BY <2>1, <2>2 DEF Surjection
<1> HIDE DEF f
<1> QED BY <1>2, <1>3, FS_Surjection

(* Keys compare like words: the first difference decides.                  *)
Keys == [1..7 -> Int]

LEMMA BeforeOrders ==
  ASSUME NEW k \in Keys, NEW l \in Keys, NEW m \in Keys
  PROVE  /\ ~Before(k, k)
         /\ Before(k, l) /\ Before(l, m) => Before(k, m)
<1>1. DOMAIN k = 1..7 /\ DOMAIN l = 1..7
  BY DEF Keys
<1>2. \A i \in 1..7 : k[i] \in Int /\ l[i] \in Int /\ m[i] \in Int
  BY DEF Keys
<1>3. ~Before(k, k)
  BY <1>1, <1>2 DEF Before
<1>4. ASSUME Before(k, l), Before(l, m) PROVE Before(k, m)
  <2>1. PICK i \in 1..7 : k[i] < l[i] /\ \A j \in 1..(i - 1) : k[j] = l[j]
    BY <1>1, <1>4 DEF Before
  <2>2. PICK h \in 1..7 : l[h] < m[h] /\ \A j \in 1..(h - 1) : l[j] = m[j]
    BY <1>1, <1>4 DEF Before
  <2>3. CASE i <= h
    <3>1. k[i] < m[i]
      BY <1>2, <2>1, <2>2, <2>3
    <3>2. \A j \in 1..(i - 1) : k[j] = m[j]
      BY <2>1, <2>2, <2>3
    <3> QED BY <1>1, <3>1, <3>2 DEF Before
  <2>4. CASE h < i
    <3>1. k[h] < m[h]
      BY <1>2, <2>1, <2>2, <2>4
    <3>2. \A j \in 1..(h - 1) : k[j] = m[j]
      BY <2>1, <2>2, <2>4
    <3> QED BY <1>1, <3>1, <3>2 DEF Before
  <2> QED BY <2>3, <2>4
<1> QED BY <1>3, <1>4

(* The first of a sorted set has nothing before it.                        *)
LEMMA FirstSorted ==
  ASSUME NEW S, IsFiniteSet(S), S # {}, NEW keys \in [S -> Keys]
  PROVE  /\ Sorted(S, keys)[1] \in S
         /\ \A d \in S : ~Before(keys[d], keys[Sorted(S, keys)[1]])
<1> DEFINE R == {p \in S \X S : Before(keys[p[1]], keys[p[2]])}
           Ahead(c) == {d \in S : Before(keys[d], keys[c])}
<1>1. \A x \in S, y \in S : <<x, y>> \in R <=> Before(keys[x], keys[y])
  OBVIOUS
<1> HIDE DEF R
<1>2. \A x \in S : <<x, x>> \notin R
  BY <1>1, BeforeOrders
<1>3. \A x \in S, y \in S, z \in S : <<x, y>> \in R /\ <<y, z>> \in R => <<x, z>> \in R
  BY <1>1, BeforeOrders
<1>4. PICK m \in S : {y \in S : <<y, m>> \in R} = {}
  BY <1>2, <1>3, FirstExists
<1>5. Cardinality(Ahead(m)) = 1 - 1
  <2>1. Ahead(m) = {}
    BY <1>1, <1>4
  <2> QED BY <2>1, FS_EmptySet
<1>6. Cardinality(S) \in Nat /\ Cardinality(S) # 0
  BY FS_CardinalityType, FS_EmptySet
<1>7. Sorted(S, keys)[1] = CHOOSE c \in S : Cardinality(Ahead(c)) = 1 - 1
  <2>1. 1 \in 1..Cardinality(S)
    BY <1>6
  <2> QED BY <2>1, Zenon DEF Sorted
<1>8. Sorted(S, keys)[1] \in S /\ Cardinality(Ahead(Sorted(S, keys)[1])) = 0
  <2>1. Sorted(S, keys)[1] \in S /\ Cardinality(Ahead(Sorted(S, keys)[1])) = 1 - 1
    BY <1>5, <1>7, Zenon
  <2> QED BY <2>1
<1>9. Ahead(Sorted(S, keys)[1]) \in SUBSET S
  OBVIOUS
<1>10. Ahead(Sorted(S, keys)[1]) = {}
  BY <1>8, <1>9, FS_Subset, FS_EmptySet
<1> QED BY <1>8, <1>10

(* The least of finitely many fractions.                                   *)
LEMMA LeastOf ==
  ASSUME NEW S, IsFiniteSet(S), S # {}, NEW value \in [S -> Fraction]
  PROVE  LET T == {value[c] : c \in S}
         IN  /\ Least(T) \in T
             /\ \A c \in S : Leq(Least(T), value[c])
<1> DEFINE R == {p \in S \X S : ~Leq(value[p[2]], value[p[1]])}
           T == {value[c] : c \in S}
<1>1. \A x \in S, y \in S : <<x, y>> \in R <=> ~Leq(value[y], value[x])
  OBVIOUS
<1> HIDE DEF R
<1>2. \A x \in S : <<x, x>> \notin R
  BY <1>1, LeqRefl
<1>3. ASSUME NEW x \in S, NEW y \in S, NEW z \in S, <<x, y>> \in R, <<y, z>> \in R
      PROVE  <<x, z>> \in R
  <2>1. value[x] \in Fraction /\ value[y] \in Fraction /\ value[z] \in Fraction
    OBVIOUS
  <2>2. ~Leq(value[y], value[x]) /\ ~Leq(value[z], value[y])
    BY <1>1, <1>3
  <2>3. Leq(value[y], value[z])
    BY <2>1, <2>2, LeqTotal
  <2>4. ~Leq(value[z], value[x])
    BY <2>1, <2>2, <2>3, LeqTrans
  <2> QED BY <1>1, <2>4
<1>4. PICK m \in S : {y \in S : <<y, m>> \in R} = {}
  BY <1>2, <1>3, FirstExists
<1>5. value[m] \in T /\ \A b \in T : Leq(value[m], b)
  BY <1>1, <1>4
<1>6. Least(T) \in T /\ \A b \in T : Leq(Least(T), b)
  BY <1>5 DEF Least
<1> QED BY <1>6

-----------------------------------------------------------------------------
(* The time of a candidate and its penalty.                                *)

LEMMA ShareBounds ==
  ASSUME NEW adherence \in Grades \cup {None}, NEW confidence \in Grades
  PROVE  /\ Share(adherence, confidence) \in Fraction
         /\ Share(adherence, confidence).n >= 0
         /\ Leq(Share(adherence, confidence), Q(1, 10))
<1>1. Steps \in Nat \ {0} /\ Grades = 0..Steps /\ None \notin Int
  BY RankingAssumption, CatalogAssumption DEF Grades
<1>2. Q(1, 10) \in Fraction /\ Q(1, 10).n * 10 = 1 * Q(1, 10).d /\ Q(1, 10).n >= 0
  BY QValue, QSign
<1>3. CASE adherence = None
  <2>1. Leq(Zero, Q(1, 10))
    BY <1>2, Positive
  <2> QED BY <1>3, <2>1, ZeroType DEF Share
<1>4. CASE adherence # None
  <2> DEFINE n == (Steps - adherence) * confidence  d == 10 * Steps * Steps
  <2>1. Steps - adherence \in Nat /\ Steps - adherence <= Steps /\ confidence \in Nat /\ confidence <= Steps
    BY <1>1, <1>4
  <2>2. n \in Nat /\ d \in Nat \ {0}
    BY <1>1, <2>1
  <2>3. n * 10 <= 1 * d
    <3>1. (Steps - adherence) * confidence <= Steps * confidence
      BY <1>1, <2>1, MulMono
    <3>2. confidence * Steps <= Steps * Steps
      BY <1>1, <2>1, MulMono
    <3>3. confidence * Steps = Steps * confidence /\ 10 * Steps * Steps = 10 * (Steps * Steps)
          /\ Steps * Steps \in Nat /\ Steps * confidence \in Nat
      BY <1>1, <2>1
    <3> QED BY <2>2, <3>1, <3>2, <3>3
  <2>4. Share(adherence, confidence) = Q(n, d)
    BY <1>4 DEF Share
  <2> HIDE DEF n, d
  <2>5. Q(n, d) \in Fraction /\ Q(n, d).n * d = n * Q(n, d).d /\ Q(n, d).n >= 0
    BY <2>2, QValue, QSign
  <2>6. Leq(Q(n, d), Q(1, 10))
    BY <1>2, <2>2, <2>3, <2>5, LeqValues
  <2> QED BY <2>4, <2>5, <2>6
<1> QED BY <1>3, <1>4

LEMMA WeightValue ==
  ASSUME NEW m \in Int, NEW e \in Nat \ {0}, NEW a \in Fraction
  PROVE  /\ Times(Q(m, e), a) \in Fraction
         /\ Times(Q(m, e), a).n * (e * a.d) = (m * a.n) * Times(Q(m, e), a).d
<1>1. Q(m, e) \in Fraction /\ Q(m, e).n * e = m * Q(m, e).d
  BY QValue
<1>2. a.n \in Int /\ a.d \in Nat \ {0} /\ a.n * a.d = a.n * a.d
  BY DEF Fraction
<1>3. Times(Q(m, e), a).n * (e * a.d) = (m * a.n) * Times(Q(m, e), a).d
  BY <1>1, <1>2, TimesOf
<1> QED BY <1>1, <1>3, TimesValue

LEMMA TwiceValue ==
  ASSUME NEW m \in Int, NEW e \in Nat \ {0}
  PROVE  /\ Plus(Q(m, e), Q(m, e)) \in Fraction
         /\ Plus(Q(m, e), Q(m, e)).n * (e * e) = (m * e + m * e) * Plus(Q(m, e), Q(m, e)).d
<1>1. Q(m, e) \in Fraction /\ Q(m, e).n * e = m * Q(m, e).d
  BY QValue
<1>2. Plus(Q(m, e), Q(m, e)).n * (e * e) = (m * e + m * e) * Plus(Q(m, e), Q(m, e)).d
  BY <1>1, PlusOf
<1> QED BY <1>1, <1>2, PlusValue

(* Two tenths of ten eighths are a quarter.                                *)
LEMMA QuarterOf ==
  ASSUME NEW reference \in Fraction, reference.n >= 0
  PROVE  LET weight == Times(Q(10, 8), reference)
         IN  /\ weight \in Fraction /\ weight.n >= 0
             /\ Plus(Q(1, 10), Q(1, 10)) \in Fraction
             /\ Times(Q(1, 4), reference) \in Fraction
             /\ Leq(Times(Plus(Q(1, 10), Q(1, 10)), weight), Times(Q(1, 4), reference))
<1> DEFINE n == reference.n  d == reference.d
           tenth == Q(1, 10)  quarter == Q(1, 4)  factor == Q(10, 8)
           weight == Times(factor, reference)
           two == Plus(tenth, tenth)
           wn == 10 * n  wd == 8 * d  tn == 1 * 10 + 1 * 10  td == 10 * 10
<1>1. n \in Nat /\ d \in Nat \ {0}
  BY DEF Fraction
<1>2. weight \in Fraction /\ weight.n * wd = wn * weight.d
  BY WeightValue
<1>3. weight.n >= 0
  <2>1. factor \in Fraction /\ factor.n >= 0
    BY QValue, QSign
  <2> HIDE DEF factor
  <2> QED BY <2>1, TimesSign
<1>4. two \in Fraction /\ two.n * td = tn * two.d
  <2>1. 1 \in Int /\ 10 \in Nat \ {0}
    OBVIOUS
  <2> QED BY <2>1, TwiceValue, Zenon
<1>5. wn \in Int /\ wd \in Nat \ {0} /\ tn \in Int /\ td \in Nat \ {0}
  BY <1>1
<1>6. /\ Times(quarter, reference) \in Fraction
      /\ Times(quarter, reference).n * (4 * d) = (1 * n) * Times(quarter, reference).d
  BY WeightValue
<1> HIDE DEF n, d, tenth, quarter, factor, weight, two
<1>7. Times(two, weight) \in Fraction /\ Times(two, weight).n * (td * wd) = (tn * wn) * Times(two, weight).d
  <2> HIDE DEF wn, wd, tn, td
  <2> QED BY <1>2, <1>4, <1>5, TimesOf, TimesValue
<1>8. Leq(Times(two, weight), Times(quarter, reference))
  <2>1. (tn * wn) * (4 * d) = 800 * (n * d) /\ (1 * n) * (td * wd) = 800 * (n * d) /\ n * d \in Int
    BY <1>1
  <2>2. /\ tn * wn \in Int /\ td * wd \in Nat \ {0} /\ 1 * n \in Int /\ 4 * d \in Nat \ {0}
        /\ (tn * wn) * (4 * d) <= (1 * n) * (td * wd)
    BY <1>1, <1>5, <2>1
  <2> DEFINE a == tn * wn  b == td * wd  x == 1 * n  y == 4 * d
  <2>3. /\ a \in Int /\ b \in Nat \ {0} /\ x \in Int /\ y \in Nat \ {0} /\ a * y <= x * b
        /\ Times(two, weight).n * b = a * Times(two, weight).d
        /\ Times(quarter, reference).n * y = x * Times(quarter, reference).d
    BY <1>6, <1>7, <2>2
  <2> HIDE DEF a, b, x, y
  <2> QED BY <1>6, <1>7, <2>3, LeqValues
<1> QED BY <1>2, <1>3, <1>4, <1>6, <1>8 DEF two, weight, tenth, quarter, factor

LEMMA PenaltyBounds ==
  ASSUME NEW a \in FamiliarityAssessment, NEW reference \in Fraction, reference.n >= 0
  PROVE  /\ Penalty(a, reference) \in Fraction /\ Penalty(a, reference).n >= 0
         /\ Leq(Penalty(a, reference), Times(Q(1, 4), reference))
<1> DEFINE s == Share(a.personal, a.confidence)
           t == Share(a.community, a.communityConfidence)
           weight == Times(Q(10, 8), reference)
           tenth == Q(1, 10)
<1>1. /\ a.personal \in Grades \cup {None} /\ a.confidence \in Grades
      /\ a.community \in Grades \cup {None} /\ a.communityConfidence \in Grades
  BY DEF FamiliarityAssessment
<1>2. /\ s \in Fraction /\ s.n >= 0 /\ Leq(s, tenth)
      /\ t \in Fraction /\ t.n >= 0 /\ Leq(t, tenth)
  BY <1>1, ShareBounds
<1>3. tenth \in Fraction
  BY QValue
<1>4. /\ weight \in Fraction /\ weight.n >= 0 /\ Plus(tenth, tenth) \in Fraction
      /\ Times(Q(1, 4), reference) \in Fraction
      /\ Leq(Times(Plus(tenth, tenth), weight), Times(Q(1, 4), reference))
  BY QuarterOf
<1>5. Penalty(a, reference) = Times(Plus(s, t), weight)
  BY DEF Penalty
<1> HIDE DEF s, t, weight, tenth
<1>6. Plus(s, t) \in Fraction /\ Plus(s, t).n >= 0 /\ Leq(Plus(s, t), Plus(tenth, tenth))
  BY <1>2, <1>3, PlusValue, PlusSign, PlusMono2
<1>7. /\ Times(Plus(s, t), weight) \in Fraction /\ Times(Plus(s, t), weight).n >= 0
      /\ Leq(Times(Plus(s, t), weight), Times(Plus(tenth, tenth), weight))
  BY <1>4, <1>6, TimesValue, TimesSign, TimesMono
<1>8. Times(Plus(tenth, tenth), weight) \in Fraction
  BY <1>4, TimesValue
<1> QED BY <1>4, <1>5, <1>7, <1>8, LeqTrans

LEMMA ChargingTimeType ==
  ASSUME NEW model \in Models, NEW arrival \in Fraction,
         NEW target \in Fraction, NEW capacity \in Fraction
  PROVE  ChargingTime(model, arrival, target, capacity) \in Fraction
<1> DEFINE knee == Percent(80, capacity)
           fast == Greater(Zero, Minus(Smaller(target, knee), Smaller(arrival, knee)))
           slow == Minus(Minus(target, arrival), fast)
           power == Whole(Power[model])
           work == Plus(fast, Times(slow, Whole(TaperDivisor)))
<1>1. power \in Fraction /\ power.n > 0 /\ Whole(TaperDivisor) \in Fraction /\ Whole(Setup) \in Fraction
  BY PolicyAssumption, WholeType DEF Whole
<1>2. knee \in Fraction
  BY PercentValue
<1>3. ChargingTime(model, arrival, target, capacity)
        = IF Leq(target, arrival) THEN Zero ELSE Plus(Whole(Setup), Over(work, power))
  BY DEF ChargingTime
<1> HIDE DEF knee, power
<1>4. fast \in Fraction
  BY <1>2, SmallerBounds, MinusValue, GreaterBounds, ZeroType
<1> HIDE DEF fast
<1>5. slow \in Fraction
  BY <1>4, MinusValue
<1> HIDE DEF slow
<1>6. work \in Fraction
  BY <1>1, <1>4, <1>5, TimesValue, PlusValue
<1> HIDE DEF work
<1>7. Over(work, power) \in Fraction
  BY <1>1, <1>6, OverValue
<1>8. Plus(Whole(Setup), Over(work, power)) \in Fraction
  BY <1>1, <1>7, PlusValue
<1> QED BY <1>3, <1>8, ZeroType

LEMMA OperationalType ==
  ASSUME NEW row \in Row, NEW service \in Services
  PROVE  LET op == Operational(row, service)
         IN  op.capacity \in Int /\ op.wait \in Nat \cup {None} /\ op.serviceTime \in Nat
<1>1. /\ row.slots[service] \in Nat /\ row.batteries \in Nat
      /\ row.wait[service] \in Nat \cup {None} /\ row.serviceTime \in Nat
  BY DEF Row
<1> QED BY <1>1 DEF Operational

(* The times and the key of an eligible candidate.                         *)
LEMMA TimeTypes ==
  ASSUME Consistent, NEW c \in EligiblePairs(candidates), NEW factor \in Delays
  PROVE  /\ Start(candidates[c], factor) \in Fraction
         /\ Total(candidates[c], factor) \in Fraction
<1> DEFINE v == candidates[c]
           waiting == Given(v.op.wait, Whole(MissingQueueWait))
           onward == IF v.metrics.onward # None THEN Whole(v.metrics.onward.duration) ELSE Zero
<1>1. /\ v.metrics = MetricsOf(c) /\ v.op = OpOf(c) /\ c.station \in Stations /\ c.service \in Services
      /\ v.estimate = EstimateOf(request, c, To, MetricsOf(c), OpOf(c))
      /\ v.estimate.status = "AVAILABLE"
  BY EligibleFacts DEF Pairs
<1>2. v.metrics.duration \in Nat /\ v.metrics.onward \in Leg \cup {None}
  BY <1>1, BatteryFacts
<1>3. v.op.wait \in Nat \cup {None} /\ v.op.serviceTime \in Nat
  <2>1. rows[c.station] \in Row
    BY <1>1, InputAssumption DEF Consistent
  <2> QED BY <1>1, <2>1, OperationalType DEF OpOf
<1>4. prefix # None => prefix.duration \in Nat
  BY EligibleFound, FoundTypes DEF Leg
<1>5. factor \in Nat \cup {None}
  BY InputAssumption
<1>6. Travel(v, factor) \in Fraction
  <2>1. \A s \in Nat : Delayed(s, factor) \in Fraction
    <3> SUFFICES ASSUME NEW s \in Nat PROVE Delayed(s, factor) \in Fraction
      OBVIOUS
    <3>1. s * (IF factor = None THEN 1 ELSE factor) \in Int
      BY <1>5
    <3> QED BY <3>1, WholeType DEF Delayed
  <2>2. Whole(v.metrics.duration) \in Fraction
    BY <1>2, WholeType
  <2>3. prefix # None => Plus(Delayed(prefix.duration, factor), Whole(v.metrics.duration)) \in Fraction
    BY <1>4, <2>1, <2>2, PlusValue
  <2> QED BY <1>2, <2>1, <2>3 DEF Travel
<1>7. waiting \in Fraction
  <2>1. Whole(MissingQueueWait) \in Fraction
    BY RankingAssumption, WholeType
  <2> HIDE DEF v
  <2> QED BY <1>3, <2>1, GivenType
<1>8. onward \in Fraction
  BY <1>2, WholeType, ZeroType DEF Leg
<1>9. v.estimate.duration \in Fraction
  <2> DEFINE arrival == Arriving(request, MetricsOf(c).distance)
             required == Required(request, Onward(To, MetricsOf(c)))
             swap == c.service = "BATTERY_SWAP"
             target == IF swap THEN Percent(SwapPct, request.usable) ELSE Greater(arrival, required)
             model == request.vehicle.model
  <2>1. v.estimate.duration = IF swap THEN Whole(OpOf(c).serviceTime)
                              ELSE ChargingTime(model, arrival, target, request.usable)
    BY <1>1, EstimateMeans DEF EstimateOf
  <2>2. arrival \in Fraction /\ required \in Fraction /\ request.usable \in Fraction
        /\ model \in Models
    BY BatteryFacts DEF Sound, Vehicle
  <2> HIDE DEF arrival, required, model
  <2>3. target \in Fraction
    BY <2>2, PercentValue, PolicyAssumption, GreaterBounds
  <2> HIDE DEF target
  <2>4. ChargingTime(model, arrival, target, request.usable) \in Fraction
    BY <2>2, <2>3, ChargingTimeType
  <2>5. Whole(OpOf(c).serviceTime) \in Fraction
    BY <1>1, <1>3, WholeType
  <2> QED BY <2>1, <2>4, <2>5
<1>10. Start(v, factor) = Plus(Travel(v, factor), waiting)
       /\ Total(v, factor) = Plus(Plus(Start(v, factor), v.estimate.duration), onward)
  BY DEF Start, Total
<1> HIDE DEF v, waiting, onward
<1>11. Start(v, factor) \in Fraction
  BY <1>6, <1>7, <1>10, PlusValue
<1>12. Total(v, factor) \in Fraction
  <2>1. Plus(Start(v, factor), v.estimate.duration) \in Fraction
    BY <1>9, <1>11, PlusValue
  <2> QED BY <1>8, <1>10, <2>1, PlusValue
<1> QED BY <1>11, <1>12 DEF v

LEMMA MillisecondsType ==
  ASSUME NEW a \in Fraction
  PROVE  Times(Whole(1000), a) \in Fraction /\ Milliseconds(a) \in Int
<1>1. Times(Whole(1000), a) \in Fraction
  BY WholeType, TimesValue
<1> QED BY <1>1, NearestBounds DEF Milliseconds

LEMMA KeyType ==
  ASSUME Consistent, NEW c \in EligiblePairs(candidates), NEW factor \in Delays,
         NEW a \in FamiliarityAssessment, NEW reference \in Fraction, reference.n >= 0
  PROVE  /\ Cost(c, reference, a, factor) \in Fraction
         /\ Key(c, reference, a, factor) \in Keys
         /\ Key(c, reference, a, factor)[1] = Milliseconds(Cost(c, reference, a, factor))
<1> DEFINE v == candidates[c]
           k == Key(c, reference, a, factor)
           cost == Cost(c, reference, a, factor)
<1>1. Total(v, factor) \in Fraction /\ Start(v, factor) \in Fraction
  BY TimeTypes
<1>2. cost \in Fraction
  BY <1>1, PenaltyBounds, PlusValue DEF Cost
<1>3. v.metrics.detourDuration \in Nat \cup {None} /\ v.metrics.detourDistance \in Nat \cup {None}
      /\ v.op.capacity \in Int /\ c.station \in Stations
  <2>1. v.metrics = MetricsOf(c) /\ v.op = OpOf(c) /\ c.station \in Stations /\ c.service \in Services
        /\ MetricsOf(c).reachable
    BY EligibleFacts DEF Pairs
  <2>2. rows[c.station] \in Row
    BY <2>1, InputAssumption DEF Consistent
  <2>3. v.op.capacity \in Int
    BY <2>1, <2>2, OperationalType DEF OpOf
  <2>4. MetricsOf(c).detourDuration \in Nat \cup {None} /\ MetricsOf(c).detourDistance \in Nat \cup {None}
    BY <2>1, EligibleFound, FoundTypes, MetricsType DEF MetricsOf
  <2> QED BY <2>1, <2>3, <2>4
<1>4. \A w \in Nat \cup {None} : OrFar(w) \in Int
  BY DEF OrFar, Far
<1>5. Number[c.station] \in Int
  BY <1>3, RankingAssumption
<1>6. Milliseconds(cost) \in Int /\ Milliseconds(Start(v, factor)) \in Int
  BY <1>1, <1>2, MillisecondsType
<1>7. -v.op.capacity \in Int /\ OrFar(v.metrics.detourDuration) \in Int
      /\ OrFar(v.metrics.detourDistance) \in Int
  <2> HIDE DEF v
  <2>1. \A x \in Int : -x \in Int
    OBVIOUS
  <2> QED BY <1>3, <1>4, <2>1
<1> DEFINE a1 == Milliseconds(cost)  a2 == Milliseconds(Start(v, factor))
           a3 == OrFar(v.metrics.detourDuration)  a4 == OrFar(v.metrics.detourDistance)
           a5 == -v.op.capacity  a6 == Number[c.station]
           a7 == IF c.service = "BATTERY_SWAP" THEN 0 ELSE 1
<1>8. k = <<a1, a2, a3, a4, a5, a6, a7>>
  BY DEF Key
<1>9. a1 \in Int /\ a2 \in Int /\ a3 \in Int /\ a4 \in Int /\ a5 \in Int /\ a6 \in Int /\ a7 \in Int
  BY <1>5, <1>6, <1>7
<1> HIDE DEF k, a1, a2, a3, a4, a5, a6, a7
<1>10. k \in Keys /\ k[1] = a1
  BY <1>8, <1>9 DEF Keys
<1> QED BY <1>2, <1>10 DEF k, a1

-----------------------------------------------------------------------------
(* Rounding to milliseconds does not reorder more than a millisecond.      *)
LEMMA ThousandthClose ==
  ASSUME NEW a \in Fraction, NEW b \in Fraction, Milliseconds(a) <= Milliseconds(b)
  PROVE  Leq(a, Plus(b, Q(1, 1000)))
<1> DEFINE an == a.n  ad == a.d  bn == b.n  bd == b.d
           x == Times(Whole(1000), a)  y == Times(Whole(1000), b)  z == Plus(y, Whole(1))
           s == Plus(b, Q(1, 1000))
<1>1. an \in Int /\ bn \in Int /\ ad \in Nat \ {0} /\ bd \in Nat \ {0}
      /\ a.n * ad = an * a.d /\ b.n * bd = bn * b.d
  BY DEF Fraction
<1>2. x \in Fraction /\ y \in Fraction /\ Whole(1) \in Fraction /\ Whole(1000) \in Fraction
      /\ Whole(1000).n = 1000 /\ Whole(1000).d = 1 /\ Whole(1).n = 1 /\ Whole(1).d = 1
  BY MillisecondsType, WholeType DEF Whole
<1>3. Leq(x, z)
  BY <1>2, NearestClose DEF Milliseconds
<1>4. x.n * (1 * ad) = (1000 * an) * x.d /\ y.n * (1 * bd) = (1000 * bn) * y.d
  BY <1>2, TimesValue
<1>5. Q(1, 1000) \in Fraction /\ Q(1, 1000).n * 1000 = 1 * Q(1, 1000).d
  BY QValue
<1> HIDE DEF an, ad, bn, bd
<1>6. x.n * ad = (1000 * an) * x.d /\ y.n * bd = (1000 * bn) * y.d
  BY <1>1, <1>4
<1> DEFINE xn == 1000 * an  yn == 1000 * bn  zn == yn * 1 + 1 * bd  zd == bd * 1
<1>7. xn \in Int /\ yn \in Int /\ zn \in Int /\ zd \in Nat \ {0}
  BY <1>1
<1>8. z \in Fraction /\ z.n * zd = zn * z.d
  <2> DEFINE on == 1
  <2>1. on \in Int /\ on \in Nat \ {0} /\ Whole(1).n * on = on * Whole(1).d
    BY <1>2
  <2>2. y.n * bd = yn * y.d
    BY <1>6
  <2> HIDE DEF y, yn, on
  <2>3. z.n * (bd * on) = (yn * on + on * bd) * z.d
    BY <1>1, <1>2, <1>7, <2>1, <2>2, PlusOf
  <2>4. z \in Fraction
    BY <1>2, PlusValue
  <2> QED BY <2>3, <2>4 DEF on
<1> DEFINE sn == bn * 1000 + 1 * bd  sd == bd * 1000
<1>9. s \in Fraction /\ s.n * sd = sn * s.d
  <2> DEFINE thousand == 1000  one == 1  milli == Q(1, 1000)
  <2>1. /\ thousand \in Nat \ {0} /\ one \in Int
        /\ milli \in Fraction /\ milli.n * thousand = one * milli.d
    BY <1>5
  <2>2. bn \in Int /\ bd \in Nat \ {0} /\ b.n * bd = bn * b.d
    BY <1>1
  <2> HIDE DEF thousand, one, milli
  <2>3. Plus(b, milli).n * (bd * thousand) = (bn * thousand + one * bd) * Plus(b, milli).d
    BY <2>1, <2>2, PlusOf
  <2>4. Plus(b, milli) \in Fraction
    BY <2>1, PlusValue
  <2> QED BY <2>3, <2>4 DEF thousand, one, milli
<1>10. sn \in Int /\ sd \in Nat \ {0}
  BY <1>1
<1>11. xn * zd <= zn * ad
  <2>1. x.n * ad = xn * x.d
    BY <1>6
  <2> HIDE DEF x, z, xn, zn, zd
  <2> QED BY <1>1, <1>2, <1>3, <1>7, <1>8, <2>1, LeqValues
<1>12. an * sd <= sn * ad
  <2>1. xn * zd = an * sd
    BY <1>1
  <2>2. zn = sn
    BY <1>1
  <2> QED BY <1>11, <2>1, <2>2
<1> HIDE DEF s, sn, sd
<1>13. Leq(a, s)
  BY <1>1, <1>9, <1>10, <1>12, LeqValues
<1> QED BY <1>13 DEF s

LEMMA DetourFollows == Consistent => BoundedDetour
<1> SUFFICES ASSUME Consistent, ranked # <<>>
             PROVE  Leq(Total(candidates[ranked[1]], delay),
                        Plus(Plus(Least(Totals(delay)), Q(1, 1000)),
                             Times(Q(1, 4), Greater(Whole(1), Least(Totals(delay))))))
  BY DEF BoundedDetour
<1> DEFINE E == EligiblePairs(candidates)
           T == Totals(delay)
           reference == Reference(T)
           key == [c \in E |-> Key(c, reference, assessed[c], delay)]
           value == [c \in E |-> Total(candidates[c], delay)]
           winner == ranked[1]
           quarter == Times(Q(1, 4), reference)
           milli == Q(1, 1000)
<1>1. Ordered
  BY DEF Consistent
<1>2. E # {} /\ delay \in Delays /\ assessed \in [E -> Assessments] /\ ranked = Sorted(E, key)
  BY <1>1 DEF Ordered, Ranking
<1>3. IsFiniteSet(E)
  <2>1. E \in SUBSET Pairs
    BY EligibleFacts
  <2> HIDE DEF E
  <2> QED BY <2>1, PairsFinite, FS_Subset
<1>4. value \in [E -> Fraction]
  BY <1>2, TimeTypes
<1>5. T = {value[c] : c \in E}
  BY DEF Totals
<1> HIDE DEF value
<1>6. Least(T) \in T /\ \A c \in E : Leq(Least(T), value[c])
  <2> HIDE DEF E, T
  <2> QED BY <1>2, <1>3, <1>4, <1>5, LeastOf
<1>7. PICK best \in E : Least(T) = value[best]
  BY <1>5, <1>6
<1>8. Least(T) \in Fraction
  BY <1>4, <1>7
<1>9. reference \in Fraction /\ reference.n >= 0 /\ reference = Greater(Whole(1), Least(T))
  <2>1. Whole(1) \in Fraction /\ Leq(Zero, Whole(1))
    BY WholeType DEF Leq, Zero, Whole
  <2>2. reference = Greater(Whole(1), Least(T))
    BY DEF Reference
  <2>3. reference \in Fraction /\ Leq(Whole(1), reference)
    BY <1>8, <2>1, <2>2, GreaterBounds
  <2> HIDE DEF reference
  <2> QED BY <2>1, <2>2, <2>3, ZeroType, LeqTrans, Positive
<1> HIDE DEF T, reference
<1>10. \A c \in E : assessed[c] \in FamiliarityAssessment
  BY <1>2, RankingAssumption
<1>11. key \in [E -> Keys]
       /\ \A c \in E : /\ Cost(c, reference, assessed[c], delay) \in Fraction
                       /\ key[c][1] = Milliseconds(Cost(c, reference, assessed[c], delay))
  BY <1>2, <1>9, <1>10, KeyType
<1> HIDE DEF key, E
<1>12. winner \in E /\ \A d \in E : ~Before(key[d], key[winner])
  BY <1>2, <1>3, <1>11, FirstSorted
<1>13. key[winner][1] <= key[best][1]
  <2>1. key[winner] \in Keys /\ key[best] \in Keys /\ ~Before(key[best], key[winner])
    BY <1>7, <1>11, <1>12
  <2>2. key[best][1] < key[winner][1] => Before(key[best], key[winner])
    <3>1. DOMAIN key[best] = 1..7 /\ 1 \in 1..7 /\ 1..(1 - 1) = {}
      BY <2>1 DEF Keys
    <3> QED BY <3>1 DEF Before
  <2>3. key[winner][1] \in Int /\ key[best][1] \in Int
    <3>1. 1 \in 1..7
      OBVIOUS
    <3> QED BY <2>1, <3>1 DEF Keys
  <2> QED BY <2>1, <2>2, <2>3
<1> DEFINE Price(c) == Cost(c, reference, assessed[c], delay)
           Malus(c) == Penalty(assessed[c], reference)
<1>14. Leq(Price(winner), Plus(Price(best), milli)) /\ Price(winner) \in Fraction /\ Price(best) \in Fraction
  BY <1>7, <1>11, <1>12, <1>13, ThousandthClose
<1>15. /\ value[winner] \in Fraction /\ value[best] \in Fraction
       /\ Malus(winner) \in Fraction /\ Malus(winner).n >= 0
       /\ Malus(best) \in Fraction /\ Leq(Malus(best), quarter)
  BY <1>4, <1>7, <1>9, <1>10, <1>12, PenaltyBounds
<1>16. /\ value[winner] = Total(candidates[winner], delay)
       /\ Price(winner) = Plus(value[winner], Malus(winner))
       /\ Price(best) = Plus(value[best], Malus(best))
  BY <1>7, <1>12 DEF Cost, value, E
<1>17. milli \in Fraction /\ quarter \in Fraction
  BY <1>9, QValue, TimesValue
<1> HIDE DEF winner, quarter, milli, Price, Malus
<1>18. Leq(value[winner], Price(winner))
  BY <1>15, <1>16, PlusMore
<1>19. Leq(Price(best), Plus(value[best], quarter))
  BY <1>15, <1>16, <1>17, LeqRefl, PlusMono2
<1>20. Plus(value[best], quarter) \in Fraction /\ Plus(Price(best), milli) \in Fraction
  BY <1>14, <1>15, <1>17, PlusValue
<1>21. Leq(Plus(Price(best), milli), Plus(Plus(value[best], quarter), milli))
  BY <1>14, <1>17, <1>19, <1>20, PlusMono
<1>22. Leq(Plus(Plus(value[best], quarter), milli), Plus(Plus(value[best], milli), quarter))
  BY <1>15, <1>17, PlusSwap
<1>23. /\ Plus(Plus(value[best], quarter), milli) \in Fraction
       /\ Plus(Plus(value[best], milli), quarter) \in Fraction
  BY <1>15, <1>17, PlusValue
<1>24. Leq(value[winner], Plus(Plus(value[best], milli), quarter))
  <2>1. Leq(value[winner], Plus(Price(best), milli))
    BY <1>14, <1>15, <1>18, <1>20, LeqTrans
  <2>2. Leq(value[winner], Plus(Plus(value[best], quarter), milli))
    BY <1>15, <1>20, <1>21, <1>23, <2>1, LeqTrans
  <2> QED BY <1>15, <1>22, <1>23, <2>2, LeqTrans
<1> QED BY <1>7, <1>9, <1>16, <1>24 DEF T, quarter, milli, winner

(* Familiar roads never cost the driver more than a quarter of the fastest *)
(* journey, for any stations, networks and delays, and whatever the        *)
(* evaluations say (ranking/service.py rank_features).                     *)
THEOREM DetourIsBounded == Spec => []BoundedDetour
BY ConsistentInit, ConsistentStep, DetourFollows, PTL DEF Spec

-----------------------------------------------------------------------------
(* More charge.                                                            *)

(* The time at a charger falls with the energy on arrival.                 *)
LEMMA ChargingTimeMono ==
  ASSUME NEW model \in Models, NEW a \in Fraction, NEW b \in Fraction,
         NEW r \in Fraction, NEW capacity \in Fraction, Leq(a, b)
  PROVE  Leq(ChargingTime(model, b, Greater(b, r), capacity),
             ChargingTime(model, a, Greater(a, r), capacity))
<1> DEFINE knee == Percent(80, capacity)
           power == Whole(Power[model])
           Fast(t, x) == Greater(Zero, Minus(Smaller(t, knee), Smaller(x, knee)))
           Slow(t, x) == Minus(Minus(t, x), Fast(t, x))
           Work(t, x) == Plus(Fast(t, x), Times(Slow(t, x), Whole(TaperDivisor)))
           Time(t, x) == IF Leq(t, x) THEN Zero ELSE Plus(Whole(Setup), Over(Work(t, x), power))
           ta == Greater(a, r)  tb == Greater(b, r)
<1>1. \A t, x : ChargingTime(model, x, t, capacity) = Time(t, x)
  BY DEF ChargingTime
<1>2. /\ power \in Fraction /\ power.n > 0 /\ Whole(Setup) \in Fraction /\ Whole(Setup).n >= 0
      /\ TaperDivisor \in Nat \ {0}
  BY PolicyAssumption, WholeType DEF Whole
<1>3. knee \in Fraction
  BY PercentValue
<1>4. /\ ta \in Fraction /\ Leq(a, ta) /\ tb \in {b, r} /\ tb \in Fraction
  BY GreaterBounds
<1>5. ~Leq(tb, b) => tb = r /\ ta = r
  <2>1. ~Leq(tb, b) => tb = r /\ ~Leq(r, b)
    BY <1>4, LeqRefl
  <2>2. ~Leq(r, b) => Leq(a, r)
    BY LeqTotal, LeqTrans
  <2> QED BY <2>1, <2>2 DEF Greater
<1> HIDE DEF knee, power, ta, tb
(* Everything is counted over one denominator.                             *)
<1>6. ASSUME NEW t \in Fraction, NEW x \in Fraction, NEW y \in Fraction, Leq(x, y), Leq(y, t)
      PROVE  /\ Work(t, x) \in Fraction /\ Work(t, x).n >= 0
             /\ Work(t, y) \in Fraction /\ Leq(Work(t, y), Work(t, x))
  <2> DEFINE kt == x.d * y.d * knee.d  kx == t.d * y.d * knee.d
             ky == t.d * x.d * knee.d  kk == t.d * x.d * y.d
             d == t.d * kt
             nt == t.n * kt  nx == x.n * kx  ny == y.n * ky  nk == knee.n * kk
             Low(u) == IF u <= nk THEN u ELSE nk
             F(u) == IF 0 <= Low(nt) - Low(u) THEN Low(nt) - Low(u) ELSE 0
             W(u) == F(u) + (nt - u - F(u)) * TaperDivisor
  <2>1. /\ kt \in Nat \ {0} /\ kx \in Nat \ {0} /\ ky \in Nat \ {0} /\ kk \in Nat \ {0}
        /\ d = t.d * kt /\ d = x.d * kx /\ d = y.d * ky /\ d = knee.d * kk
    <3> DEFINE td == t.d  xd == x.d  yd == y.d  kd == knee.d
    <3>1. td \in Nat \ {0} /\ xd \in Nat \ {0} /\ yd \in Nat \ {0} /\ kd \in Nat \ {0}
      BY <1>3 DEF Fraction
    <3> HIDE DEF td, xd, yd, kd
    <3>2. /\ xd * yd * kd \in Nat \ {0} /\ td * yd * kd \in Nat \ {0}
          /\ td * xd * kd \in Nat \ {0} /\ td * xd * yd \in Nat \ {0}
          /\ td * (xd * yd * kd) = xd * (td * yd * kd)
          /\ td * (xd * yd * kd) = yd * (td * xd * kd)
          /\ td * (xd * yd * kd) = kd * (td * xd * yd)
      BY <3>1
    <3> QED BY <3>2 DEF td, xd, yd, kd
  <2> HIDE DEF kt, kx, ky, kk, d
  <2>2. /\ d \in Nat \ {0} /\ nt \in Int /\ nx \in Int /\ ny \in Int /\ nk \in Int
        /\ Counts(t, d, nt) /\ Counts(x, d, nx) /\ Counts(y, d, ny) /\ Counts(knee, d, nk)
    BY <1>3, <2>1, CountOf
  <2>3. Counts(Zero, d, 0)
    BY <2>2, ZeroType DEF Counts, Zero, Whole
  <2> HIDE DEF nt, nx, ny, nk
  <2>4. ASSUME NEW z, NEW u \in Int, Counts(z, d, u)
        PROVE  Counts(Work(t, z), d, W(u))
    <3>1. Low(u) \in Int /\ Low(nt) \in Int
      BY <2>2
    <3>2. Counts(Smaller(z, knee), d, Low(u)) /\ Counts(Smaller(t, knee), d, Low(nt))
      BY <2>2, <2>4, CountBounds
    <3> HIDE DEF Low
    <3>3. Counts(Minus(Smaller(t, knee), Smaller(z, knee)), d, Low(nt) - Low(u))
      BY <2>2, <3>1, <3>2, CountMinus
    <3>4. F(u) \in Int /\ Counts(Fast(t, z), d, F(u))
      <4>1. Low(nt) - Low(u) \in Int /\ 0 \in Int
        BY <3>1
      <4>2. Counts(Fast(t, z), d, F(u))
        BY <2>2, <2>3, <3>3, <4>1, CountBounds
      <4> QED BY <4>1, <4>2
    <3> HIDE DEF F, Fast
    <3>5. nt - u \in Int /\ Counts(Minus(t, z), d, nt - u)
      BY <2>2, <2>4, CountMinus
    <3>6. nt - u - F(u) \in Int /\ Counts(Slow(t, z), d, nt - u - F(u))
      BY <2>2, <3>4, <3>5, CountMinus
    <3> HIDE DEF Slow
    <3>7. (nt - u - F(u)) * TaperDivisor \in Int
      BY <1>2, <3>6
    <3>8. Counts(Times(Slow(t, z), Whole(TaperDivisor)), d, (nt - u - F(u)) * TaperDivisor)
      BY <1>2, <2>2, <3>6, CountTimes
    <3> QED BY <2>2, <3>4, <3>7, <3>8, CountPlus
  <2>5. nx <= ny /\ ny <= nt
    BY <1>6, <2>2, CountLeq
  <2>6. /\ F(nx) \in Nat /\ F(ny) \in Nat /\ F(ny) <= F(nx)
        /\ nt - nx - F(nx) \in Nat /\ nt - ny - F(ny) \in Nat
        /\ nt - ny - F(ny) <= nt - nx - F(nx)
    BY <2>2, <2>5
  <2>7. W(nx) \in Nat /\ W(ny) \in Int /\ W(ny) <= W(nx)
    <3> HIDE DEF F
    <3>1. /\ (nt - nx - F(nx)) * TaperDivisor \in Nat /\ (nt - ny - F(ny)) * TaperDivisor \in Nat
      BY <1>2, <2>6
    <3>2. (nt - ny - F(ny)) * TaperDivisor <= (nt - nx - F(nx)) * TaperDivisor
      BY <1>2, <2>6, MulMono
    <3> QED BY <2>6, <3>1, <3>2
  <2> HIDE DEF W, Work
  <2>8. Counts(Work(t, x), d, W(nx)) /\ Counts(Work(t, y), d, W(ny))
    BY <2>2, <2>4
  <2>9. Leq(Work(t, y), Work(t, x)) /\ Leq(Zero, Work(t, x))
    BY <2>2, <2>3, <2>7, <2>8, CountLeq
  <2>10. Work(t, x) \in Fraction /\ Work(t, y) \in Fraction
    BY <2>8 DEF Counts
  <2> QED BY <2>9, <2>10, Positive
<1> HIDE DEF Work
<1>7. ASSUME NEW t \in Fraction, NEW x \in Fraction, ~Leq(t, x)
      PROVE  Over(Work(t, x), power) \in Fraction /\ Over(Work(t, x), power).n >= 0
  <2>1. Work(t, x) \in Fraction /\ Work(t, x).n >= 0
    BY <1>6, <1>7, LeqRefl, LeqTotal
  <2> QED BY <1>2, <2>1, OverValue, OverSign
<1>8. CASE Leq(tb, b)
  <2>1. Time(tb, b) = Zero
    BY <1>8
  <2>2. ~Leq(ta, a) => Leq(Zero, Plus(Whole(Setup), Over(Work(ta, a), power)))
    <3>1. ~Leq(ta, a) => /\ Over(Work(ta, a), power) \in Fraction
                         /\ Over(Work(ta, a), power).n >= 0
      BY <1>4, <1>7
    <3> QED BY <1>2, <3>1, PlusValue, PlusSign, Positive
  <2>3. Leq(Zero, Time(ta, a))
    BY <2>2, ZeroType, LeqRefl
  <2> QED BY <1>1, <2>1, <2>3 DEF ta, tb
<1>9. CASE ~Leq(tb, b)
  <2>1. tb = r /\ ta = r /\ ~Leq(r, b) /\ Leq(b, r) /\ ~Leq(r, a)
    BY <1>5, <1>9, LeqTotal, LeqTrans
  <2>2. Work(r, a) \in Fraction /\ Work(r, b) \in Fraction /\ Leq(Work(r, b), Work(r, a))
    BY <1>6, <2>1
  <2>3. /\ Over(Work(r, a), power) \in Fraction /\ Over(Work(r, b), power) \in Fraction
        /\ Leq(Over(Work(r, b), power), Over(Work(r, a), power))
    BY <1>2, <2>2, OverValue, OverMono
  <2>4. Leq(Plus(Whole(Setup), Over(Work(r, b), power)), Plus(Whole(Setup), Over(Work(r, a), power)))
    BY <1>2, <2>3, LeqRefl, PlusMono2
  <2>5. /\ Time(tb, b) = Plus(Whole(Setup), Over(Work(r, b), power))
        /\ Time(ta, a) = Plus(Whole(Setup), Over(Work(r, a), power))
    BY <2>1
  <2> QED BY <1>1, <2>4, <2>5 DEF ta, tb
<1> QED BY <1>8, <1>9

(* Capacities are whole watt-hours, so rounding exceeds none.              *)
LEMMA WholeCapacity ==
  ASSUME NEW v \in Vehicle
  PROVE  \E w \in Int : UsableCapacity(v).n = w * UsableCapacity(v).d
<1> DEFINE c == Catalog[v.model]
           counted == /\ c.module # None /\ v.installed # None
                      /\ v.installed % 2 = 0 /\ v.installed \div 2 \in 1..c.modules
           cap == UsableCapacity(v)
<1>1. /\ c \in Capability /\ v.installed \in Nat \cup {None} /\ cap \in Fraction
      /\ c.module # None => (c.module * c.usable) % c.battery = 0
  BY ModelType, CapacityType, CatalogAssumption DEF Vehicle
<1>2. cap = IF counted THEN Modular(c, v.installed, 2) ELSE Whole(c.usable)
  BY DEF UsableCapacity
<1> HIDE DEF c, cap
<1>3. CASE counted
  <2>1. /\ c.module \in Nat \ {0} /\ c.usable \in Nat \ {0} /\ c.battery \in Nat \ {0}
        /\ v.installed \in Nat /\ v.installed % 2 = 0
    BY <1>1, <1>3 DEF Capability
  <2>2. PICK w \in Int : c.module * c.usable = c.battery * w
    <3>1. c.module * c.usable \in Int /\ (c.module * c.usable) % c.battery = 0
      BY <1>1, <1>3, <2>1
    <3> QED BY <2>1, <3>1, ExactDivision
  <2>3. PICK h \in Int : v.installed = 2 * h
    BY <2>1, ExactDivision
  <2> DEFINE n == c.module * v.installed * c.usable  d == c.battery * 2
  <2>4. cap = Q(n, d)
    BY <1>2, <1>3 DEF Modular
  <2>5. n \in Int /\ d \in Nat \ {0} /\ n = (w * h) * d
    <3>1. n = (c.module * c.usable) * (2 * h)
      BY <2>1, <2>3
    <3>2. (c.battery * w) * (2 * h) = (w * h) * d
      BY <2>1
    <3>3. n \in Int /\ d \in Nat \ {0}
      BY <2>1
    <3> QED BY <2>2, <3>1, <3>2, <3>3
  <2> HIDE DEF n, d
  <2>6. cap.n * d = n * cap.d /\ cap.n \in Int /\ cap.d \in Int
    BY <1>1, <2>4, <2>5, QValue DEF Fraction
  <2>7. cap.n * d = ((w * h) * cap.d) * d /\ (w * h) * cap.d \in Int /\ w * h \in Int
    BY <2>5, <2>6
  <2>8. cap.n = (w * h) * cap.d
    BY <2>5, <2>6, <2>7, MulCancelEq
  <2> QED BY <2>7, <2>8 DEF cap
<1>4. CASE ~counted
  <2>1. cap = Whole(c.usable) /\ c.usable \in Int
    BY <1>1, <1>2, <1>4 DEF Capability
  <2> QED BY <2>1 DEF cap, Whole
<1> QED BY <1>3, <1>4

LEMMA RoundedBelow ==
  ASSUME NEW a \in Fraction, NEW cap \in Fraction, NEW w \in Int, cap.n = w * cap.d, Leq(a, cap)
  PROVE  Leq(Rounded(a), cap)
<1>1. Whole(w) \in Fraction /\ Whole(w).n = w /\ Whole(w).d = 1
  BY WholeType DEF Whole
<1>2. Leq(cap, Whole(w)) /\ Leq(Whole(w), cap)
  BY <1>1 DEF Leq, Fraction
<1>3. Leq(a, Whole(w))
  BY <1>1, <1>2, LeqTrans
<1>4. Nearest(Whole(w)) = w /\ Nearest(a) \in Int
  <2>1. (2 * w + 1) \div 2 = w
    OBVIOUS
  <2> QED BY <1>1, <2>1, NearestBounds DEF Nearest
<1>5. Nearest(a) <= w
  BY <1>1, <1>3, <1>4, NearestMono
<1>6. Leq(Rounded(a), Whole(w)) /\ Rounded(a) \in Fraction
  BY <1>4, <1>5, LeqWhole, WholeType DEF Rounded
<1> QED BY <1>1, <1>2, <1>6, LeqTrans

LEMMA RoundedMono ==
  ASSUME NEW a \in Fraction, NEW b \in Fraction, Leq(a, b)
  PROVE  Leq(Rounded(a), Rounded(b))
<1>1. Nearest(a) \in Int /\ Nearest(b) \in Int /\ Nearest(a) <= Nearest(b)
  BY NearestBounds, NearestMono
<1> QED BY <1>1, LeqWhole DEF Rounded

(* Times(x, a) as TimesMono has it.                                        *)
LEMMA TimesComm ==
  ASSUME NEW a \in Fraction, NEW b \in Fraction
  PROVE  Times(a, b) = Times(b, a)
<1>1. a.n * b.n = b.n * a.n /\ a.d * b.d = b.d * a.d
  BY DEF Fraction
<1> QED BY <1>1 DEF Times

-----------------------------------------------------------------------------
(* A request at a charge that is detected, neither stated as an energy nor *)
(* as a range.                                                             *)

Plain(x) == x \in Context /\ x.soc # None /\ x.energy = None /\ x.range = None

LEMMA PlainRequest ==
  ASSUME NEW x, Plain(x)
  PROVE  LET r == EnergyRequest(x)
             charge == Percent(x.soc, UsableCapacity(x.vehicle))
         IN  /\ r.soc = Whole(x.soc) /\ r.energy = Rounded(charge)
             /\ r.range = Rounded(Over(Times(Whole(Km), charge), Consumption(x)))
             /\ r.trip = (IF x.service # None /\ x.trip # None THEN Whole(x.trip)
                          ELSE IF Remaining(x) = None THEN None ELSE Rounded(Remaining(x)))
             /\ r.reserve = (IF x.service # None /\ x.reserve # None THEN Whole(x.reserve)
                             ELSE Rounded(Reserve(x)))
             /\ r.explicitRange = FALSE /\ r.requested = x.service
             /\ r.vehicle = x.vehicle /\ r.usable = UsableCapacity(x.vehicle)
             /\ r.consumption = Consumption(x)
             /\ r.source = (IF x.service = None THEN "AUTO_DETECTED" ELSE "DRIVER_REQUEST")
             /\ x.service # None => r.need = TRUE
             /\ r.need \in BOOLEAN
             /\ r.resolved = (IF x.service = None THEN AutoService(Catalog[x.vehicle.model], r.need)
                              ELSE DriverService(Catalog[x.vehicle.model], x.service))
             /\ r.valid = (x.service = None \/ DriverServiceValid(Catalog[x.vehicle.model], x.service))
             /\ r.valid => ~Unusable(r)
<1> DEFINE capacity == UsableCapacity(x.vehicle)
           state == EvaluateNeed(x, capacity)
           charge == Percent(x.soc, capacity)
           range == Over(Times(Whole(Km), charge), Consumption(x))
           low == BelowSafe(x, capacity)
           c == Catalog[x.vehicle.model]
           r == EnergyRequest(x)
           valid == x.service = None \/ DriverServiceValid(c, x.service)
<1>1. EnergyLeft(x, capacity) = charge /\ RangeLeft(x, capacity) = range
  BY DEF EnergyLeft, RangeLeft, Given, Plain
<1>2. ~InvalidState(x, capacity)
  BY CatalogAssumption DEF InvalidState, Plain, Context
<1>3. state = Assessment(Remaining(x), Reserve(x), charge, range, low)
  BY <1>1, <1>2 DEF EvaluateNeed, Plain
<1> HIDE DEF charge, range, low, capacity
<1>4. /\ state.energy = Rounded(charge) /\ state.range = Rounded(range)
      /\ state.reserve = Rounded(Reserve(x))
      /\ state.trip = IF Remaining(x) = None THEN None ELSE Rounded(Remaining(x))
      /\ state.reason \notin {"MISSING_DATA", "INVALID_STATE"}
      /\ state.need \in BOOLEAN
  <2>1. low \in BOOLEAN /\ InsufficientRange(range, Remaining(x), Reserve(x)) \in BOOLEAN
    BY DEF low, BelowSafe, InsufficientRange, Less, Leq
  <2> QED BY <1>3, <2>1 DEF Assessment
<1> HIDE DEF state
<1>5. r = Requested(x, capacity, state)
  BY DEF EnergyRequest, state, capacity
<1>6. /\ r.soc = Given(x.soc, None) /\ r.energy = Given(x.energy, state.energy)
      /\ r.range = IF x.service = None THEN state.range ELSE Given(x.range, state.range)
      /\ r.trip = IF x.service = None THEN state.trip ELSE Given(x.trip, state.trip)
      /\ r.reserve = IF x.service = None THEN state.reserve ELSE Given(x.reserve, state.reserve)
      /\ r.explicitRange = (x.range # None) /\ r.requested = x.service
      /\ r.vehicle = x.vehicle /\ r.usable = capacity /\ r.consumption = Consumption(x)
      /\ r.source = (IF x.service = None THEN "AUTO_DETECTED" ELSE "DRIVER_REQUEST")
      /\ r.need = (IF x.service = None THEN state.need ELSE TRUE)
      /\ r.resolved = (IF x.service = None THEN AutoService(c, state.need) ELSE DriverService(c, x.service))
      /\ r.valid = valid
      /\ r.reason = (IF x.service = None THEN state.reason
                     ELSE IF valid THEN "VALID_REQUEST" ELSE "UNSUPPORTED_SERVICE")
  BY <1>5 DEF Requested
<1> HIDE DEF r, c, valid
<1>7. r.valid => ~Unusable(r)
  <2>1. valid => r.reason \notin {"MISSING_DATA", "INVALID_STATE"}
    BY <1>4, <1>6
  <2> QED BY <1>6, <2>1 DEF Unusable
<1>8. x.soc # None /\ x.energy = None /\ x.range = None
  BY DEF Plain
<1>9. /\ r.soc = Whole(x.soc) /\ r.energy = Rounded(charge) /\ r.range = Rounded(range)
      /\ r.explicitRange = FALSE
  BY <1>4, <1>6, <1>8 DEF Given
<1>10. /\ r.trip = IF x.service # None /\ x.trip # None THEN Whole(x.trip)
                   ELSE IF Remaining(x) = None THEN None ELSE Rounded(Remaining(x))
       /\ r.reserve = IF x.service # None /\ x.reserve # None THEN Whole(x.reserve)
                      ELSE Rounded(Reserve(x))
  BY <1>4, <1>6 DEF Given
<1>11. /\ x.service # None => r.need = TRUE
       /\ r.need \in BOOLEAN
       /\ r.resolved = IF x.service = None THEN AutoService(c, r.need) ELSE DriverService(c, x.service)
  BY <1>4, <1>6
<1> QED BY <1>6, <1>7, <1>9, <1>10, <1>11 DEF r, c, valid, capacity, charge, range

(* q asks for what p asks for, with at least its energy and range.         *)
SameDemand(p, q) ==
  /\ q.vehicle = p.vehicle /\ q.usable = p.usable /\ q.consumption = p.consumption
  /\ p.explicitRange = FALSE /\ q.explicitRange = FALSE
  /\ q.reserve = p.reserve /\ q.trip = p.trip
  /\ q.source = p.source /\ q.requested = p.requested /\ q.resolved = p.resolved
  /\ p.need = TRUE /\ q.need = TRUE /\ p.valid = q.valid

Better(p, q) ==
  /\ SameDemand(p, q)
  /\ p.energy \in Fraction /\ q.energy \in Fraction
  /\ Leq(p.energy, q.energy) /\ Leq(q.energy, q.usable)
  /\ p.range \in Fraction /\ q.range \in Fraction /\ Leq(p.range, q.range)
  /\ q.soc \in Fraction /\ q.soc.n >= 0 /\ Leq(q.soc, Whole(100))
  /\ q.valid => ~Unusable(q)

LEMMA FractionsGiven == \A a \in Fraction : a # None
  BY CatalogAssumption

LEMMA BetterCurrent ==
  ASSUME NEW p, NEW q, Better(p, q)
  PROVE  /\ Current(p, p.usable) = p.energy /\ Current(q, q.usable) = q.energy
         /\ PerUnit(q) = PerUnit(p)
<1>1. p.energy # None /\ q.energy # None
  BY FractionsGiven DEF Better
<1> QED BY <1>1 DEF Current, PerUnit, Better, SameDemand

LEMMA MoreCharge ==
  ASSUME NEW x, Plain(x), NEW more \in 0..100, x.soc <= more,
         EnergyRequest(x).need, EnergyRequest([x EXCEPT !.soc = more]).need
  PROVE  /\ Plain([x EXCEPT !.soc = more])
         /\ Better(EnergyRequest(x), EnergyRequest([x EXCEPT !.soc = more]))
<1> DEFINE y == [x EXCEPT !.soc = more]
           p == EnergyRequest(x)  q == EnergyRequest(y)
           capacity == UsableCapacity(x.vehicle)
           low == Percent(x.soc, capacity)  high == Percent(more, capacity)
           Far2(e) == Over(Times(Whole(Km), e), Consumption(x))
<1>1. /\ y \in Context /\ y.soc = more /\ y.vehicle = x.vehicle /\ y.energy = x.energy
      /\ y.range = x.range /\ y.trip = x.trip /\ y.planned = x.planned /\ y.travelled = x.travelled
      /\ y.reserve = x.reserve /\ y.consumption = x.consumption /\ y.service = x.service
  BY DEF Plain, Context
<1>2. Plain(y)
  BY <1>1, CatalogAssumption DEF Plain
<1>3. Remaining(y) = Remaining(x) /\ Consumption(y) = Consumption(x)
  BY <1>1 DEF Remaining, Consumption
<1>4. Reserve(y) = Reserve(x)
  BY <1>1, <1>3 DEF Reserve
<1> HIDE DEF y
<1> DEFINE Trip(z) == IF z.service # None /\ z.trip # None THEN Whole(z.trip)
                      ELSE IF Remaining(z) = None THEN None ELSE Rounded(Remaining(z))
           Kept(z) == IF z.service # None /\ z.reserve # None THEN Whole(z.reserve)
                      ELSE Rounded(Reserve(z))
           Of(r, z) ==
             /\ r.energy = Rounded(Percent(z.soc, UsableCapacity(z.vehicle)))
             /\ r.range = Rounded(Over(Times(Whole(Km), Percent(z.soc, UsableCapacity(z.vehicle))),
                                       Consumption(z)))
             /\ r.soc = Whole(z.soc) /\ r.usable = UsableCapacity(z.vehicle)
             /\ r.explicitRange = FALSE /\ r.requested = z.service /\ r.vehicle = z.vehicle
             /\ r.consumption = Consumption(z)
             /\ r.source = (IF z.service = None THEN "AUTO_DETECTED" ELSE "DRIVER_REQUEST")
             /\ r.valid = (z.service = None \/ DriverServiceValid(Catalog[z.vehicle.model], z.service))
             /\ r.trip = Trip(z) /\ r.reserve = Kept(z)
<1>5. Of(p, x)
  BY PlainRequest
<1>6. Of(q, y)
  BY <1>2, PlainRequest
<1>7. Trip(y) = Trip(x) /\ Kept(y) = Kept(x)
  BY <1>1, <1>3, <1>4
<1> HIDE DEF p, q, Trip, Kept
<1>8. /\ p.energy = Rounded(low) /\ p.range = Rounded(Far2(low))
      /\ q.energy = Rounded(high) /\ q.range = Rounded(Far2(high)) /\ q.soc = Whole(more)
      /\ p.usable = capacity /\ q.usable = capacity
  BY <1>1, <1>3, <1>5, <1>6
<1>9. p.need = TRUE /\ q.need = TRUE
  BY <1>2, PlainRequest DEF y, p, q
<1>10. SameDemand(p, q)
  <2>1. /\ p.explicitRange = FALSE /\ q.explicitRange = FALSE /\ q.vehicle = p.vehicle
        /\ q.usable = p.usable /\ q.consumption = p.consumption
        /\ q.source = p.source /\ q.requested = p.requested /\ p.valid = q.valid
    BY <1>1, <1>3, <1>5, <1>6
  <2>2. q.reserve = p.reserve /\ q.trip = p.trip
    BY <1>5, <1>6, <1>7
  <2>3. q.resolved = p.resolved
    <3>1. /\ p.resolved = (IF x.service = None THEN AutoService(Catalog[x.vehicle.model], p.need)
                           ELSE DriverService(Catalog[x.vehicle.model], x.service))
          /\ q.resolved = (IF y.service = None THEN AutoService(Catalog[y.vehicle.model], q.need)
                           ELSE DriverService(Catalog[y.vehicle.model], y.service))
      BY <1>2, PlainRequest DEF p, q
    <3> QED BY <1>1, <1>9, <3>1
  <2> QED BY <1>9, <2>1, <2>2, <2>3 DEF SameDemand
<1>11. capacity \in Fraction /\ capacity.n >= 0 /\ x.soc \in Int /\ x.vehicle \in Vehicle /\ x \in Context
  BY CapacityType, CatalogAssumption DEF Plain, Context, Fraction
<1> HIDE DEF capacity
<1>12. low \in Fraction /\ high \in Fraction /\ Leq(low, high) /\ Leq(high, capacity)
  <2>1. more \in Int /\ more <= 100 /\ x.soc <= more
    OBVIOUS
  <2>2. \A e \in Int : Percent(e, capacity) \in Fraction
    BY <1>11, PercentValue
  <2> QED BY <1>11, <2>1, <2>2, PercentMono
<1> HIDE DEF low, high
<1>13. Whole(Km) \in Fraction /\ Whole(Km).n >= 0 /\ Consumption(x) \in Fraction /\ Consumption(x).n > 0
  BY <1>11, PolicyAssumption, WholeType, ConsumptionType DEF Whole
<1>14. Far2(low) \in Fraction /\ Far2(high) \in Fraction /\ Leq(Far2(low), Far2(high))
  <2>1. /\ Times(Whole(Km), low) \in Fraction /\ Times(Whole(Km), high) \in Fraction
        /\ Times(Whole(Km), low) = Times(low, Whole(Km)) /\ Times(Whole(Km), high) = Times(high, Whole(Km))
    BY <1>12, <1>13, TimesValue, TimesComm
  <2>2. Leq(Times(Whole(Km), low), Times(Whole(Km), high))
    BY <1>12, <1>13, <2>1, TimesMono
  <2> QED BY <1>13, <2>1, <2>2, OverValue, OverMono
<1> HIDE DEF Far2
<1>15. /\ Leq(p.energy, q.energy) /\ Leq(p.range, q.range)
       /\ p.energy \in Fraction /\ q.energy \in Fraction /\ p.range \in Fraction /\ q.range \in Fraction
  BY <1>8, <1>12, <1>14, RoundedMono, RoundedType
<1>16. Leq(q.energy, q.usable)
  <2>1. PICK w \in Int : capacity.n = w * capacity.d
    BY <1>11, WholeCapacity DEF capacity
  <2> QED BY <1>8, <1>11, <1>12, <2>1, RoundedBelow
<1>17. q.soc \in Fraction /\ q.soc.n >= 0 /\ Leq(q.soc, Whole(100))
  BY <1>8, WholeType, LeqWhole DEF Whole
<1>18. q.valid => ~Unusable(q)
  BY <1>2, PlainRequest DEF q
<1>19. Better(p, q)
  BY <1>10, <1>15, <1>16, <1>17, <1>18 DEF Better
<1> QED BY <1>2, <1>19 DEF y, p, q

(* What is not refused at the lower charge is not refused at the higher.   *)
LEMMA BetterAccepted ==
  ASSUME NEW p, NEW q, Better(p, q), Sound(p), ~Refused(p)
  PROVE  ~Refused(q)
<1>1. /\ p.valid /\ ~Negative(p.energy) /\ ~Negative(p.range) /\ ~Negative(p.trip)
      /\ ~Negative(p.reserve)
  BY DEF Refused, Unusable
<1>2. Leq(Zero, p.energy) /\ Leq(Zero, p.range)
  BY <1>1, FractionsGiven, Positive DEF Negative, Better, Less
<1>3. Leq(Zero, q.energy) /\ Leq(Zero, q.range)
  BY <1>2, ZeroType, LeqTrans DEF Better
<1>4. ~Negative(q.energy) /\ ~Negative(q.range) /\ ~Negative(q.soc)
  BY <1>3, Positive DEF Negative, Less, Better
<1>5. ~Negative(q.trip) /\ ~Negative(q.reserve) /\ ~Unusable(q)
  BY <1>1 DEF Better, SameDemand
<1>6. ~Less(Whole(100), q.soc)
  BY DEF Less, Better
<1> QED BY <1>4, <1>5, <1>6 DEF Refused

(* The battery of the better request is as sound.                          *)
LEMMA BetterBasis ==
  ASSUME NEW p, NEW q, Better(p, q), BasisValid(p), PerUnit(p) # Zero,
         p.range # None, Less(Zero, p.range)
  PROVE  BasisValid(q) /\ PerUnit(q) # Zero
<1>1. Current(q, q.usable) = q.energy /\ PerUnit(q) = PerUnit(p)
  BY BetterCurrent
<1>2. q.soc # None
  BY FractionsGiven DEF Better
<1>3. q.range # Zero
  <2>1. ~Leq(p.range, Zero) /\ Leq(p.range, q.range)
    BY DEF Less, Better
  <2> QED BY <2>1
<1> QED BY <1>1, <1>2, <1>3 DEF BasisValid, Better, SameDemand, InstalledModules

LEMMA BetterOffer ==
  ASSUME NEW p, NEW q, Better(p, q), Sound(p), ~Refused(p),
         NEW net \in [Places \X Places -> Leg \cup {None}], NEW from \in Places,
         NEW to \in Places \cup {None}, NEW state \in [Stations -> Row],
         NEW c \in EligiblePairs(Candidates(p, net, from, to, state))
  PROVE  LET worse == Candidates(p, net, from, to, state)
             offers == Candidates(q, net, from, to, state)
         IN  /\ c \in EligiblePairs(offers)
             /\ Leq(offers[c].estimate.duration, worse[c].estimate.duration)
<1> DEFINE metrics == Metrics(net, from, c.station, to)
           op == Operational(state[c.station], c.service)
           onward == Onward(to, metrics)
           E(r) == EstimateOf(r, c, to, metrics, op)
           V(r) == Evaluated(r, c, to, metrics, op)
           Feasible(r) == metrics.reachable /\ FeasibleTo(metrics.distance, r)
           swap == c.service = "BATTERY_SWAP"
           worse == Candidates(p, net, from, to, state)
           offers == Candidates(q, net, from, to, state)
<1>1. /\ SearchStatus(p) = "SUCCESS" /\ c \in Expanded(p) /\ V(p).eligible /\ worse[c] = V(p)
      /\ \/ ~(SearchStatus(q) = "SUCCESS" /\ c \in Expanded(q) /\ V(q).eligible)
         \/ c \in EligiblePairs(offers) /\ offers[c] = V(q)
  BY OfferedMeans
<1>2. /\ Eligibility(metrics.reachable, Compatible(p.vehicle, c), op, c.service, Feasible(p)) = "ELIGIBLE"
      /\ to # None => metrics.onward # None
      /\ E(p).status = "AVAILABLE" /\ V(p).estimate = E(p)
  BY <1>1, EligibleMeans
<1>3. /\ V(q).eligible <=>
           /\ Eligibility(metrics.reachable, Compatible(q.vehicle, c), op, c.service, Feasible(q)) = "ELIGIBLE"
           /\ to # None => metrics.onward # None
           /\ E(q).status = "AVAILABLE"
      /\ V(q).eligible => V(q).estimate = E(q)
  BY EligibleMeans
<1> HIDE DEF V, worse, offers
<1>4. metrics.reachable /\ FeasibleTo(metrics.distance, p)
  <2>1. Feasible(p) \in BOOLEAN
    OBVIOUS
  <2>2. Feasible(p)
    <3> HIDE DEF Feasible
    <3> QED BY <1>2, <2>1, EligibilityMeans
  <2> QED BY <2>2
<1>5. /\ metrics.distance \in Nat /\ metrics.onward \in Leg \cup {None}
      /\ op.serviceTime \in Nat
  <2>1. c.station \in Stations /\ c.service \in Services
    BY <1>1 DEF Expanded, Pairs
  <2> QED BY <1>4, <2>1, MetricsType, OperationalType
<1>6. onward \in Nat \cup {None}
  BY <1>2, <1>5 DEF Onward, Leg
<1> HIDE DEF metrics, op, onward
<1>7. /\ p.range # None /\ Less(Zero, p.range) /\ p.range \in Fraction
      /\ Leq(Plus(Whole(metrics.distance), Q(Km, 2)), p.range)
  BY <1>4 DEF FeasibleTo, Better
<1>8. FeasibleTo(metrics.distance, q)
  <2>1. Leq(p.range, q.range) /\ q.range \in Fraction /\ q.range # None
    BY FractionsGiven DEF Better
  <2>2. Plus(Whole(metrics.distance), Q(Km, 2)) \in Fraction
    BY <1>5, WholeType, PolicyAssumption, QValue, PlusValue
  <2>3. Leq(Plus(Whole(metrics.distance), Q(Km, 2)), q.range)
    BY <1>7, <2>1, <2>2, LeqTrans
  <2>4. Less(Zero, q.range)
    BY <1>7, <2>1, ZeroType, LeqTrans DEF Less
  <2> QED BY <2>1, <2>3, <2>4 DEF FeasibleTo
<1>9. Eligibility(metrics.reachable, Compatible(q.vehicle, c), op, c.service, Feasible(q)) = "ELIGIBLE"
  <2>1. q.vehicle = p.vehicle /\ Feasible(q) /\ Feasible(p)
    BY <1>4, <1>8 DEF Better, SameDemand
  <2> HIDE DEF Feasible
  <2> QED BY <1>2, <2>1, EligibilityMeans
<1>10. SearchStatus(q) = "SUCCESS" /\ c \in Expanded(q)
  <2>1. SearchStatus(q) = SearchStatus(p)
    BY DEF SearchStatus, Better, SameDemand
  <2>2. Expanded(q) = Expanded(p)
    BY DEF Expanded, Evaluable, Better, SameDemand
  <2> QED BY <1>1, <2>1, <2>2
(* The estimates.                                                          *)
<1> DEFINE ap == Arriving(p, metrics.distance)  aq == Arriving(q, metrics.distance)
           required == Required(p, onward)
           Target(a) == IF swap THEN Percent(SwapPct, p.usable) ELSE Greater(a, required)
           model == p.vehicle.model
           Lasts(a) == IF swap THEN Whole(op.serviceTime)
                       ELSE ChargingTime(model, a, Target(a), p.usable)
<1>11. /\ BasisValid(p) /\ PerUnit(p) # Zero /\ ~Less(ap, Zero) /\ ~Less(p.usable, required)
       /\ ~(swap /\ onward # None /\ Less(Target(ap), required))
       /\ E(p).duration = Lasts(ap)
  BY <1>2, EstimateMeans DEF EstimateOf, onward
<1>12. Required(q, onward) = required
  <2>1. PerUnit(q) = PerUnit(p) /\ ReserveAfter(q, onward) = ReserveAfter(p, onward) /\ q.usable = p.usable
    BY BetterCurrent DEF ReserveAfter, Better, SameDemand
  <2> QED BY <2>1 DEF Required
<1>13. BasisValid(q) /\ PerUnit(q) # Zero
  BY <1>7, <1>11, BetterBasis
<1>14. PerUnit(p) \in Fraction /\ Sound(p) /\ p.soc # None
  <2>1. p.soc # None /\ p.range.n >= 0
    BY <1>7, <1>11, Positive DEF BasisValid, Fraction
  <2> QED BY <1>7, <2>1, PerUnitType
<1>15. /\ p.energy \in Fraction /\ q.energy \in Fraction /\ Leq(p.energy, q.energy)
       /\ p.usable \in Fraction /\ q.usable = p.usable /\ q.vehicle = p.vehicle
       /\ model \in Models
  BY <1>14 DEF Better, SameDemand, Sound, Vehicle
<1>16. /\ ap \in Fraction /\ aq \in Fraction /\ Leq(ap, aq)
  <2> DEFINE used == Times(Whole(metrics.distance), PerUnit(p))
  <2>1. ap = Minus(p.energy, used) /\ aq = Minus(q.energy, used)
    BY BetterCurrent DEF Arriving
  <2>2. used \in Fraction
    BY <1>5, <1>14, WholeType, TimesValue
  <2> HIDE DEF used
  <2> QED BY <1>15, <2>1, <2>2, MinusValue, MinusMono
<1>17. required \in Fraction
  BY <1>6, <1>14, RequiredType
<1> HIDE DEF ap, aq, required, model
<1>18. ~Less(aq, Zero)
  BY <1>11, <1>16, ZeroType, LeqTrans DEF Less
<1>19. ~(swap /\ onward # None /\ Less(Target(aq), required))
  BY <1>11
<1>20. E(q).status = "AVAILABLE" /\ E(q).duration = Lasts(aq)
  <2>1. LET target == IF swap THEN Percent(SwapPct, q.usable) ELSE Greater(aq, Required(q, onward))
        IN  /\ E(q).status = "AVAILABLE" <=>
                 /\ BasisValid(q) /\ PerUnit(q) # Zero /\ ~Less(aq, Zero)
                 /\ ~Less(q.usable, Required(q, onward))
                 /\ ~(swap /\ onward # None /\ Less(target, Required(q, onward)))
            /\ E(q).status = "AVAILABLE" =>
                 E(q).duration = IF swap THEN Whole(op.serviceTime)
                                 ELSE ChargingTime(q.vehicle.model, aq, target, q.usable)
    BY EstimateMeans DEF EstimateOf, onward, aq
  <2> HIDE DEF E, swap
  <2> QED BY <1>11, <1>12, <1>13, <1>15, <1>18, <1>19, <2>1 DEF model
<1>21. Leq(Lasts(aq), Lasts(ap))
  <2>1. CASE swap
    <3>1. Lasts(aq) = Whole(op.serviceTime) /\ Lasts(ap) = Whole(op.serviceTime)
      BY <2>1
    <3>2. Leq(Whole(op.serviceTime), Whole(op.serviceTime))
      BY <1>5, WholeType, LeqRefl
    <3> QED BY <3>1, <3>2
  <2>2. CASE ~swap
    <3>1. /\ Lasts(ap) = ChargingTime(model, ap, Greater(ap, required), p.usable)
          /\ Lasts(aq) = ChargingTime(model, aq, Greater(aq, required), p.usable)
      BY <2>2
    <3> HIDE DEF Lasts
    <3> QED BY <1>15, <1>16, <1>17, <3>1, ChargingTimeMono
  <2> QED BY <2>1, <2>2
<1> HIDE DEF E, Lasts
<1>22. V(q).eligible
  BY <1>2, <1>3, <1>9, <1>20
<1> QED BY <1>1, <1>2, <1>3, <1>10, <1>11, <1>20, <1>21, <1>22 DEF worse, offers

(* The request at the destination is the better one still.                 *)
LEMMA BetterArrival ==
  ASSUME NEW x \in Context, NEW y \in Context, NEW leg \in Leg,
         Better(EnergyRequest(x), EnergyRequest(y)), EnergyRequest(x).soc # None,
         EnergyRequest(x).range.n >= 0, PerUnit(EnergyRequest(x)) # Zero,
         ~Negative(EnergyRequest(x).soc), ~Negative(EnergyRequest(x).energy)
  PROVE  Better(Arrived(EnergyRequest(x), leg), Arrived(EnergyRequest(y), leg))
<1> DEFINE p == EnergyRequest(x)  q == EnergyRequest(y)
           way == Whole(leg.distance)
           used == Times(way, PerUnit(p))
           ep == Greater(Zero, Minus(p.energy, used))
           eq == Greater(Zero, Minus(q.energy, used))
           ap == Arrived(p, leg)  aq == Arrived(q, leg)
<1>1. /\ Sound(p) /\ Current(p, p.usable) = p.energy /\ Current(q, q.usable) = q.energy
      /\ PerUnit(q) = PerUnit(p)
  BY RequestSound, BetterCurrent
<1>2. /\ ap.vehicle = p.vehicle /\ ap.usable = p.usable /\ ap.consumption = p.consumption
      /\ ap.explicitRange = p.explicitRange /\ ap.reserve = p.reserve
      /\ ap.source = p.source /\ ap.requested = p.requested /\ ap.resolved = p.resolved
      /\ ap.need = p.need /\ ap.valid = p.valid /\ ap.reason = p.reason
      /\ ap.energy = ep /\ ap.range = Minus(p.range, way) /\ ap.trip = Zero
  BY <1>1, ArrivedFields
<1>3. /\ aq.vehicle = q.vehicle /\ aq.usable = q.usable /\ aq.consumption = q.consumption
      /\ aq.explicitRange = q.explicitRange /\ aq.reserve = q.reserve
      /\ aq.source = q.source /\ aq.requested = q.requested /\ aq.resolved = q.resolved
      /\ aq.need = q.need /\ aq.valid = q.valid /\ aq.reason = q.reason
      /\ aq.energy = eq /\ aq.soc = Over(Times(Whole(100), eq), q.usable)
      /\ aq.range = Minus(q.range, way) /\ aq.trip = Zero
  BY <1>1, ArrivedFields
<1>4. Better(p, q) /\ p.soc # None /\ p.range \in Fraction /\ p.range.n >= 0
      /\ q.range \in Fraction /\ Leq(p.range, q.range)
      /\ p.energy \in Fraction /\ q.energy \in Fraction /\ Leq(p.energy, q.energy)
      /\ Leq(q.energy, q.usable) /\ q.usable = p.usable /\ p.usable \in Fraction /\ p.usable.n > 0
  BY <1>1 DEF Better, SameDemand, Sound
<1>5. PerUnit(p) \in Fraction /\ PerUnit(p).n >= 0
  <2>1. PerUnit(p) # Zero /\ ~Negative(p.soc) /\ ~Negative(p.energy)
    OBVIOUS
  <2> HIDE DEF p
  <2>2. PerUnit(p) \in Fraction /\ PerUnit(p).n > 0
    BY <1>1, <1>4, <2>1, PerUnitType
  <2> QED BY <2>2 DEF Fraction
<1> HIDE DEF p, q, ap, aq
<1>6. way \in Fraction /\ way.n >= 0
  BY WholeType DEF Leg, Whole
<1>7. used \in Fraction /\ used.n >= 0
  BY <1>5, <1>6, TimesValue, TimesSign
<1> HIDE DEF way, used
<1>8. /\ Minus(p.energy, used) \in Fraction /\ Minus(q.energy, used) \in Fraction
      /\ Leq(Minus(p.energy, used), Minus(q.energy, used)) /\ Leq(Minus(q.energy, used), q.energy)
  BY <1>4, <1>7, MinusValue, MinusMono, MinusLess
<1>9. /\ ep \in Fraction /\ eq \in Fraction /\ Leq(ep, eq) /\ eq.n >= 0
  <2>1. ep \in Fraction /\ eq \in Fraction /\ Leq(Zero, eq)
    BY <1>8, ZeroType, GreaterBounds
  <2>2. Leq(ep, eq)
    BY <1>8, ZeroType, GreaterMono
  <2> QED BY <2>1, <2>2, Positive
<1>10. Leq(eq, q.usable)
  <2>1. Leq(Minus(q.energy, used), q.usable)
    BY <1>4, <1>8, LeqTrans
  <2>2. Leq(Zero, q.usable)
    BY <1>4, Positive DEF Fraction
  <2> QED BY <2>1, <2>2 DEF Greater
<1> HIDE DEF ep, eq
<1>11. /\ Over(Times(Whole(100), eq), q.usable) \in Fraction
       /\ Over(Times(Whole(100), eq), q.usable).n >= 0
       /\ Leq(Over(Times(Whole(100), eq), q.usable), Whole(100))
  BY <1>4, <1>9, <1>10, PartInPercent
<1>12. /\ Minus(p.range, way) \in Fraction /\ Minus(q.range, way) \in Fraction
       /\ Leq(Minus(p.range, way), Minus(q.range, way))
  BY <1>4, <1>6, MinusValue, MinusMono
<1>13. SameDemand(ap, aq)
  <2>1. SameDemand(p, q)
    BY <1>4 DEF Better
  <2> QED BY <1>2, <1>3, <2>1 DEF SameDemand
<1>14. aq.valid => ~Unusable(aq)
  <2>1. q.valid => ~Unusable(q)
    BY <1>4 DEF Better
  <2> QED BY <1>3, <2>1 DEF Unusable
<1>15. Better(ap, aq)
  BY <1>2, <1>3, <1>4, <1>9, <1>10, <1>11, <1>12, <1>13, <1>14 DEF Better
<1> QED BY <1>15 DEF ap, aq, p, q

(* The destination stays in reach.                                         *)
LEMMA BetterReaches ==
  ASSUME NEW p, NEW q, Better(p, q), Sound(p), NEW leg \in Leg, ReachesDestination(p, leg)
  PROVE  ReachesDestination(q, leg)
<1> DEFINE kept == IF p.reserve # None THEN p.reserve ELSE Zero
<1>1. kept \in Fraction /\ Leq(Plus(Whole(leg.distance), kept), p.range)
  BY ZeroType DEF ReachesDestination, Sound, Value
<1>2. q.reserve = p.reserve /\ p.range \in Fraction /\ q.range \in Fraction /\ Leq(p.range, q.range)
  BY DEF Better, SameDemand
<1>3. Plus(Whole(leg.distance), kept) \in Fraction
  BY <1>1, WholeType, PlusValue DEF Leg
<1> HIDE DEF kept
<1>4. Leq(Plus(Whole(leg.distance), kept), q.range)
  BY <1>1, <1>2, <1>3, LeqTrans
<1>5. leg # None /\ q.range # None
  BY <1>2, FractionsGiven DEF ReachesDestination
<1> QED BY <1>2, <1>4, <1>5 DEF ReachesDestination, kept

LEMMA ChargeFollows == Consistent => ChargeNeverHurts
<1> SUFFICES ASSUME Consistent, pc = "rank", ctx.soc # None, ctx.energy = None, ctx.range = None,
                    NEW more \in Charges, more > ctx.soc, more <= 100,
                    EnergyRequest([ctx EXCEPT !.soc = more]).need,
                    NEW c \in EligiblePairs(candidates)
             PROVE  LET offers == Offers(EnergyRequest([ctx EXCEPT !.soc = more]))
                    IN  /\ c \in EligiblePairs(offers)
                        /\ Leq(offers[c].estimate.duration, candidates[c].estimate.duration)
  BY DEF ChargeNeverHurts, NoWorse
<1> DEFINE y == [ctx EXCEPT !.soc = more]
           better == EnergyRequest(y)
           leg == network[<<"origin", "destination">>]
           Won(offers) == /\ c \in EligiblePairs(offers)
                          /\ Leq(offers[c].estimate.duration, candidates[c].estimate.duration)
<1>1. /\ Found /\ ctx \in Context /\ live = EnergyRequest(ctx) /\ Sound(live) /\ Sound(request)
      /\ network \in [Places \X Places -> Leg \cup {None}]
      /\ From \in Places /\ To \in Places \cup {None}
  BY EligibleFound, FoundTypes
<1>2. Plain(ctx) /\ more \in 0..100 /\ ctx.soc <= more /\ rows \in [Stations -> Row]
  <2>1. ctx.soc \in 0..100
    BY <1>1 DEF Context
  <2>2. more \in 0..100
    <3>1. more # None /\ \E t \in Contexts : more = t.soc
      BY DEF Charges
    <3>2. more \in 0..100 \cup {None}
      BY <3>1, InputAssumption DEF Context
    <3> QED BY <3>1, <3>2
  <2>3. rows \in [Stations -> Row]
    BY InputAssumption DEF Consistent
  <2> QED BY <1>1, <2>1, <2>2, <2>3 DEF Plain
<1>3. request.need /\ ~Refused(request) /\ candidates = Candidates(request, network, From, To, rows)
  <2>1. ~Refused(request) /\ candidates = Candidates(request, network, From, To, rows)
    BY <1>1 DEF Found
  <2>2. SearchStatus(request) = "SUCCESS"
    BY <2>1, OfferedMeans
  <2>3. request.source = live.source /\ request.need = live.need
    BY <1>1, ArrivedFields DEF Found, Chosen
  <2>4. live.need \in BOOLEAN /\ live.source \in {"AUTO_DETECTED", "DRIVER_REQUEST"}
        /\ (live.source = "DRIVER_REQUEST" => live.need = TRUE)
    BY <1>1, <1>2, PlainRequest
  <2> QED BY <2>1, <2>2, <2>3, <2>4 DEF SearchStatus
<1>4. live.need
  BY <1>1, <1>3, ArrivedFields DEF Found, Chosen
<1>5. Plain(y) /\ Better(live, better)
  BY <1>1, <1>2, <1>4, MoreCharge
<1>6. /\ BasisValid(request) /\ PerUnit(request) # Zero /\ request.range \in Fraction /\ request.range.n > 0
  BY BatteryFacts, EligibleFacts, EstimateMeans DEF EstimateOf
<1> HIDE DEF y, better
<1>7. CASE mode # "AFTER_DESTINATION"
  <2>1. request = live
    BY <1>1, <1>7 DEF Found, Chosen
  <2>2. ~Refused(better)
    BY <1>1, <1>3, <1>5, <2>1, BetterAccepted
  <2>3. Offers(better) = Candidates(better, network, From, To, rows)
    BY <1>7, <2>2 DEF Offers
  <2>4. Won(Candidates(better, network, From, To, rows))
    BY <1>1, <1>2, <1>3, <1>5, <2>1, BetterOffer
  <2> QED BY <2>3, <2>4 DEF better, y
<1>8. CASE mode = "AFTER_DESTINATION"
  <2>1. /\ prefix = leg /\ ReachesDestination(live, leg) /\ BasisValid(live) /\ PerUnit(live) # Zero
        /\ request = Arrived(EnergyRequest(ctx), leg)
    BY <1>1, <1>8 DEF Found, Chosen
  <2>2. leg \in Leg
    BY <1>1, <2>1 DEF ReachesDestination, Places
  <2> HIDE DEF leg
  <2>3. live.range \in Fraction /\ live.range.n >= 0 /\ live.soc # None
    BY <1>1, <2>1, <2>2, ReachesType, ReserveSign DEF BasisValid
  <2>4. request.range = Minus(live.range, Whole(leg.distance))
    BY <1>1, <2>1, ArrivedFields
  <2>5. Less(Zero, live.range)
    <3>1. Whole(leg.distance) \in Fraction /\ Whole(leg.distance).n >= 0
      BY <2>2, WholeType DEF Leg, Whole
    <3>2. Leq(Minus(live.range, Whole(leg.distance)), live.range)
      BY <2>3, <3>1, MinusLess
    <3>3. Less(Zero, request.range)
      BY <1>6, Positive
    <3> QED BY <1>6, <2>3, <2>4, <3>2, <3>3, ZeroType, LeqTrans DEF Less
  <2>6. ReachesDestination(better, leg) /\ BasisValid(better) /\ PerUnit(better) # Zero
    <3>1. live.range # None
      BY <2>1 DEF ReachesDestination
    <3> QED BY <1>1, <1>5, <2>1, <2>2, <2>5, <3>1, BetterReaches, BetterBasis
  <2>7. ~Negative(live.soc) /\ ~Negative(live.energy)
    <3>1. /\ live.soc = Whole(ctx.soc) /\ live.energy = Rounded(Percent(ctx.soc, UsableCapacity(ctx.vehicle)))
          /\ ctx.soc \in Nat
      <4>1. ctx.soc \in Nat
        BY <1>1, <1>2 DEF Context
      <4>2. live.soc = Whole(ctx.soc) /\ live.energy = Rounded(Percent(ctx.soc, UsableCapacity(ctx.vehicle)))
        BY <1>1, <1>2, PlainRequest
      <4> QED BY <4>1, <4>2
    <3>2. Percent(ctx.soc, UsableCapacity(ctx.vehicle)) \in Fraction
          /\ Percent(ctx.soc, UsableCapacity(ctx.vehicle)).n >= 0
      <4> DEFINE cap == UsableCapacity(ctx.vehicle)
      <4>1. cap \in Fraction /\ cap.n > 0
        BY <1>1, CapacityType DEF Context
      <4> HIDE DEF cap
      <4>2. cap.n \in Nat /\ cap.d \in Nat \ {0}
        BY <4>1 DEF Fraction
      <4>3. ctx.soc * cap.n \in Nat /\ 100 * cap.d \in Nat \ {0}
        BY <3>1, <4>2
      <4>4. Percent(ctx.soc, cap) \in Fraction /\ Percent(ctx.soc, cap).n >= 0
        BY <4>3, QValue, QSign DEF Percent
      <4> QED BY <4>4 DEF cap
    <3>3. Rounded(Percent(ctx.soc, UsableCapacity(ctx.vehicle))) \in Fraction
          /\ Rounded(Percent(ctx.soc, UsableCapacity(ctx.vehicle))).n >= 0
      BY <3>2, RoundedType
    <3>4. Whole(ctx.soc) \in Fraction /\ Whole(ctx.soc).n >= 0
      BY <3>1, WholeType DEF Whole
    <3> QED BY <3>1, <3>3, <3>4, Positive DEF Negative, Fraction
  <2>8. Better(request, Arrived(better, leg))
    BY <1>1, <1>5, <2>1, <2>2, <2>3, <2>7, BetterArrival DEF better, Plain
  <2>9. ~Refused(Arrived(better, leg))
    BY <1>1, <1>3, <2>8, BetterAccepted
  <2>10. Offers(better) = Candidates(Arrived(better, leg), network, From, To, rows)
    BY <1>8, <2>6, <2>9 DEF Offers, leg
  <2>11. Won(Candidates(Arrived(better, leg), network, From, To, rows))
    BY <1>1, <1>2, <1>3, <2>8, BetterOffer
  <2> QED BY <2>10, <2>11 DEF better, y
<1> QED BY <1>7, <1>8

(* More charge never takes a station away, nor prolongs the service there, *)
(* for any catalog, network and telemetry in which only the state of       *)
(* charge differs: capacities are whole watt-hours, as in the catalog, or  *)
(* rounding might report more energy than the battery takes                *)
(* (auto_detector.py evaluate_need, replenishment.py energy_basis).        *)
THEOREM ChargeHelps == Spec => []ChargeNeverHurts
BY ConsistentInit, ConsistentStep, ChargeFollows, PTL DEF Spec

-----------------------------------------------------------------------------
(* The contracts of the answer.                                            *)

LEMMA DecisionType ==
  ASSUME NEW x \in Context, NEW capacity \in Fraction
  PROVE  EvaluateNeed(x, capacity) \in NeedServiceDecision
<1> DEFINE low == BelowSafe(x, capacity)
           d == EvaluateNeed(x, capacity)
           short == InsufficientRange(RangeLeft(x, capacity), Remaining(x), Reserve(x))
           unreachable == Remaining(x) # None /\ Less(RangeLeft(x, capacity), Remaining(x))
<1>1. d.reserve \in Value /\ d.trip \in Value /\ d.energy \in Value /\ d.range \in Value
  BY NeedType
<1>2. \/ d = Unassessed("MISSING_DATA") \/ d = Unassessed("INVALID_STATE")
      \/ d = Assessment(Remaining(x), Reserve(x), EnergyLeft(x, capacity), RangeLeft(x, capacity), low)
  BY DEF EvaluateNeed
<1>3. /\ d = [need |-> d.need, reason |-> d.reason, warning |-> d.warning, reserve |-> d.reserve,
              trip |-> d.trip, energy |-> d.energy, range |-> d.range]
      /\ d.need \in BOOLEAN /\ d.reason \in ReasonCode
      /\ d.warning \in {"SAFE", "ADVISORY", "CRITICAL", "UNAVAILABLE"}
  <2>1. CASE d = Unassessed("MISSING_DATA")
    BY <2>1 DEF Unassessed, ReasonCode
  <2>2. CASE d = Unassessed("INVALID_STATE")
    BY <2>2 DEF Unassessed, ReasonCode
  <2>3. CASE d = Assessment(Remaining(x), Reserve(x), EnergyLeft(x, capacity), RangeLeft(x, capacity), low)
    <3>1. /\ d.need = (low \/ short)
          /\ d.reason = IF low /\ short THEN "LOW_SOC_AND_INSUFFICIENT_RANGE"
                        ELSE IF low THEN "LOW_SOC"
                        ELSE IF unreachable THEN "DESTINATION_NOT_REACHABLE"
                        ELSE IF short THEN "INSUFFICIENT_POST_DESTINATION_RESERVE"
                        ELSE "SUFFICIENT_SOC_RANGE"
          /\ d.warning = IF unreachable THEN "CRITICAL"
                         ELSE IF low \/ short THEN "ADVISORY"
                         ELSE IF Remaining(x) # None THEN "SAFE" ELSE "UNAVAILABLE"
          /\ d = [need |-> d.need, reason |-> d.reason, warning |-> d.warning, reserve |-> d.reserve,
                  trip |-> d.trip, energy |-> d.energy, range |-> d.range]
      BY <2>3 DEF Assessment
    <3> HIDE DEF d, low, short, unreachable
    <3> QED BY <3>1 DEF ReasonCode
  <2> QED BY <1>2, <2>1, <2>2, <2>3
<1> HIDE DEF d
<1>4. d \in NeedServiceDecision
  BY <1>1, <1>3 DEF NeedServiceDecision
<1> QED BY <1>4 DEF d

(* What the canonical request says beside its quantities.                  *)
LEMMA RequestAnswers ==
  ASSUME NEW x
  PROVE  LET r == EnergyRequest(x)
             c == Catalog[x.vehicle.model]
             state == EvaluateNeed(x, UsableCapacity(x.vehicle))
             auto == x.service = None
         IN  /\ r.source = IF auto THEN "AUTO_DETECTED" ELSE "DRIVER_REQUEST"
             /\ r.need = IF auto THEN state.need ELSE TRUE
             /\ r.requested = x.service
             /\ r.resolved = IF auto THEN AutoService(c, state.need) ELSE DriverService(c, x.service)
             /\ r.valid = (auto \/ DriverServiceValid(c, x.service))
             /\ r.reason = IF auto THEN state.reason
                           ELSE IF auto \/ DriverServiceValid(c, x.service)
                           THEN "VALID_REQUEST" ELSE "UNSUPPORTED_SERVICE"
  BY DEF EnergyRequest, Requested

LEMMA RequestInvariants ==
  ASSUME NEW x \in Context
  PROVE  SemanticInvariants(EnergyRequest(x))
<1> DEFINE r == EnergyRequest(x)
           c == Catalog[x.vehicle.model]
           need == EvaluateNeed(x, UsableCapacity(x.vehicle)).need
           auto == x.service = None
<1>1. /\ r.source = IF auto THEN "AUTO_DETECTED" ELSE "DRIVER_REQUEST"
      /\ r.need = IF auto THEN need ELSE TRUE
      /\ r.requested = x.service
      /\ r.resolved = IF auto THEN AutoService(c, need) ELSE DriverService(c, x.service)
      /\ r.valid = (auto \/ DriverServiceValid(c, x.service))
      /\ r.vehicle = x.vehicle
  BY RequestAnswers, RequestFields
<1>2. None \notin Services \cup {"ANY"} /\ Allowed(c) \subseteq Services /\ "CHARGING" \in Allowed(c)
  BY CatalogAssumption DEF Allowed, Services
<1>3. UsableCapacity(x.vehicle) \in Fraction
  BY CapacityType DEF Context
<1>4. need \in BOOLEAN
  BY <1>3, DecisionType DEF NeedServiceDecision
<1> HIDE DEF r, c, need
<1> SUFFICES ASSUME r.resolved # None
             PROVE  /\ r.need /\ r.valid /\ r.requested # "ANY"
                    /\ r.source = "AUTO_DETECTED" => Cardinality(Allowed(c)) <= 1
                    /\ r.resolved \in Allowed(c)
  BY <1>1 DEF SemanticInvariants, r, c
<1>5. CASE auto
  <2>1. r.resolved = AutoService(c, need) /\ r.need = need /\ r.valid = TRUE /\ r.requested = None
    BY <1>1, <1>5
  <2>2. need /\ Cardinality(Allowed(c)) = 1 /\ r.resolved = "CHARGING"
    BY <2>1 DEF AutoService
  <2>3. Cardinality(Allowed(c)) <= 1
    BY <2>2
  <2>4. r.need /\ r.valid
    BY <2>1, <2>2, Zenon
  <2> QED BY <1>2, <2>1, <2>2, <2>3, <2>4, Zenon
<1>6. CASE ~auto
  <2>1. r.resolved = DriverService(c, x.service) /\ r.requested = x.service
        /\ r.source = "DRIVER_REQUEST"
    BY <1>1, <1>6
  <2>4. r.need = TRUE
    BY <1>1, <1>6
  <2>2. x.service \in Allowed(c) /\ r.resolved = x.service
    BY <2>1 DEF DriverService
  <2>3. x.service # "ANY"
    BY <1>2, <2>2 DEF Services
  <2>5. DriverServiceValid(c, x.service) = TRUE
    BY <2>2 DEF DriverServiceValid
  <2>6. r.valid
    BY <1>1, <1>6, <2>5
  <2> QED BY <2>1, <2>2, <2>3, <2>4, <2>6
<1> QED BY <1>5, <1>6

LEMMA RequestType ==
  ASSUME NEW x \in Context
  PROVE  EnergyRequest(x) \in EnergyServiceRequest
<1> DEFINE r == EnergyRequest(x)
           c == Catalog[x.vehicle.model]
           state == EvaluateNeed(x, UsableCapacity(x.vehicle))
           auto == x.service = None
<1>1. r = [source |-> r.source, vehicle |-> r.vehicle, need |-> r.need, requested |-> r.requested,
           resolved |-> r.resolved, valid |-> r.valid, reason |-> r.reason, soc |-> r.soc,
           energy |-> r.energy, range |-> r.range, trip |-> r.trip, reserve |-> r.reserve,
           explicitRange |-> r.explicitRange, consumption |-> r.consumption, usable |-> r.usable]
  BY DEF EnergyRequest, Requested
<1>2. /\ r.source = IF auto THEN "AUTO_DETECTED" ELSE "DRIVER_REQUEST"
      /\ r.need = IF auto THEN state.need ELSE TRUE
      /\ r.requested = x.service
      /\ r.resolved = IF auto THEN AutoService(c, state.need) ELSE DriverService(c, x.service)
      /\ r.valid = (auto \/ DriverServiceValid(c, x.service))
      /\ r.reason = IF auto THEN state.reason
                    ELSE IF auto \/ DriverServiceValid(c, x.service)
                    THEN "VALID_REQUEST" ELSE "UNSUPPORTED_SERVICE"
      /\ r.explicitRange = (x.range # None)
  BY RequestAnswers, RequestFields
<1>3. UsableCapacity(x.vehicle) \in Fraction
  BY CapacityType DEF Context
<1>4. state.need \in BOOLEAN /\ state.reason \in ReasonCode
  BY <1>3, DecisionType DEF NeedServiceDecision
<1>5. x.service \in Services \cup {"ANY", None}
  BY DEF Context
<1>6. Sound(r)
  BY RequestSound
<1> HIDE DEF r, c, state
<1>7. r.source \in Sources /\ r.need \in BOOLEAN /\ r.valid \in BOOLEAN /\ r.explicitRange \in BOOLEAN
  BY <1>2, <1>4 DEF Sources
<1>8. r.reason \in ReasonCode
  <2>1. "VALID_REQUEST" \in ReasonCode /\ "UNSUPPORTED_SERVICE" \in ReasonCode
    BY DEF ReasonCode
  <2> QED BY <1>2, <1>4, <2>1
<1>9. r.resolved \in Services \cup {None} /\ r.requested \in Services \cup {"ANY", None}
  <2>1. AutoService(c, state.need) \in Services \cup {None}
    BY DEF AutoService, Services
  <2>2. DriverService(c, x.service) \in Services \cup {None}
    BY DEF DriverService, Allowed, Services
  <2> QED BY <1>2, <1>5, <2>1, <2>2
<1>10. r \in EnergyServiceRequest
  BY <1>1, <1>6, <1>7, <1>8, <1>9 DEF EnergyServiceRequest, Sound
<1> QED BY <1>10 DEF r

(* The request at the destination differs in its quantities only.          *)
LEMMA ArrivedType ==
  ASSUME NEW x \in Context, NEW leg, Sound(Arrived(EnergyRequest(x), leg))
  PROVE  /\ Arrived(EnergyRequest(x), leg) \in EnergyServiceRequest
         /\ SemanticInvariants(Arrived(EnergyRequest(x), leg))
<1> DEFINE r == EnergyRequest(x)
           q == Arrived(r, leg)
<1>1. /\ q.vehicle = r.vehicle /\ q.explicitRange = r.explicitRange
      /\ q.source = r.source /\ q.requested = r.requested /\ q.resolved = r.resolved
      /\ q.need = r.need /\ q.valid = r.valid /\ q.reason = r.reason
  BY ArrivedFields
<1>2. r \in EnergyServiceRequest /\ SemanticInvariants(r)
  BY RequestType, RequestInvariants
<1>3. Sound(q)
  OBVIOUS
<1>4. q.soc \in Value /\ q.energy \in Value /\ q.range \in Value /\ q.trip \in Value
  BY <1>3 DEF Sound
<1>5. q = [r EXCEPT !.energy = q.energy, !.soc = q.soc, !.range = q.range, !.trip = q.trip]
  BY ArrivedFields DEF Arrived
<1> HIDE DEF r, q
<1>6. q \in EnergyServiceRequest
  BY <1>2, <1>4, <1>5 DEF EnergyServiceRequest
<1>7. SemanticInvariants(q)
  BY <1>1, <1>2 DEF SemanticInvariants
<1> QED BY <1>6, <1>7 DEF q, r

(* A verdict is one of the reasons, with an estimate that fits it.         *)
LEMMA EstimateShape ==
  ASSUME NEW r, NEW service, NEW distance, NEW onward, NEW time
  PROVE  LET e == Estimate(r, service, distance, onward, time)
         IN  /\ e.status = "AVAILABLE" =>
                  /\ e = [status |-> "AVAILABLE", reason |-> None, arrival |-> e.arrival,
                          departure |-> e.departure, duration |-> e.duration]
                  /\ e.arrival = Arriving(r, distance)
             /\ e.status # "AVAILABLE" => e \in [status : {"INFEASIBLE", "UNAVAILABLE"}, reason : NotEstimated]
<1> DEFINE e == Estimate(r, service, distance, onward, time)
           arrival == Arriving(r, distance)
           required == Required(r, onward)
           swap == service = "BATTERY_SWAP"
           target == IF swap THEN Percent(SwapPct, r.usable) ELSE Greater(arrival, required)
           full == \/ Less(r.usable, required)
                   \/ swap /\ onward # None /\ Less(target, required)
           time0 == IF swap THEN Whole(time)
                    ELSE ChargingTime(r.vehicle.model, arrival, target, r.usable)
<1>1. e = IF ~BasisValid(r) THEN NoEstimate("UNAVAILABLE", "BASIS")
          ELSE IF PerUnit(r) = Zero THEN NoEstimate("UNAVAILABLE", "CONSUMPTION")
          ELSE IF Less(arrival, Zero) THEN NoEstimate("INFEASIBLE", "INSUFFICIENT_SOC_TO_REACH")
          ELSE IF full THEN NoEstimate("INFEASIBLE", "INSUFFICIENT_DEPARTURE_ENERGY")
          ELSE [status |-> "AVAILABLE", reason |-> None,
                arrival |-> arrival, departure |-> target, duration |-> time0]
  BY DEF Estimate, Replenished
<1> HIDE DEF e, arrival, target, full, time0
<1>2. \/ /\ e.status # "AVAILABLE"
         /\ e \in [status : {"INFEASIBLE", "UNAVAILABLE"}, reason : NotEstimated]
      \/ e = [status |-> "AVAILABLE", reason |-> None,
              arrival |-> arrival, departure |-> target, duration |-> time0]
  <2> DEFINE Failed == {NoEstimate("UNAVAILABLE", "BASIS"), NoEstimate("UNAVAILABLE", "CONSUMPTION"),
                        NoEstimate("INFEASIBLE", "INSUFFICIENT_SOC_TO_REACH"),
                        NoEstimate("INFEASIBLE", "INSUFFICIENT_DEPARTURE_ENERGY")}
             answer == [status |-> "AVAILABLE", reason |-> None,
                        arrival |-> arrival, departure |-> target, duration |-> time0]
  <2>1. \A f \in Failed : /\ f.status # "AVAILABLE"
                          /\ f \in [status : {"INFEASIBLE", "UNAVAILABLE"}, reason : NotEstimated]
    BY DEF NoEstimate, NotEstimated
  <2> HIDE DEF answer
  <2>2. e \in Failed \/ e = answer
    BY <1>1 DEF answer
  <2> HIDE DEF Failed
  <2>3. \/ /\ e.status # "AVAILABLE"
           /\ e \in [status : {"INFEASIBLE", "UNAVAILABLE"}, reason : NotEstimated]
        \/ e = answer
    BY <2>1, <2>2
  <2> QED BY <2>3 DEF answer
<1>3. e = [status |-> "AVAILABLE", reason |-> None,
           arrival |-> arrival, departure |-> target, duration |-> time0] =>
        /\ e.status = "AVAILABLE"
        /\ e = [status |-> "AVAILABLE", reason |-> None, arrival |-> e.arrival,
                departure |-> e.departure, duration |-> e.duration]
        /\ e.arrival = arrival
  OBVIOUS
<1> QED BY <1>2, <1>3 DEF e, arrival

LEMMA EvaluatedShape ==
  ASSUME NEW r, NEW c, NEW to, NEW metrics, NEW op
  PROVE  LET v == Evaluated(r, c, to, metrics, op)
         IN  /\ v = [eligible |-> v.eligible, reason |-> v.reason, metrics |-> metrics,
                     op |-> op, estimate |-> v.estimate]
             /\ v.reason \in EligibilityReasons /\ v.eligible \in BOOLEAN
             /\ ~v.eligible => v.estimate \in ReplenishmentEstimate \cup {None}
<1> DEFINE feasible == metrics.reachable /\ FeasibleTo(metrics.distance, r)
           reason == Eligibility(metrics.reachable, Compatible(r.vehicle, c), op, c.service, feasible)
           estimate == EstimateOf(r, c, to, metrics, op)
           v == Evaluated(r, c, to, metrics, op)
<1>1. v = IF reason # "ELIGIBLE" THEN Verdict(reason, metrics, op, None)
          ELSE IF to # None /\ metrics.onward = None THEN Verdict("UNREACHABLE", metrics, op, None)
          ELSE Verdict(Outcome(estimate), metrics, op, estimate)
  BY DEF Evaluated, EstimateOf, Onward, Estimated
<1>2. reason \in EligibilityReasons /\ "UNREACHABLE" \in EligibilityReasons
  BY DEF Eligibility, EligibilityReasons
<1>3. Outcome(estimate) \in EligibilityReasons /\ (Outcome(estimate) = "ELIGIBLE" <=> estimate.status = "AVAILABLE")
  BY DEF Outcome, EligibilityReasons
<1>4. estimate.status # "AVAILABLE" => estimate \in ReplenishmentEstimate
  BY EstimateShape DEF EstimateOf, ReplenishmentEstimate
<1> HIDE DEF reason, estimate, v
<1>5. PICK why, e :
        /\ why \in EligibilityReasons
        /\ v = Verdict(why, metrics, op, e)
        /\ why # "ELIGIBLE" => e \in ReplenishmentEstimate \cup {None}
  <2>1. CASE reason # "ELIGIBLE"
    BY <1>1, <1>2, <2>1
  <2>2. CASE reason = "ELIGIBLE" /\ to # None /\ metrics.onward = None
    BY <1>1, <1>2, <2>2
  <2>3. CASE reason = "ELIGIBLE" /\ ~(to # None /\ metrics.onward = None)
    BY <1>1, <1>3, <1>4, <2>3
  <2> QED BY <2>1, <2>2, <2>3
<1>6. v = [eligible |-> why = "ELIGIBLE", reason |-> why, metrics |-> metrics, op |-> op, estimate |-> e]
  BY <1>5 DEF Verdict
<1>7. /\ v.reason = why /\ v.estimate = e /\ v.eligible = (why = "ELIGIBLE")
      /\ v = [eligible |-> v.eligible, reason |-> v.reason, metrics |-> metrics,
              op |-> op, estimate |-> v.estimate]
  BY <1>6
<1>8. v.eligible \in BOOLEAN /\ (~v.eligible => why # "ELIGIBLE")
  BY <1>7
<1> QED BY <1>5, <1>7, <1>8 DEF v

LEMMA MetricsShape ==
  ASSUME NEW net \in [Places \X Places -> Leg \cup {None}], NEW from \in Places,
         NEW station \in Stations, NEW to \in Places \cup {None}
  PROVE  Metrics(net, from, station, to) \in CandidateRouteMetrics \cup [reachable : {FALSE}]
<1> DEFINE m == Metrics(net, from, station, to)
<1>1. \/ m = NoMetrics
      \/ /\ m.reachable = TRUE
         /\ m = [reachable |-> TRUE, distance |-> m.distance, duration |-> m.duration,
                 onward |-> m.onward, detourDistance |-> m.detourDistance,
                 detourDuration |-> m.detourDuration]
  BY DEF Metrics
<1>2. m.reachable => /\ m.distance \in Nat /\ m.duration \in Nat /\ m.onward \in Leg \cup {None}
                     /\ m.detourDistance \in Nat \cup {None} /\ m.detourDuration \in Nat \cup {None}
  BY MetricsType
<1> HIDE DEF m
<1>3. CASE m = NoMetrics
  BY <1>3 DEF NoMetrics, m
<1>4. CASE m # NoMetrics
  <2>1. m \in CandidateRouteMetrics
    BY <1>1, <1>2, <1>4 DEF CandidateRouteMetrics
  <2> QED BY <2>1 DEF m
<1> QED BY <1>3, <1>4

LEMMA SnapshotType ==
  ASSUME NEW row \in Row, NEW service \in Services
  PROVE  Operational(row, service) \in StationOperationalSnapshot
<1>1. /\ row.slots[service] \in Nat /\ row.batteries \in Nat /\ row.status \in STRING
      /\ row.wait[service] \in Nat \cup {None} /\ row.serviceTime \in Nat
  BY DEF Row
<1> QED BY <1>1 DEF Operational, StationOperationalSnapshot

(* What is in the battery at an eligible candidate.                        *)
LEMMA BatteryBounds ==
  ASSUME Consistent, NEW c \in EligiblePairs(candidates)
  PROVE  LET e == candidates[c].estimate
         IN  /\ e \in ReplenishmentEstimate /\ e.status = "AVAILABLE"
             /\ Leq(Zero, e.arrival) /\ Leq(e.departure, request.usable)
             /\ c.service = "CHARGING" => Leq(e.arrival, e.departure)
<1> DEFINE arrival == Arriving(request, MetricsOf(c).distance)
           required == Required(request, Onward(To, MetricsOf(c)))
           swap == c.service = "BATTERY_SWAP"
           target == IF swap THEN Percent(SwapPct, request.usable) ELSE Greater(arrival, required)
           way == Times(Whole(MetricsOf(c).distance), PerUnit(request))
           now == Current(request, request.usable)
           model == request.vehicle.model
           e == candidates[c].estimate
<1>1. /\ e.status = "AVAILABLE" /\ c.station \in Stations /\ c.service \in Services
      /\ e = EstimateOf(request, c, To, MetricsOf(c), OpOf(c))
  BY EligibleFacts DEF Pairs
<1>2. /\ ~Less(arrival, Zero) /\ ~Less(request.usable, required)
      /\ e.departure = target
      /\ e.duration = IF swap THEN Whole(OpOf(c).serviceTime)
                      ELSE ChargingTime(model, arrival, target, request.usable)
  BY <1>1, EstimateMeans DEF EstimateOf
<1>3. /\ e = [status |-> "AVAILABLE", reason |-> None, arrival |-> e.arrival,
              departure |-> e.departure, duration |-> e.duration]
      /\ e.arrival = arrival
  BY <1>1, EstimateShape DEF EstimateOf
<1>4. /\ arrival \in Fraction /\ required \in Fraction /\ request.usable \in Fraction
      /\ request.usable.n > 0 /\ request.soc # None /\ Sound(request)
      /\ model \in Models /\ Leq(now, request.usable)
      /\ MetricsOf(c).distance \in Nat /\ PerUnit(request) \in Fraction /\ PerUnit(request).n > 0
  BY BatteryFacts DEF Sound, Vehicle, BasisValid
<1>5. now \in Fraction /\ arrival = Minus(now, way)
  BY <1>4, CurrentType DEF Arriving
<1> HIDE DEF arrival, required, now, model, e
<1>6. way \in Fraction /\ way.n >= 0
  <2>1. Whole(MetricsOf(c).distance) \in Fraction /\ Whole(MetricsOf(c).distance).n >= 0
    BY <1>4, WholeType DEF Whole
  <2>2. PerUnit(request).n >= 0
    BY <1>4 DEF Fraction
  <2> QED BY <1>4, <2>1, <2>2, TimesValue, TimesSign
<1> HIDE DEF way
<1>7. Leq(arrival, request.usable)
  <2>1. Leq(arrival, now)
    BY <1>5, <1>6, MinusLess
  <2> QED BY <1>4, <1>5, <2>1, LeqTrans
<1>8. Leq(required, request.usable) /\ Leq(Zero, arrival)
  BY <1>2 DEF Less
<1>9. /\ Percent(SwapPct, request.usable) \in Fraction
      /\ Leq(Percent(SwapPct, request.usable), request.usable)
  <2> DEFINE p == SwapPct  full == 100
  <2>1. p \in Int /\ full \in Int /\ p <= full /\ full <= 100
    BY PolicyAssumption
  <2>2. request.usable.n >= 0
    BY <1>4 DEF Fraction
  <2> HIDE DEF full
  <2>3. Leq(Percent(p, request.usable), Percent(full, request.usable))
        /\ Leq(Percent(full, request.usable), request.usable)
    BY <1>4, <2>1, <2>2, PercentMono
  <2> QED BY <1>4, <2>1, <2>3, PercentValue, LeqTrans
<1>10. /\ Greater(arrival, required) \in Fraction /\ Greater(arrival, required) \in {arrival, required}
       /\ Leq(arrival, Greater(arrival, required))
  BY <1>4, GreaterBounds
<1>11. /\ target \in Fraction /\ Leq(target, request.usable)
       /\ c.service = "CHARGING" => Leq(arrival, target)
  BY <1>7, <1>8, <1>9, <1>10
<1>12. e.duration \in Fraction
  <2>1. rows[c.station] \in Row
    BY <1>1, InputAssumption DEF Consistent
  <2>2. OpOf(c).serviceTime \in Nat
    BY <1>1, <2>1, OperationalType DEF OpOf
  <2>3. Whole(OpOf(c).serviceTime) \in Fraction
    BY <2>2, WholeType
  <2> HIDE DEF target
  <2>4. target \in Fraction /\ arrival \in Fraction /\ request.usable \in Fraction
        /\ model \in Models
    BY <1>4, <1>11
  <2>5. ChargingTime(model, arrival, target, request.usable) \in Fraction
    BY <2>4, ChargingTimeType
  <2> QED BY <1>2, <2>3, <2>5
<1> HIDE DEF target
<1>13. e \in ReplenishmentEstimate
  <2>1. e.arrival \in Fraction /\ e.departure \in Fraction /\ e.duration \in Fraction
    BY <1>2, <1>3, <1>4, <1>11, <1>12
  <2>2. e \in [status : {"AVAILABLE"}, reason : {None},
              arrival : Fraction, departure : Fraction, duration : Fraction]
    BY <1>3, <2>1
  <2> QED BY <2>2 DEF ReplenishmentEstimate
<1>14. /\ e.status = "AVAILABLE"
       /\ Leq(Zero, e.arrival) /\ Leq(e.departure, request.usable)
       /\ c.service = "CHARGING" => Leq(e.arrival, e.departure)
  BY <1>1, <1>2, <1>3, <1>8, <1>11
<1> QED BY <1>13, <1>14 DEF e

LEMMA CandidateType ==
  ASSUME Consistent, Found, NEW c \in DOMAIN candidates
  PROVE  c \in Pairs /\ candidates[c] \in EvaluatedCandidate
<1>1. c \in Expanded(request) /\ candidates[c] = Evaluated(request, c, To, MetricsOf(c), OpOf(c))
  BY DEF Found, Candidates, Evaluate, MetricsOf, OpOf
<1>2. c \in Pairs /\ c.station \in Stations /\ c.service \in Services
  BY <1>1 DEF Expanded, Pairs
<1>3. OpOf(c) \in StationOperationalSnapshot
  <2>1. rows[c.station] \in Row
    BY <1>2, InputAssumption DEF Consistent
  <2> QED BY <1>2, <2>1, SnapshotType DEF OpOf
<1>4. MetricsOf(c) \in CandidateRouteMetrics \cup [reachable : {FALSE}]
  BY <1>2, FoundTypes, MetricsShape DEF MetricsOf
<1> DEFINE v == candidates[c]
<1>5. /\ v = [eligible |-> v.eligible, reason |-> v.reason, metrics |-> MetricsOf(c),
              op |-> OpOf(c), estimate |-> v.estimate]
      /\ v.reason \in EligibilityReasons /\ v.eligible \in BOOLEAN
      /\ ~v.eligible => v.estimate \in ReplenishmentEstimate \cup {None}
  BY <1>1, EvaluatedShape
<1>6. v.eligible => v.estimate \in ReplenishmentEstimate
  BY BatteryBounds DEF EligiblePairs
<1> HIDE DEF v
<1>7. v \in EvaluatedCandidate
  <2>1. v.estimate \in ReplenishmentEstimate \cup {None}
    BY <1>5, <1>6
  <2> DEFINE M == CandidateRouteMetrics \cup [reachable : {FALSE}]
             E == ReplenishmentEstimate \cup {None}
             m == MetricsOf(c)
             o == OpOf(c)
  <2>2. m \in M /\ o \in StationOperationalSnapshot /\ v.estimate \in E
    BY <1>3, <1>4, <2>1
  <2>3. /\ v = [eligible |-> v.eligible, reason |-> v.reason, metrics |-> m,
                op |-> o, estimate |-> v.estimate]
        /\ v.reason \in EligibilityReasons /\ v.eligible \in BOOLEAN
    BY <1>5
  <2> HIDE DEF M, E, m, o
  <2>4. v \in [eligible : BOOLEAN, reason : EligibilityReasons, metrics : M,
              op : StationOperationalSnapshot, estimate : E]
    BY <2>2, <2>3
  <2> QED BY <2>4 DEF EvaluatedCandidate, M, E
<1> QED BY <1>2, <1>7 DEF v

(* The two requests of a decision.                                         *)
Contracts ==
  /\ pc \in {"demand", "drive", "search", "rank", "done"}
  /\ live \in EnergyServiceRequest \cup {None} /\ request \in EnergyServiceRequest \cup {None}
  /\ live # None => SemanticInvariants(live)
  /\ request # None => SemanticInvariants(request)

LEMMA ContractsInit == Init => Contracts
  BY DEF Init, Contracts

LEMMA ContractsStep == Consistent /\ Contracts /\ [Next]_vars => Contracts'
<1> SUFFICES ASSUME Consistent, Contracts, [Next]_vars PROVE Contracts'
  OBVIOUS
<1>1. ctx \in Context
  BY InputAssumption DEF Consistent
<1>2. CASE Demand
  <2>1. /\ live' = EnergyRequest(ctx) /\ request' = live'
        /\ pc' \in {"done", "drive", "search"}
    BY <1>2 DEF Demand, Reject, Goto
  <2>2. live' \in EnergyServiceRequest /\ SemanticInvariants(live')
    BY <1>1, <2>1, RequestType, RequestInvariants
  <2> QED BY <2>1, <2>2 DEF Contracts, SemanticInvariants
<1>3. CASE Drive
  <2>1. pc = "drive" /\ UNCHANGED live /\ pc' \in {"done", "search"}
    BY <1>3 DEF Drive, Reject, Goto
  <2>2. live = EnergyRequest(ctx) /\ request = live
    BY <2>1 DEF Consistent
  <2> DEFINE leg == network[<<"origin", "destination">>]
  <2>3. \/ UNCHANGED request
        \/ /\ ReachesDestination(request, leg) /\ BasisValid(request)
           /\ request' = Arrived(request, leg)
    BY <1>3 DEF Drive
  <2>4. leg \in Leg \cup {None}
    BY InputAssumption DEF Consistent, Places
  <2> HIDE DEF leg
  <2>5. CASE ReachesDestination(request, leg) /\ BasisValid(request) /\ request' = Arrived(request, leg)
    <3>1. leg \in Leg /\ EnergyRequest(ctx).soc # None
      BY <2>2, <2>4, <2>5 DEF ReachesDestination, BasisValid
    <3>2. EnergyRequest(ctx).range \in Fraction /\ EnergyRequest(ctx).range.n >= 0
      BY <1>1, <2>2, <2>5, <3>1, RequestSound, ReachesType, ReserveSign
    <3>3. Sound(Arrived(EnergyRequest(ctx), leg))
      BY <1>1, <3>1, <3>2, ArrivedSound
    <3>4. request' \in EnergyServiceRequest /\ SemanticInvariants(request')
      BY <1>1, <2>2, <2>5, <3>3, ArrivedType
    <3> QED BY <2>1, <3>4 DEF Contracts, SemanticInvariants
  <2>6. CASE UNCHANGED request
    BY <2>1, <2>6 DEF Contracts, SemanticInvariants
  <2> QED BY <2>3, <2>5, <2>6
<1>4. CASE Search
  BY <1>4 DEF Search, Reject, Goto, Contracts, SemanticInvariants
<1>5. CASE Rank
  BY <1>5 DEF Rank, Reject, Contracts, SemanticInvariants
<1>6. CASE UNCHANGED vars
  BY <1>6 DEF vars, Contracts, SemanticInvariants
<1> QED BY <1>2, <1>3, <1>4, <1>5, <1>6 DEF Next

LEMMA TypeFollows == Consistent /\ Contracts => TypeOK
<1> SUFFICES ASSUME Consistent, Contracts PROVE TypeOK
  OBVIOUS
<1>1. \A c \in DOMAIN candidates : c \in Pairs /\ candidates[c] \in EvaluatedCandidate
  <2>1. CASE candidates = <<>>
    BY <2>1
  <2>2. CASE Found
    BY <2>2, CandidateType
  <2> QED BY <2>1, <2>2 DEF Consistent
<1> QED BY <1>1, BatteryBounds DEF TypeOK, Contracts

(* The answer keeps the contracts of its parts, whatever telemetry, roads  *)
(* and stations are: no request is refused by its own model and no         *)
(* estimate by its bounds, so that nothing the search computes ends in a   *)
(* validation error (demand/models.py validate_semantic_invariants,        *)
(* energy/replenishment.py ReplenishmentEstimate).                         *)
THEOREM ContractsKept == Spec => []TypeOK
<1>1. Consistent /\ Contracts /\ [Next]_vars => Consistent' /\ Contracts'
  BY ConsistentStep, ContractsStep
<1>2. Consistent /\ Contracts => TypeOK
  BY TypeFollows
<1> QED BY <1>1, <1>2, ConsistentInit, ContractsInit, PTL DEF Spec
=============================================================================
