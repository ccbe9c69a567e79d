------------------------- MODULE PropagationProofs --------------------------
(***************************************************************************)
(* Proofs about the arithmetic of the partitioner and about propagation    *)
(* (Subpaving, over Boxes and Intervals): numbers, intervals, the value of *)
(* an atom at a node, the normalization of a bound.  Every step of the     *)
(* propagation of a node is shown to exclude no model and, while no bound  *)
(* is relaxed, to let back no point it excluded before and to leave no     *)
(* clause unvisited whose value it changed (Good).                         *)
(*                                                                         *)
(* A fold is reasoned about through an instance of Folding, one for each   *)
(* folded operator; Least and UpTo, induction on numbers, come with any of *)
(* them.                                                                   *)
(***************************************************************************)
EXTENDS Subpaving, FiniteSetTheorems, TLAPS

-----------------------------------------------------------------------------
(* The operators that are folded, with the operands Folding gives them.    *)
Summed(n, d, but, r, i) == AddSummand(n, d, but, r, i)
Termed(d, m, but, r, i) == AddTerm(d, m, r, i)
SumStep(x, b, c, s, y) == SumUnlessConflict(x, s, y)
ThoseStep(S, b, c, s, e) == AddIn(S, s, e)
ArrangeStep(seq, b, c, s, S) == AddThose(seq, s, S)
UnitStep(b, c, d, s, a) == AssertUnlessConflict(s, a)
KeepStep(clauses, b, c, out, i) == KeepIn(clauses, out, i)

S1 == INSTANCE Folding WITH Op <- Summed
T1 == INSTANCE Folding WITH Op <- Termed
P1 == INSTANCE Folding WITH Op <- SumStep
H1 == INSTANCE Folding WITH Op <- ThoseStep
A1 == INSTANCE Folding WITH Op <- ArrangeStep
U1 == INSTANCE Folding WITH Op <- UnitStep
K1 == INSTANCE Folding WITH Op <- KeepStep

-----------------------------------------------------------------------------
(* Numbers. Gcd is the greatest common divisor: Euclid's algorithm, by     *)
(* induction on its second argument.                                       *)

Divides(d, n) == \E q \in Int : n = q * d
Common(a, b) == {d \in Nat \ {0} : Divides(d, a) /\ Divides(d, b)}
Greatest(a, b) == IF a = 0 /\ b = 0 THEN 0 ELSE CHOOSE d \in Common(a, b) : \A e \in Common(a, b) : e <= d

LEMMA Rest ==
    ASSUME NEW a \in Nat, NEW b \in Nat \ {0}
    PROVE  /\ a % b \in Nat /\ a % b < b /\ a \div b \in Nat
           /\ a = (a \div b) * b + (a % b)
OBVIOUS

LEMMA CommonRest ==
    ASSUME NEW a \in Nat, NEW b \in Nat \ {0}
    PROVE  Common(a, b) = Common(b, a % b)
<1> DEFINE q == a \div b
           r == a % b
<1>1. r \in Nat /\ q \in Nat /\ a = q * b + r
    BY Rest
<1> HIDE DEF q, r
<1>2. ASSUME NEW d \in Nat \ {0}, Divides(d, b), Divides(d, a) PROVE Divides(d, r)
    <2>1. PICK x \in Int : a = x * d
        BY <1>2 DEF Divides
    <2>2. PICK y \in Int : b = y * d
        BY <1>2 DEF Divides
    <2>3. r = (x - q * y) * d
        BY <1>1, <2>1, <2>2
    <2> QED
        BY <1>1, <2>3 DEF Divides
<1>3. ASSUME NEW d \in Nat \ {0}, Divides(d, b), Divides(d, r) PROVE Divides(d, a)
    <2>1. PICK x \in Int : r = x * d
        BY <1>3 DEF Divides
    <2>2. PICK y \in Int : b = y * d
        BY <1>3 DEF Divides
    <2>3. a = (x + q * y) * d
        BY <1>1, <2>1, <2>2
    <2> QED
        BY <1>1, <2>3 DEF Divides
<1>4. Common(a, b) = Common(b, r)
    BY <1>2, <1>3 DEF Common
<1> QED
    BY <1>4 DEF r

LEMMA GreatestBase ==
    ASSUME NEW a \in Nat
    PROVE  Greatest(a, 0) = a
<1>1. CASE a = 0
    BY <1>1 DEF Greatest
<1>2. CASE a # 0
    <2>1. a \in Common(a, 0)
        <3>1. a = 1 * a /\ 0 = 0 * a
            OBVIOUS
        <3> QED
            BY <1>2, <3>1 DEF Common, Divides
    <2>2. ASSUME NEW e \in Common(a, 0) PROVE e <= a
        <3>1. PICK q \in Int : a = q * e
            BY DEF Common, Divides
        <3>2. e \in Nat \ {0}
            BY DEF Common
        <3>3. q >= 1
            <4>1. CASE q <= 0
                <5>1. q * e <= 0
                    BY <3>2, <4>1
                <5> QED
                    BY <1>2, <3>1, <5>1
            <4> QED
                BY <4>1
        <3>4. (q - 1) * e >= 0
            BY <3>2, <3>3
        <3> QED
            BY <3>1, <3>2, <3>4
    <2>3. ASSUME NEW d \in Common(a, 0), \A e \in Common(a, 0) : e <= d PROVE d = a
        BY <2>1, <2>2, <2>3 DEF Common
    <2> QED
        BY <1>2, <2>1, <2>2, <2>3 DEF Greatest
<1> QED
    BY <1>1, <1>2

LEMMA GcdUnfold ==
    ASSUME NEW a \in Nat, NEW b \in Nat
    PROVE  Gcd[<<a, b>>] = IF b = 0 THEN a ELSE Gcd[<<b, a % b>>]
<1> DEFINE G(g) == [p \in Nat \X Nat |-> IF p[2] = 0 THEN p[1] ELSE g[<<p[2], p[1] % p[2]>>]]
           f == [p \in Nat \X Nat |-> Greatest(p[1], p[2])]
<1>1. f = G(f)
    <2>1. ASSUME NEW p \in Nat \X Nat
          PROVE  Greatest(p[1], p[2]) = IF p[2] = 0 THEN p[1] ELSE f[<<p[2], p[1] % p[2]>>]
        <3>1. PICK x \in Nat, y \in Nat : p = <<x, y>>
            OBVIOUS
        <3>2. CASE y = 0
            BY <3>1, <3>2, GreatestBase
        <3>3. CASE y # 0
            <4>1. x % y \in Nat
                BY <3>3, Rest
            <4>2. Common(x, y) = Common(y, x % y)
                BY <3>3, CommonRest
            <4>3. Greatest(x, y) = Greatest(y, x % y)
                BY <3>3, <4>2 DEF Greatest
            <4>4. f[<<y, x % y>>] = Greatest(y, x % y)
                BY <4>1
            <4> QED
                BY <3>1, <3>3, <4>3, <4>4
        <3> QED
            BY <3>2, <3>3
    <2> QED
        BY <2>1
<1>2. Gcd = G(Gcd)
    <2>1. \E g : g = G(g)
        BY <1>1
    <2> QED
        BY <2>1 DEF Gcd
<1> HIDE DEF f
<1>3. <<a, b>> \in Nat \X Nat /\ <<a, b>>[1] = a /\ <<a, b>>[2] = b
    OBVIOUS
<1> QED
    BY <1>2, <1>3

GcdGood(a, b) ==
    LET g == Gcd[<<a, b>>]
    IN  /\ g \in Nat /\ (g = 0 => a = 0 /\ b = 0)
        /\ Divides(g, a) /\ Divides(g, b)
        /\ \E u \in Int, v \in Int : g = u * a + v * b

LEMMA GcdIsGood ==
    ASSUME NEW a \in Nat, NEW b \in Nat
    PROVE  GcdGood(a, b)
<1> DEFINE D == {y \in Nat : \E x \in Nat : ~ GcdGood(x, y)}
<1>1. SUFFICES ASSUME D # {} PROVE FALSE
    OBVIOUS
<1>2. PICK y \in D : \A d \in D : y <= d
    <2>1. D \subseteq Nat
        OBVIOUS
    <2> HIDE DEF D
    <2> QED
        BY <1>1, <2>1, S1!Least
<1>3. PICK x \in Nat : ~ GcdGood(x, y)
    BY <1>2
<1>4. y \in Nat /\ x \in Nat
    BY <1>2
<1>5. CASE y = 0
    <2>1. Gcd[<<x, y>>] = x
        BY <1>4, <1>5, GcdUnfold
    <2>2. x = 1 * x /\ 0 = 0 * x /\ x = 1 * x + 0 * 0
        BY <1>4
    <2>3. Divides(x, x) /\ Divides(x, 0)
        BY <2>2, <1>4 DEF Divides
    <2> QED
        BY <1>3, <1>4, <1>5, <2>1, <2>2, <2>3 DEF GcdGood
<1>6. CASE y # 0
    <2> DEFINE q == x \div y
               r == x % y
               g == Gcd[<<y, r>>]
    <2>1. r \in Nat /\ r < y /\ q \in Nat /\ x = q * y + r
        BY <1>4, <1>6, Rest
    <2>2. Gcd[<<x, y>>] = g
        BY <1>4, <1>6, GcdUnfold
    <2> HIDE DEF q, r, g
    <2>3. GcdGood(y, r)
        <3>1. r \notin D
            BY <1>2, <1>4, <2>1
        <3> QED
            BY <1>4, <2>1, <3>1
    <2>4. g \in Nat /\ (g = 0 => y = 0 /\ r = 0)
        BY <2>3 DEF GcdGood, g
    <2>5. PICK i \in Int, j \in Int : y = i * g /\ r = j * g
        BY <2>3 DEF GcdGood, Divides, g
    <2>6. PICK u \in Int, v \in Int : g = u * y + v * r
        BY <2>3 DEF GcdGood, g
    <2>7. x = (q * i + j) * g
        BY <2>1, <2>4, <2>5
    <2>8. g = v * x + (u - v * q) * y
        <3>1. v * x = v * (q * y) + v * r
            BY <1>4, <2>1, <2>6
        <3>2. (u - v * q) * y = u * y - v * (q * y)
            BY <1>4, <2>1, <2>6
        <3> QED
            BY <1>4, <2>1, <2>6, <3>1, <3>2
    <2>9. Divides(g, x) /\ Divides(g, y)
        BY <2>1, <2>5, <2>7 DEF Divides
    <2>10. \E s \in Int, t \in Int : g = s * x + t * y
        BY <2>1, <2>6, <2>8
    <2>11. GcdGood(x, y)
        BY <1>6, <2>2, <2>4, <2>9, <2>10 DEF GcdGood
    <2> QED
        BY <1>3, <2>11
<1> QED
    BY <1>5, <1>6

(* Two numbers with the same quotient are the same number.                 *)
LEMMA DivideBoth ==
    ASSUME NEW a \in Int, NEW b \in Nat \ {0}, NEW c \in Int, NEW d \in Nat \ {0},
           Gcd[<<Magnitude(a), b>>] = 1, a * d = c * b
    PROVE  \E q \in Int : d = q * b
<1> DEFINE m == Magnitude(a)
<1>1. m \in Nat /\ (m = a \/ m = -a)
    BY DEF Magnitude
<1>2. PICK u \in Int, v \in Int : 1 = u * m + v * b
    <2>1. GcdGood(m, b)
        BY <1>1, GcdIsGood
    <2> QED
        BY <2>1 DEF GcdGood
<1> HIDE DEF m
<1>3. \E w \in Int : 1 = w * a + v * b
    <2>1. CASE m = a
        BY <1>2, <2>1
    <2>2. CASE m = -a
        <3>1. u * m = (-u) * a
            BY <1>2, <2>2
        <3>2. -u \in Int /\ 1 = (-u) * a + v * b
            BY <1>2, <3>1
        <3> QED
            BY <1>2, <3>2
    <2> QED
        BY <1>1, <2>1, <2>2
<1>4. PICK w \in Int : 1 = w * a + v * b
    BY <1>3
<1>5. d = (w * c + v * d) * b
    <2>1. d = (w * a + v * b) * d
        BY <1>4
    <2>2. (w * a + v * b) * d = w * (a * d) + v * b * d
        BY <1>2
    <2>3. w * (a * d) = w * (c * b)
        OBVIOUS
    <2>4. w * (c * b) + v * b * d = (w * c + v * d) * b
        BY <1>2
    <2> QED
        BY <2>1, <2>2, <2>3, <2>4
<1>6. w * c + v * d \in Int
    BY <1>2
<1> QED
    BY <1>5, <1>6

LEMMA SameNumber ==
    ASSUME NEW a, NEW b, IsNumber(a), IsNumber(b), a[1] * b[2] = b[1] * a[2]
    PROVE  a = b
<1>1. a = <<a[1], a[2]>> /\ b = <<b[1], b[2]>>
    BY DEF IsNumber
<1>2. a[1] \in Int /\ b[1] \in Int /\ a[2] \in Nat \ {0} /\ b[2] \in Nat \ {0}
    BY DEF IsNumber
<1>3. PICK x \in Int, y \in Int : b[2] = x * a[2] /\ a[2] = y * b[2]
    <2>1. \E q \in Int : b[2] = q * a[2]
        BY <1>2, DivideBoth DEF IsNumber
    <2>2. \E q \in Int : a[2] = q * b[2]
        BY <1>2, DivideBoth DEF IsNumber
    <2> QED
        BY <2>1, <2>2
<1> DEFINE p == a[2]
           r == b[2]
<1>4. p \in Nat \ {0} /\ r \in Nat \ {0} /\ r = x * p /\ p = y * r
    BY <1>2, <1>3
<1> HIDE DEF p, r
<1>5. x > 0 /\ y > 0
    <2>1. x <= 0 => x * p <= 0
        BY <1>4
    <2>2. y <= 0 => y * r <= 0
        BY <1>4
    <2> QED
        BY <1>4, <2>1, <2>2
<1>6. r >= p /\ p >= r
    <2>1. (x - 1) * p >= 0 /\ (y - 1) * r >= 0
        BY <1>4, <1>5
    <2> QED
        BY <1>4, <2>1
<1>7. a[2] = b[2]
    BY <1>4, <1>6 DEF p, r
<1>8. a[1] = b[1]
    <2> DEFINE z == a[1]
               w == b[1]
    <2>1. z * p = w * p /\ z \in Int /\ w \in Int
        BY <1>2, <1>7 DEF p
    <2> HIDE DEF z, w
    <2>2. z = w
        BY <1>4, <2>1
    <2> QED
        BY <2>2 DEF z, w
<1> QED
    BY <1>1, <1>7, <1>8

-----------------------------------------------------------------------------
(* Ratio reduces a fraction; two numbers are compared, added and           *)
(* multiplied as integers over a common denominator K.                     *)
LEMMA DivideExactly ==
    ASSUME NEW k \in Int, NEW g \in Nat \ {0}
    PROVE  (k * g) \div g = k
<1> DEFINE x == k * g
           q == x \div g
           r == x % g
<1>1. x \in Int /\ q \in Int /\ r \in 0 .. g - 1 /\ x = q * g + r
    OBVIOUS
<1>2. (k - q) * g = r
    <2> HIDE DEF q, r
    <2> QED
        BY <1>1 DEF x
<1> HIDE DEF q, r
<1>3. k - q <= 0
    <2>1. ASSUME k - q >= 1 PROVE FALSE
        <3>1. (k - q - 1) * g >= 0
            BY <1>1, <2>1
        <3> QED
            BY <1>1, <1>2, <3>1
    <2> QED
        BY <1>1, <2>1
<1>4. k - q >= 0
    <2>1. ASSUME k - q <= -1 PROVE FALSE
        <3>1. (k - q) * g < 0
            BY <1>1, <2>1
        <3> QED
            BY <1>1, <1>2, <3>1
    <2> QED
        BY <1>1, <2>1
<1>5. k = q
    BY <1>1, <1>3, <1>4
<1> QED
    BY <1>5 DEF q

LEMMA RatioIs ==
    ASSUME NEW n \in Int, NEW d \in Int \ {0}
    PROVE  IsNumber(Ratio(n, d)) /\ Ratio(n, d)[1] * d = n * Ratio(n, d)[2]
<1> DEFINE x == Magnitude(n)
           y == Magnitude(d)
           g == Gcd[<<x, y>>]
           s == IF d < 0 THEN -1 ELSE 1
<1>1. x \in Nat /\ y \in Nat \ {0} /\ s * d = y /\ (x = n \/ x = -n) /\ s \in {-1, 1}
    BY DEF Magnitude
<1>2. GcdGood(x, y)
    BY <1>1, GcdIsGood
<1>3. g \in Nat \ {0}
    BY <1>1, <1>2 DEF GcdGood
<1>4. PICK i \in Int, j \in Int : x = i * g /\ y = j * g
    BY <1>2 DEF GcdGood, Divides
<1>5. PICK u \in Int, v \in Int : g = u * x + v * y
    BY <1>2 DEF GcdGood
<1>6. Ratio(n, d) = <<(s * n) \div g, (s * d) \div g>>
    BY DEF Ratio
<1> HIDE DEF x, y, g, s
<1>7. i \in Nat /\ j \in Nat \ {0}
    <2>1. i < 0 => i * g < 0
        BY <1>3
    <2>2. j <= 0 => j * g <= 0
        BY <1>3
    <2> QED
        BY <1>1, <1>3, <1>4, <2>1, <2>2
<1>8. PICK k \in {i, -i} : s * n = k * g
    <2>1. s * n = x \/ s * n = -x
        BY <1>1
    <2>2. -(i * g) = (-i) * g
        BY <1>3, <1>4
    <2> QED
        BY <1>4, <2>1, <2>2
<1>9. Ratio(n, d) = <<k, j>>
    <2>1. (k * g) \div g = k
        BY <1>3, <1>7, DivideExactly
    <2>2. (j * g) \div g = j
        BY <1>3, <1>7, DivideExactly
    <2> QED
        BY <1>1, <1>4, <1>6, <1>8, <2>1, <2>2
<1>10. Magnitude(k) = i
    BY <1>7, <1>8 DEF Magnitude
<1>11. 1 = u * i + v * j
    <2>1. (u * i + v * j) * g = 1 * g
        BY <1>3, <1>4, <1>5
    <2> DEFINE z == u * i + v * j
    <2>2. z \in Int
        BY <1>4, <1>5
    <2> HIDE DEF z
    <2>3. z * g = 1 * g
        BY <2>1 DEF z
    <2>4. (z - 1) * g = 0
        BY <1>3, <2>2, <2>3
    <2>5. z = 1
        BY <1>3, <2>2, <2>4
    <2> QED
        BY <2>5 DEF z
<1>12. Gcd[<<i, j>>] = 1
    <2> DEFINE h == Gcd[<<i, j>>]
    <2>1. GcdGood(i, j)
        BY <1>7, GcdIsGood
    <2>2. h \in Nat \ {0}
        BY <1>7, <2>1 DEF GcdGood
    <2>3. PICK a \in Int, b \in Int : i = a * h /\ j = b * h
        BY <2>1 DEF GcdGood, Divides
    <2> HIDE DEF h
    <2>4. (u * a + v * b) * h = 1
        BY <1>5, <1>11, <2>2, <2>3
    <2> DEFINE w == u * a + v * b
    <2>5. w \in Int /\ w * h = 1
        BY <1>5, <2>3, <2>4
    <2> HIDE DEF w
    <2>6. h <= 1
        <3>1. ASSUME h >= 2 PROVE FALSE
            <4>1. w <= 0 => w * h <= 0
                BY <2>2, <2>5
            <4>2. w >= 1 => (w - 1) * h >= 0
                BY <2>2, <2>5
            <4> QED
                BY <2>2, <2>5, <3>1, <4>1, <4>2
        <3> QED
            BY <2>2, <3>1
    <2>7. h = 1
        BY <2>2, <2>6
    <2> QED
        BY <2>7 DEF h
<1>13. k \in Int
    BY <1>7, <1>8
<1>14. IsNumber(<<k, j>>)
    BY <1>7, <1>10, <1>12, <1>13 DEF IsNumber
<1>15. k * d = n * j
    <2>1. (s * n) * (s * d) = (s * s) * (n * d)
        BY <1>1
    <2>2. s * s = 1
        BY <1>1
    <2>3. (k * g) * d = (s * n) * d
        BY <1>8
    <2>4. n * (j * g) = n * (s * d)
        BY <1>1, <1>4
    <2>5. (s * n) * d = n * (s * d)
        BY <1>1
    <2>6. (k * d) * g = (n * j) * g
        BY <1>3, <1>7, <1>13, <2>3, <2>4, <2>5
    <2> DEFINE l == k * d
               m == n * j
    <2>7. l \in Int /\ m \in Int /\ l * g = m * g
        BY <1>7, <1>13, <2>6
    <2> HIDE DEF l, m
    <2>8. l = m
        BY <1>3, <2>7
    <2> QED
        BY <2>8 DEF l, m
<1> QED
    BY <1>9, <1>14, <1>15

(* a is i / K. *)
At(a, K, i) == a[1] * K = i * a[2]

LEMMA Parts ==
    ASSUME NEW a, IsNumber(a)
    PROVE  a[1] \in Int /\ a[2] \in Nat \ {0} /\ a = <<a[1], a[2]>>
BY DEF IsNumber

LEMMA ScaleLess ==
    ASSUME NEW x \in Int, NEW y \in Int, NEW P \in Nat \ {0}
    PROVE  (x * P < y * P <=> x < y) /\ (x * P = y * P <=> x = y)
<1>1. x < y => (y - x - 1) * P >= 0
    OBVIOUS
<1>2. y < x => (x - y - 1) * P >= 0
    OBVIOUS
<1> QED
    BY <1>1, <1>2

LEMMA AtCompare ==
    ASSUME NEW a, NEW b, IsNumber(a), IsNumber(b),
           NEW K \in Nat \ {0}, NEW i \in Int, NEW j \in Int, At(a, K, i), At(b, K, j)
    PROVE  (Lt(a, b) <=> i < j) /\ (a = b <=> i = j)
<1> DEFINE p == a[1]
           q == a[2]
           r == b[1]
           s == b[2]
<1>1. p \in Int /\ q \in Nat \ {0} /\ r \in Int /\ s \in Nat \ {0} /\ p * K = i * q /\ r * K = j * s
    BY Parts DEF At
<1>2. Lt(a, b) <=> p * s < r * q
    BY DEF Lt
<1>3. a = b <=> p * s = r * q
    BY SameNumber
<1> HIDE DEF p, q, r, s
<1>4. (p * s) * K = i * (q * s) /\ (r * q) * K = j * (q * s)
    <2>1. (p * s) * K = (p * K) * s /\ (r * q) * K = (r * K) * q
        BY <1>1
    <2>2. (i * q) * s = i * (q * s) /\ (j * s) * q = j * (q * s)
        BY <1>1
    <2> QED
        BY <1>1, <2>1, <2>2
<1> DEFINE x == p * s
           y == r * q
           P == q * s
<1>5. x \in Int /\ y \in Int /\ P \in Nat \ {0} /\ x * K = i * P /\ y * K = j * P
    BY <1>1, <1>4
<1>6. (Lt(a, b) <=> x < y) /\ (a = b <=> x = y)
    BY <1>2, <1>3
<1> HIDE DEF x, y, P
<1>7. (x < y <=> x * K < y * K) /\ (x = y <=> x * K = y * K)
    BY <1>5, ScaleLess
<1>8. (i < j <=> i * P < j * P) /\ (i = j <=> i * P = j * P)
    BY <1>5, ScaleLess
<1> QED
    BY <1>5, <1>6, <1>7, <1>8

LEMMA AtMultiple ==
    ASSUME NEW a, IsNumber(a), NEW L \in Nat \ {0}
    PROVE  a[2] * L \in Nat \ {0} /\ a[1] * L \in Int /\ At(a, a[2] * L, a[1] * L)
<1> DEFINE p == a[1]
           q == a[2]
<1>1. p \in Int /\ q \in Nat \ {0}
    BY Parts
<1>2. SUFFICES q * L \in Nat \ {0} /\ p * L \in Int /\ p * (q * L) = (p * L) * q
    BY DEF At
<1> HIDE DEF p, q
<1> QED
    BY <1>1

(* Numbers have a common denominator. *)
LEMMA Denominator ==
    ASSUME NEW a, NEW b, NEW c, NEW d, IsNumber(a), IsNumber(b), IsNumber(c), IsNumber(d)
    PROVE  \E K \in Nat \ {0} : \E i \in Int, j \in Int, k \in Int, l \in Int :
               At(a, K, i) /\ At(b, K, j) /\ At(c, K, k) /\ At(d, K, l)
<1> DEFINE p == a[2]
           q == b[2]
           r == c[2]
           s == d[2]
           K == p * (q * (r * s))
<1>1. p \in Nat \ {0} /\ q \in Nat \ {0} /\ r \in Nat \ {0} /\ s \in Nat \ {0}
    BY Parts
<1>2. q * (r * s) \in Nat \ {0} /\ p * (r * s) \in Nat \ {0} /\ p * (q * s) \in Nat \ {0} /\ p * (q * r) \in Nat \ {0}
    <2>1. \A x \in Nat \ {0}, y \in Nat \ {0} : x * y \in Nat \ {0}
        OBVIOUS
    <2> HIDE DEF p, q, r, s
    <2> QED
        BY <1>1, <2>1
<1>3. K = q * (p * (r * s)) /\ K = r * (p * (q * s)) /\ K = s * (p * (q * r))
    <2> HIDE DEF p, q, r, s
    <2> QED
        BY <1>1
<1> DEFINE x == q * (r * s)
           y == p * (r * s)
           z == p * (q * s)
           w == p * (q * r)
<1>4. K \in Nat \ {0} /\ a[1] * x \in Int /\ At(a, K, a[1] * x)
    <2>1. K = a[2] * x
        OBVIOUS
    <2> HIDE DEF K, x
    <2> QED
        BY <1>2, <2>1, AtMultiple DEF x
<1>5. b[1] * y \in Int /\ At(b, K, b[1] * y)
    <2>1. K = b[2] * y
        BY <1>3
    <2> HIDE DEF K, y
    <2> QED
        BY <1>2, <2>1, AtMultiple DEF y
<1>6. c[1] * z \in Int /\ At(c, K, c[1] * z)
    <2>1. K = c[2] * z
        BY <1>3
    <2> HIDE DEF K, z
    <2> QED
        BY <1>2, <2>1, AtMultiple DEF z
<1>7. d[1] * w \in Int /\ At(d, K, d[1] * w)
    <2>1. K = d[2] * w
        BY <1>3
    <2> HIDE DEF K, w
    <2> QED
        BY <1>2, <2>1, AtMultiple DEF w
<1> HIDE DEF K, x, y, z, w
<1> QED
    BY <1>4, <1>5, <1>6, <1>7

LEMMA WholeNumber ==
    ASSUME NEW n \in Int
    PROVE  /\ IsNumber(Whole(n)) /\ IsWhole(Whole(n))
           /\ \A K \in Nat \ {0} : At(Whole(n), K, n * K)
<1>1. Magnitude(n) \in Nat
    BY DEF Magnitude
<1>2. Gcd[<<Magnitude(n), 1>>] = 1
    <2>1. Magnitude(n) % 1 = 0
        BY <1>1
    <2>2. Gcd[<<1, 0>>] = 1
        BY GcdUnfold
    <2> QED
        BY <1>1, <2>1, <2>2, GcdUnfold
<1> QED
    BY <1>2 DEF IsNumber, Whole, IsWhole, At

LEMMA ZeroOne == IsNumber(Zero) /\ IsNumber(One)
BY WholeNumber DEF Zero, One

LEMMA ZeroAt == \A K \in Nat \ {0} : At(Zero, K, 0)
BY DEF At, Zero, Whole

LEMMA RatioAt ==
    ASSUME NEW n \in Int, NEW d \in Int \ {0}, NEW K \in Nat \ {0}, NEW i \in Int, n * K = i * d
    PROVE  IsNumber(Ratio(n, d)) /\ At(Ratio(n, d), K, i)
<1> DEFINE p == Ratio(n, d)[1]
           q == Ratio(n, d)[2]
<1>1. IsNumber(Ratio(n, d)) /\ p * d = n * q
    BY RatioIs
<1>2. p \in Int /\ q \in Nat \ {0}
    BY <1>1, Parts
<1> HIDE DEF p, q
<1>3. (p * K) * d = (i * q) * d
    <2>1. (p * K) * d = (p * d) * K
        BY <1>2
    <2>2. (n * q) * K = (n * K) * q
        BY <1>2
    <2>3. (i * d) * q = (i * q) * d
        BY <1>2
    <2> QED
        BY <1>1, <2>1, <2>2, <2>3
<1> DEFINE x == p * K
           y == i * q
<1>4. x \in Int /\ y \in Int /\ x * d = y * d
    BY <1>2, <1>3
<1> HIDE DEF x, y
<1>5. x = y
    BY <1>4
<1> QED
    BY <1>1, <1>5 DEF At, p, q, x, y

LEMMA PlusAt ==
    ASSUME NEW a, NEW b, IsNumber(a), IsNumber(b),
           NEW K \in Nat \ {0}, NEW i \in Int, NEW j \in Int, At(a, K, i), At(b, K, j)
    PROVE  IsNumber(Plus(a, b)) /\ At(Plus(a, b), K, i + j)
<1> DEFINE p == a[1]
           q == a[2]
           r == b[1]
           s == b[2]
<1>1. p \in Int /\ q \in Nat \ {0} /\ r \in Int /\ s \in Nat \ {0} /\ p * K = i * q /\ r * K = j * s
    BY Parts DEF At
<1>2. Plus(a, b) = Ratio(p * s + r * q, q * s)
    BY DEF Plus
<1> HIDE DEF p, q, r, s
<1>3. p * s + r * q \in Int /\ q * s \in Int \ {0}
    BY <1>1
<1>4. (p * s + r * q) * K = (i + j) * (q * s)
    <2>1. (p * s + r * q) * K = (p * K) * s + (r * K) * q
        BY <1>1
    <2>2. (i * q) * s + (j * s) * q = (i + j) * (q * s)
        BY <1>1
    <2> QED
        BY <1>1, <2>1, <2>2
<1> HIDE DEF At
<1>5. i + j \in Int
    OBVIOUS
<1> QED
    BY <1>2, <1>3, <1>4, <1>5, RatioAt

LEMMA TimesAt ==
    ASSUME NEW a, NEW b, IsNumber(a), IsNumber(b), NEW K \in Nat \ {0}, NEW L \in Nat \ {0},
           NEW i \in Int, NEW j \in Int, At(a, K, i), At(b, L, j)
    PROVE  IsNumber(Times(a, b)) /\ At(Times(a, b), K * L, i * j)
<1> DEFINE p == a[1]
           q == a[2]
           r == b[1]
           s == b[2]
<1>1. p \in Int /\ q \in Nat \ {0} /\ r \in Int /\ s \in Nat \ {0} /\ p * K = i * q /\ r * L = j * s
    BY Parts DEF At
<1>2. Times(a, b) = Ratio(p * r, q * s)
    BY DEF Times
<1> HIDE DEF p, q, r, s
<1>3. p * r \in Int /\ q * s \in Int \ {0} /\ K * L \in Nat \ {0} /\ i * j \in Int
    BY <1>1
<1>4. (p * r) * (K * L) = (i * j) * (q * s)
    <2>1. (p * r) * (K * L) = (p * K) * (r * L)
        BY <1>1
    <2>2. (i * q) * (j * s) = (i * j) * (q * s)
        BY <1>1
    <2> QED
        BY <1>1, <2>1, <2>2
<1> QED
    BY <1>2, <1>3, <1>4, RatioAt

LEMMA OppositeAt ==
    ASSUME NEW a, IsNumber(a)
    PROVE  /\ IsNumber(Opposite(a))
           /\ \A K \in Nat \ {0}, i \in Int : At(a, K, i) => At(Opposite(a), K, -i)
<1> DEFINE p == a[1]
           q == a[2]
<1>1. p \in Int /\ q \in Nat \ {0} /\ Gcd[<<Magnitude(p), q>>] = 1
    BY Parts DEF IsNumber
<1>2. Opposite(a) = <<-p, q>> /\ \A K, i : At(a, K, i) <=> p * K = i * q
    BY DEF Opposite, At
<1> HIDE DEF p, q
<1>3. Magnitude(-p) = Magnitude(p)
    BY <1>1 DEF Magnitude
<1>4. IsNumber(Opposite(a))
    BY <1>1, <1>2, <1>3 DEF IsNumber
<1>5. ASSUME NEW K \in Nat \ {0}, NEW i \in Int, At(a, K, i)
      PROVE  At(Opposite(a), K, -i)
    <2>1. p * K = i * q
        BY <1>2, <1>5
    <2>2. (-p) * K = -(p * K) /\ (-i) * q = -(i * q)
        BY <1>1
    <2> QED
        BY <1>2, <2>1, <2>2 DEF At
<1> QED
    BY <1>4, <1>5

-----------------------------------------------------------------------------
(* The order of the numbers, and what the operations on intervals contain. *)
LEMMA LtOrder ==
    ASSUME NEW a, NEW b, IsNumber(a), IsNumber(b)
    PROVE  (Lt(a, b) \/ a = b \/ Lt(b, a)) /\ ~ Lt(a, a) /\ ~ (Lt(a, b) /\ Lt(b, a))
<1>1. PICK K \in Nat \ {0}, i \in Int, j \in Int : At(a, K, i) /\ At(b, K, j)
    BY Denominator
<1>2. (Lt(a, b) <=> i < j) /\ (Lt(b, a) <=> j < i) /\ (a = b <=> i = j) /\ (Lt(a, a) <=> i < i)
    BY <1>1, AtCompare
<1> QED
    BY <1>2

LEMMA LtTransitive ==
    ASSUME NEW a, NEW b, NEW c, IsNumber(a), IsNumber(b), IsNumber(c), Lt(a, b), Lt(b, c)
    PROVE  Lt(a, c)
<1>1. PICK K \in Nat \ {0}, i \in Int, j \in Int, k \in Int : At(a, K, i) /\ At(b, K, j) /\ At(c, K, k)
    BY Denominator
<1>2. (Lt(a, b) <=> i < j) /\ (Lt(b, c) <=> j < k) /\ (Lt(a, c) <=> i < k)
    BY <1>1, AtCompare
<1> QED
    BY <1>2

LEMMA LessOrder ==
    ASSUME NEW lower \in BOOLEAN, NEW a, NEW b, NEW c, IsNumber(a), IsNumber(b), IsNumber(c)
    PROVE  /\ Less(a, b, lower) \/ a = b \/ Less(b, a, lower)
           /\ ~ Less(a, a, lower) /\ ~ (Less(a, b, lower) /\ Less(b, a, lower))
           /\ Less(a, b, lower) /\ Less(b, c, lower) => Less(a, c, lower)
           /\ Less(a, b, ~ lower) <=> Less(b, a, lower)
BY LtOrder, LtTransitive DEF Less

LEMMA PlusLess ==
    ASSUME NEW lower \in BOOLEAN, NEW a, NEW b, NEW c, NEW d,
           IsNumber(a), IsNumber(b), IsNumber(c), IsNumber(d)
    PROVE  /\ IsNumber(Plus(a, c))
           /\ Less(a, b, lower) /\ Less(c, d, lower) => Less(Plus(a, c), Plus(b, d), lower)
           /\ Less(a, b, lower) /\ c = d => Less(Plus(a, c), Plus(b, d), lower)
           /\ a = b /\ Less(c, d, lower) => Less(Plus(a, c), Plus(b, d), lower)
<1>1. PICK K \in Nat \ {0}, i \in Int, j \in Int, k \in Int, l \in Int :
          At(a, K, i) /\ At(b, K, j) /\ At(c, K, k) /\ At(d, K, l)
    BY Denominator
<1>2. IsNumber(Plus(a, c)) /\ At(Plus(a, c), K, i + k) /\ IsNumber(Plus(b, d)) /\ At(Plus(b, d), K, j + l)
    BY <1>1, PlusAt
<1> DEFINE x == i + k
           y == j + l
<1>3. x \in Int /\ y \in Int /\ At(Plus(a, c), K, x) /\ At(Plus(b, d), K, y)
    BY <1>2
<1> HIDE DEF x, y
<1>4. (Lt(a, b) <=> i < j) /\ (Lt(b, a) <=> j < i) /\ (a = b <=> i = j)
    BY <1>1, AtCompare
<1>5. (Lt(c, d) <=> k < l) /\ (Lt(d, c) <=> l < k) /\ (c = d <=> k = l)
    BY <1>1, AtCompare
<1>6. (Lt(Plus(a, c), Plus(b, d)) <=> x < y) /\ (Lt(Plus(b, d), Plus(a, c)) <=> y < x)
    BY <1>2, <1>3, AtCompare
<1> QED
    BY <1>1, <1>2, <1>4, <1>5, <1>6 DEF Less, x, y

LEMMA TimesLess ==
    ASSUME NEW lower \in BOOLEAN, NEW k, NEW a, NEW b, IsNumber(k), IsNumber(a), IsNumber(b)
    PROVE  /\ IsNumber(Times(k, a))
           /\ Lt(Zero, k) /\ Less(a, b, lower) => Less(Times(k, a), Times(k, b), lower)
           /\ Lt(k, Zero) /\ Less(a, b, lower) => Less(Times(k, a), Times(k, b), ~ lower)
<1>1. PICK K \in Nat \ {0}, i \in Int, j \in Int : At(a, K, i) /\ At(b, K, j)
    BY Denominator
<1>2. PICK L \in Nat \ {0}, l \in Int : At(k, L, l)
    BY Denominator
<1> DEFINE M == L * K
           x == l * i
           y == l * j
<1>3. M \in Nat \ {0} /\ x \in Int /\ y \in Int
    BY <1>1, <1>2
<1>4. IsNumber(Times(k, a)) /\ At(Times(k, a), M, x) /\ IsNumber(Times(k, b)) /\ At(Times(k, b), M, y)
    BY <1>1, <1>2, TimesAt
<1>5. (Lt(Zero, k) <=> 0 < l) /\ (Lt(k, Zero) <=> l < 0)
    BY <1>2, ZeroOne, ZeroAt, AtCompare
<1>6. (Lt(a, b) <=> i < j) /\ (Lt(b, a) <=> j < i)
    BY <1>1, AtCompare
<1>7. /\ l > 0 /\ i < j => x < y
      /\ l > 0 /\ j < i => y < x
      /\ l < 0 /\ i < j => y < x
      /\ l < 0 /\ j < i => x < y
    <2>1. y - x = l * (j - i)
        BY <1>1, <1>2
    <2>2. \A u \in Int, v \in Int : (u > 0 /\ v > 0 => u * v > 0) /\ (u < 0 /\ v > 0 => u * v < 0)
                                    /\ (u > 0 /\ v < 0 => u * v < 0) /\ (u < 0 /\ v < 0 => u * v > 0)
        OBVIOUS
    <2> DEFINE z == j - i
    <2>3. z \in Int /\ y - x = l * z
        BY <1>1, <2>1
    <2>4. (i < j <=> z > 0) /\ (j < i <=> z < 0)
        BY <1>1
    <2> HIDE DEF x, y, z
    <2>5. (x < y <=> y - x > 0) /\ (y < x <=> y - x < 0)
        BY <1>3
    <2> QED
        BY <1>2, <2>2, <2>3, <2>4, <2>5
<1> HIDE DEF M, x, y
<1>8. (Lt(Times(k, a), Times(k, b)) <=> x < y) /\ (Lt(Times(k, b), Times(k, a)) <=> y < x)
    BY <1>3, <1>4, AtCompare
<1> QED
    BY <1>4, <1>5, <1>6, <1>7, <1>8 DEF Less

LEMMA TimesZero ==
    ASSUME NEW k, IsNumber(k)
    PROVE  Times(k, Zero) = Zero
<1>1. PICK L \in Nat \ {0}, l \in Int : At(k, L, l)
    BY Denominator
<1>2. IsNumber(Times(k, Zero)) /\ At(Times(k, Zero), L * 1, l * 0)
    <2>1. At(Zero, 1, 0)
        BY ZeroAt
    <2> QED
        BY <1>1, <2>1, ZeroOne, TimesAt
<1>3. L * 1 \in Nat \ {0} /\ l * 0 = 0
    BY <1>1
<1> QED
    BY <1>2, <1>3, ZeroOne, ZeroAt, AtCompare

-----------------------------------------------------------------------------
(* An end of the direction lower, and what it lets through.                *)
IsEnd(e, lower) ==
    /\ e.inf \in {0, IF lower THEN -1 ELSE 1}
    /\ IsNumber(e.val) /\ e.open \in BOOLEAN
Admits(e, lower, v) == e.inf = 0 => Meets([val |-> e.val, lower |-> lower, open |-> e.open], v)
IsInterval(i) == IsEnd(i.lo, TRUE) /\ IsEnd(i.up, FALSE)
Spans(i, v) == Admits(i.lo, TRUE, v) /\ Admits(i.up, FALSE, v)

LEMMA EndPlusAdmits ==
    ASSUME NEW lower \in BOOLEAN, NEW e, NEW f, IsEnd(e, lower), IsEnd(f, lower),
           NEW v, NEW w, IsNumber(v), IsNumber(w), Admits(e, lower, v), Admits(f, lower, w)
    PROVE  IsEnd(EndPlus(e, f), lower) /\ Admits(EndPlus(e, f), lower, Plus(v, w))
<1>1. CASE e.inf # 0
    BY <1>1 DEF EndPlus, Admits
<1>2. CASE e.inf = 0 /\ f.inf # 0
    BY <1>2 DEF EndPlus, Admits
<1>3. CASE e.inf = 0 /\ f.inf = 0
    <2>1. EndPlus(e, f) = Finite(Plus(e.val, f.val), e.open \/ f.open)
        BY <1>3 DEF EndPlus
    <2>2. IsNumber(Plus(e.val, f.val))
        BY PlusLess DEF IsEnd
    <2>3. Less(e.val, v, lower) \/ (e.val = v /\ ~ e.open)
        BY <1>3 DEF Admits, Meets
    <2>4. Less(f.val, w, lower) \/ (f.val = w /\ ~ f.open)
        BY <1>3 DEF Admits, Meets
    <2>5. \/ Less(Plus(e.val, f.val), Plus(v, w), lower)
          \/ Plus(e.val, f.val) = Plus(v, w) /\ ~ (e.open \/ f.open)
        BY <2>3, <2>4, PlusLess DEF IsEnd
    <2> QED
        BY <2>1, <2>2, <2>5 DEF IsEnd, Admits, Finite, Meets
<1> QED
    BY <1>1, <1>2, <1>3

LEMMA AddContains ==
    ASSUME NEW i, NEW j, IsInterval(i), IsInterval(j),
           NEW v, NEW w, IsNumber(v), IsNumber(w), Spans(i, v), Spans(j, w)
    PROVE  IsInterval(IAdd(i, j)) /\ Spans(IAdd(i, j), Plus(v, w))
BY EndPlusAdmits DEF IsInterval, Spans, IAdd

LEMMA Signs ==
    ASSUME NEW x \in {-1, 1}, NEW y \in {-1, 1}
    PROVE  x * y = IF x = y THEN 1 ELSE -1
<1>1. (-1) * (-1) = 1 /\ (-1) * 1 = -1 /\ 1 * (-1) = -1 /\ 1 * 1 = 1
    OBVIOUS
<1> QED
    BY <1>1

LEMMA EndTimesAdmits ==
    ASSUME NEW lower \in BOOLEAN, NEW e, IsEnd(e, lower), NEW v, IsNumber(v), Admits(e, lower, v),
           NEW k, IsNumber(k), k # Zero
    PROVE  LET f == EndTimes(Finite(k, FALSE), e)
               side == IF Lt(k, Zero) THEN ~ lower ELSE lower
           IN  IsEnd(f, side) /\ Admits(f, side, Times(k, v))
<1> DEFINE f == EndTimes(Finite(k, FALSE), e)
           side == IF Lt(k, Zero) THEN ~ lower ELSE lower
<1>1. Lt(k, Zero) \/ Lt(Zero, k)
    BY LtOrder, ZeroOne
<1>2. ~ (Lt(k, Zero) /\ Lt(Zero, k))
    BY LtOrder, ZeroOne
<1>3. Finite(k, FALSE).inf = 0 /\ Finite(k, FALSE).val = k /\ ~ Finite(k, FALSE).open
    BY DEF Finite
<1>4. ~ IsNull(Finite(k, FALSE))
    BY <1>3 DEF IsNull
<1>5. CASE e.inf # 0
    <2>1. f = Infinite(Sign(Finite(k, FALSE)) * Sign(e))
        BY <1>4, <1>5 DEF EndTimes, IsNull
    <2>2. Sign(e) = IF lower THEN -1 ELSE 1
        BY <1>5 DEF Sign, IsEnd
    <2>3. Sign(Finite(k, FALSE)) = IF Lt(k, Zero) THEN -1 ELSE 1
        BY <1>1, <1>3 DEF Sign
    <2>4. side \in BOOLEAN /\ f = Infinite(IF side THEN -1 ELSE 1)
        <3> DEFINE x == Sign(Finite(k, FALSE))
                   y == Sign(e)
        <3>1. x \in {-1, 1} /\ y \in {-1, 1}
            BY <2>2, <2>3
        <3>2. x * y = IF x = y THEN 1 ELSE -1
            BY <3>1, Signs
        <3>3. x = y <=> ~ side
            <4>1. x = (IF Lt(k, Zero) THEN -1 ELSE 1) /\ y = (IF lower THEN -1 ELSE 1)
                BY <2>2, <2>3
            <4>2. -1 # 1
                OBVIOUS
            <4> HIDE DEF x, y
            <4>3. (x = y) <=> (Lt(k, Zero) <=> lower)
                BY <4>1, <4>2
            <4>4. side <=> ~ (Lt(k, Zero) <=> lower)
                OBVIOUS
            <4> QED
                BY <4>3, <4>4
        <3>4. side \in BOOLEAN /\ f = Infinite(x * y)
            BY <2>1
        <3> HIDE DEF x, y, side, f
        <3>5. x * y = IF side THEN -1 ELSE 1
            BY <3>2, <3>3
        <3> QED
            BY <3>4, <3>5
    <2> HIDE DEF f, side
    <2>5. f.inf = (IF side THEN -1 ELSE 1) /\ f.val = Zero /\ f.open = TRUE
        BY <2>4 DEF Infinite
    <2>6. f.inf # 0
        BY <2>4, <2>5
    <2>7. IsEnd(f, side) /\ Admits(f, side, Times(k, v))
        BY <2>4, <2>5, <2>6, ZeroOne DEF IsEnd, Admits
    <2> QED
        BY <2>7 DEF f, side
<1>6. CASE e.inf = 0
    <2>1. f = Finite(Times(k, e.val), e.open)
        <3>1. CASE e.val = Zero
            <4>1. IsNull(e)
                BY <1>6, <3>1 DEF IsNull
            <4>2. f = Finite(Zero, ~ ((IsNull(Finite(k, FALSE)) /\ ~ Finite(k, FALSE).open) \/ (IsNull(e) /\ ~ e.open)))
                BY <4>1 DEF EndTimes
            <4>3. (~ ((IsNull(Finite(k, FALSE)) /\ ~ Finite(k, FALSE).open) \/ (IsNull(e) /\ ~ e.open))) = e.open
                BY <1>4, <4>1 DEF IsEnd
            <4> QED
                BY <3>1, <4>2, <4>3, TimesZero
        <3>2. CASE e.val # Zero
            <4>1. f = Finite(Times(k, e.val), Finite(k, FALSE).open \/ e.open)
                BY <1>3, <1>4, <1>6, <3>2 DEF EndTimes, IsNull
            <4>2. (Finite(k, FALSE).open \/ e.open) = e.open
                BY <1>3 DEF IsEnd
            <4> QED
                BY <4>1, <4>2
        <3> QED
            BY <3>1, <3>2
    <2>2. IsNumber(Times(k, e.val)) /\ side \in BOOLEAN
        BY TimesLess DEF IsEnd
    <2>3. Less(e.val, v, lower) \/ (e.val = v /\ ~ e.open)
        BY <1>6 DEF Admits, Meets
    <2>4. Less(Times(k, e.val), Times(k, v), side) \/ (Times(k, e.val) = Times(k, v) /\ ~ e.open)
        BY <1>1, <1>2, <2>3, TimesLess DEF IsEnd
    <2> QED
        BY <2>1, <2>2, <2>4 DEF IsEnd, Admits, Finite, Meets
<1> QED
    BY <1>5, <1>6

LEMMA ScaleContains ==
    ASSUME NEW i, IsInterval(i), NEW v, IsNumber(v), Spans(i, v), NEW k, IsNumber(k), k # Zero
    PROVE  IsInterval(IScale(k, i)) /\ Spans(IScale(k, i), Times(k, v))
<1> DEFINE e == EndTimes(Finite(k, FALSE), i.lo)
           f == EndTimes(Finite(k, FALSE), i.up)
<1>1. LET side == IF Lt(k, Zero) THEN ~ TRUE ELSE TRUE IN IsEnd(e, side) /\ Admits(e, side, Times(k, v))
    BY EndTimesAdmits DEF IsInterval, Spans
<1>2. LET side == IF Lt(k, Zero) THEN ~ FALSE ELSE FALSE IN IsEnd(f, side) /\ Admits(f, side, Times(k, v))
    BY EndTimesAdmits DEF IsInterval, Spans
<1>3. IScale(k, i) = IF Lt(k, Zero) THEN [lo |-> f, up |-> e] ELSE [lo |-> e, up |-> f]
    BY DEF IScale
<1> HIDE DEF e, f
<1>4. CASE Lt(k, Zero)
    <2>1. IsEnd(e, FALSE) /\ Admits(e, FALSE, Times(k, v)) /\ IsEnd(f, TRUE) /\ Admits(f, TRUE, Times(k, v))
        BY <1>1, <1>2, <1>4
    <2>2. IScale(k, i).lo = f /\ IScale(k, i).up = e
        BY <1>3, <1>4
    <2> QED
        BY <2>1, <2>2 DEF IsInterval, Spans
<1>5. CASE ~ Lt(k, Zero)
    <2>1. IsEnd(e, TRUE) /\ Admits(e, TRUE, Times(k, v)) /\ IsEnd(f, FALSE) /\ Admits(f, FALSE, Times(k, v))
        BY <1>1, <1>2, <1>5
    <2>2. IScale(k, i).lo = e /\ IScale(k, i).up = f
        BY <1>3, <1>5
    <2> QED
        BY <2>1, <2>2 DEF IsInterval, Spans
<1> QED
    BY <1>4, <1>5

-----------------------------------------------------------------------------
(* A node, and what its bounds say of the points in its box. The value of  *)
(* an atom at a node is its value at every point of the box.               *)
Numbers == {a \in Int \X Int : IsNumber(a)}
Bounds == [val : Numbers, open : BOOLEAN, ts : Nat]
Nodes(p) ==
    [low : [p.vars -> Bounds \cup {Null}], upp : [p.vars -> Bounds \cup {Null}],
     bval : [p.bool -> {"undef", "true", "false", "conflict"}],
     up : Seq(UNION {ToSet(c) : c \in ToSet(p.clauses)}), conflict : BOOLEAN]

(* The number v is within the bound b of the direction lower.              *)
LetsIn(b, lower, v) == Meets([val |-> b.val, lower |-> lower, open |-> b.open], v)

LEMMA OwnBound ==
    ASSUME NEW p, NEW n \in Nodes(p), NEW x \in p.vars, NEW lower \in BOOLEAN
    PROVE  Own(n, x, lower) = Null \/ (Own(n, x, lower) \in Bounds /\ IsNumber(Own(n, x, lower).val))
BY DEF Nodes, Own, Bounds, Numbers

LEMMA PastMeans ==
    ASSUME NEW b, NEW lower \in BOOLEAN, NEW ties \in BOOLEAN, NEW v, NEW w,
           b # Null => b \in Bounds, IsNumber(v), IsNumber(w),
           b # Null => LetsIn(b, lower, v), Past(b, w, lower, ties)
    PROVE  Less(w, v, lower) \/ (ties /\ v = w)
<1>1. b # Null /\ b \in Bounds /\ IsNumber(b.val)
    BY DEF Past, Bounds, Numbers
<1>2. Less(b.val, v, lower) \/ (b.val = v /\ ~ b.open)
    BY <1>1 DEF LetsIn, Meets
<1>3. Less(w, b.val, lower) \/ (b.val = w /\ (b.open \/ ties))
    BY DEF Past
<1> QED
    BY <1>1, <1>2, <1>3, LessOrder

LEMMA BoxBound ==
    ASSUME NEW p, NEW m, NEW n \in Nodes(p), InBox(p, m, n), NEW x \in p.vars \ p.bool, NEW lower \in BOOLEAN
    PROVE  Own(n, x, lower) # Null => LetsIn(Own(n, x, lower), lower, m[x])
BY DEF InBox, LetsIn

LEMMA IneqValueSound ==
    ASSUME NEW p, NEW m, IsPoint(p, m), NEW n \in Nodes(p), InBox(p, m, n),
           NEW a, IsAtom(p, a), a.kind = "ineq"
    PROVE  /\ IneqValue(n, a) = "true" => Meets(a, m[a.x])
           /\ IneqValue(n, a) = "false" => ~ Meets(a, m[a.x])
<1>1. a.x \in p.vars \ p.bool /\ a.lower \in BOOLEAN /\ a.open \in BOOLEAN /\ IsNumber(a.val) /\ IsNumber(m[a.x])
    BY DEF IsAtom, IsPoint
<1>2. ASSUME NEW lower \in BOOLEAN, NEW ties \in BOOLEAN, Past(Own(n, a.x, lower), a.val, lower, ties)
      PROVE  Less(a.val, m[a.x], lower) \/ (ties /\ m[a.x] = a.val)
    <2> DEFINE b == Own(n, a.x, lower)
    <2>1. b # Null => b \in Bounds /\ LetsIn(b, lower, m[a.x])
        BY <1>1, OwnBound, BoxBound
    <2> HIDE DEF b
    <2>2. Past(b, a.val, lower, ties)
        BY <1>2 DEF b
    <2> QED
        BY <1>1, <2>1, <2>2, PastMeans
<1>3. ASSUME IneqValue(n, a) = "true" PROVE Meets(a, m[a.x])
    <2>1. Past(Own(n, a.x, a.lower), a.val, a.lower, ~ a.open)
        BY <1>3 DEF IneqValue
    <2> QED
        BY <1>1, <1>2, <2>1 DEF Meets
<1>4. ASSUME IneqValue(n, a) = "false" PROVE ~ Meets(a, m[a.x])
    <2>1. Past(Own(n, a.x, ~ a.lower), a.val, ~ a.lower, a.open)
        BY <1>4 DEF IneqValue
    <2>2. Less(a.val, m[a.x], ~ a.lower) \/ (a.open /\ m[a.x] = a.val)
        BY <1>1, <1>2, <2>1
    <2> QED
        BY <1>1, <2>2, LessOrder DEF Meets
<1> QED
    BY <1>3, <1>4

LEMMA EqValueSound ==
    ASSUME NEW p, NEW m, IsPoint(p, m), NEW n \in Nodes(p), InBox(p, m, n),
           NEW a, IsAtom(p, a), a.kind = "eq"
    PROVE  /\ EqValue(p, n, a) = "true" => (m[a.x] = a.val) # a.lower
           /\ EqValue(p, n, a) = "false" => ~ ((m[a.x] = a.val) # a.lower)
<1> DEFINE v == m[a.x]
<1>1. a.x \in p.vars \ p.bool /\ a.lower \in BOOLEAN /\ IsNumber(a.val) /\ IsNumber(v)
    BY DEF IsAtom, IsPoint
<1>2. a.x \in p.int => IsWhole(v)
    BY <1>1 DEF IsPoint
<1>3. n.low[a.x] # Null => n.low[a.x] \in Bounds /\ LetsIn(n.low[a.x], TRUE, v)
    BY <1>1, OwnBound, BoxBound DEF Own
<1>4. n.upp[a.x] # Null => n.upp[a.x] \in Bounds /\ LetsIn(n.upp[a.x], FALSE, v)
    BY <1>1, OwnBound, BoxBound DEF Own
<1>5. a.x \in p.int /\ ~ IsWhole(a.val) => v # a.val
    BY <1>2
<1>6. Fixed(n, a.x) /\ n.low[a.x].val = a.val => v = a.val
    <2>1. ASSUME Fixed(n, a.x), n.low[a.x].val = a.val PROVE v = a.val
        <3>1. n.upp[a.x] # Null /\ n.low[a.x] # Null /\ n.upp[a.x].val = a.val
            BY <2>1 DEF Fixed
        <3>2. ~ Less(v, a.val, TRUE) /\ ~ Less(v, a.val, FALSE)
            BY <1>1, <1>3, <1>4, <2>1, <3>1, LessOrder DEF LetsIn, Meets
        <3> QED
            BY <1>1, <3>2, LessOrder DEF Less
    <2> QED
        BY <2>1
<1>7. Past(n.upp[a.x], a.val, FALSE, FALSE) => v # a.val
    BY <1>1, <1>4, PastMeans, LessOrder
<1>8. Past(n.low[a.x], a.val, TRUE, FALSE) => v # a.val
    BY <1>1, <1>3, PastMeans, LessOrder
<1> HIDE DEF v
<1>9. CASE a.lower = TRUE
    <2>1. EqValue(p, n, a) = "true" => v # a.val
        BY <1>5, <1>7, <1>8, <1>9 DEF EqValue
    <2>2. EqValue(p, n, a) = "false" => v = a.val
        BY <1>6, <1>9 DEF EqValue
    <2> QED
        BY <1>9, <2>1, <2>2 DEF v
<1>10. CASE a.lower = FALSE
    <2>1. EqValue(p, n, a) = "false" => v # a.val
        BY <1>5, <1>7, <1>8, <1>10 DEF EqValue
    <2>2. EqValue(p, n, a) = "true" => v = a.val
        BY <1>6, <1>10 DEF EqValue
    <2> QED
        BY <1>10, <2>1, <2>2 DEF v
<1> QED
    BY <1>1, <1>9, <1>10

LEMMA BoolValueSound ==
    ASSUME NEW p, NEW m, NEW n \in Nodes(p), InBox(p, m, n),
           NEW a, IsAtom(p, a), a.kind = "bool"
    PROVE  /\ BoolValue(n, a) = "true" => (m[a.x] = One) # a.lower
           /\ BoolValue(n, a) = "false" => ~ ((m[a.x] = One) # a.lower)
<1>1. a.x \in p.vars /\ a.x \in p.bool /\ a.lower \in BOOLEAN
    BY DEF IsAtom
<1>2. n.bval[a.x] \in {"undef", IF m[a.x] = One THEN "true" ELSE "false"}
    BY <1>1 DEF InBox
<1>3. CASE m[a.x] = One
    BY <1>1, <1>2, <1>3 DEF BoolValue
<1>4. CASE m[a.x] # One
    BY <1>1, <1>2, <1>4 DEF BoolValue
<1> QED
    BY <1>3, <1>4

(* What an atom is worth at a node is what it is at every point of the box. *)
THEOREM ValueSound ==
    ASSUME NEW p, NEW m, IsPoint(p, m), NEW n \in Nodes(p), InBox(p, m, n), NEW a, IsAtom(p, a)
    PROVE  /\ Value(p, n, a) = "true" => Holds(m, a)
           /\ Value(p, n, a) = "false" => ~ Holds(m, a)
           /\ Value(p, n, a) \in {"true", "false", "undef"}
<1>1. a.kind \in {"bool", "eq", "ineq"}
    BY DEF IsAtom
<1>2. CASE a.kind = "bool"
    <2>1. Value(p, n, a) = BoolValue(n, a) /\ (Holds(m, a) <=> ((m[a.x] = One) # a.lower))
        BY <1>2 DEF Value, Holds
    <2>2. BoolValue(n, a) \in {"true", "false", "undef"}
        BY DEF BoolValue
    <2> QED
        BY <1>2, <2>1, <2>2, BoolValueSound
<1>3. CASE a.kind = "eq"
    <2>1. Value(p, n, a) = EqValue(p, n, a) /\ (Holds(m, a) <=> ((m[a.x] = a.val) # a.lower))
        BY <1>3 DEF Value, Holds
    <2>2. EqValue(p, n, a) \in {"true", "false", "undef"}
        BY DEF EqValue
    <2> QED
        BY <1>3, <2>1, <2>2, EqValueSound
<1>4. CASE a.kind = "ineq"
    <2>1. Value(p, n, a) = IneqValue(n, a) /\ (Holds(m, a) <=> Meets(a, m[a.x]))
        BY <1>4 DEF Value, Holds
    <2>2. IneqValue(n, a) \in {"true", "false", "undef"}
        BY DEF IneqValue
    <2> QED
        BY <1>4, <2>1, <2>2, IneqValueSound
<1> QED
    BY <1>1, <1>2, <1>3, <1>4

-----------------------------------------------------------------------------
(* Rounding, relaxing and normalizing a bound: whatever number the bound   *)
(* lets through, the new bound lets through.                               *)
LEMMA WholePart ==
    ASSUME NEW p \in Int, NEW q \in Nat \ {0}
    PROVE  /\ p \div q \in Int /\ (p \div q) * q <= p /\ p < (p \div q + 1) * q
<1> DEFINE f == p \div q
           r == p % q
<1>1. f \in Int /\ r \in 0 .. q - 1 /\ p = f * q + r
    OBVIOUS
<1> HIDE DEF f, r
<1>2. f * q <= p /\ p < (f + 1) * q
    BY <1>1
<1> QED
    BY <1>1, <1>2 DEF f

LEMMA Products ==
    ASSUME NEW x \in Int, NEW y \in Int, NEW q \in Nat \ {0}
    PROVE  (x * q < y * q <=> x < y) /\ (x * q <= y * q <=> x <= y)
<1>1. (x * q < y * q <=> x < y) /\ (x * q = y * q <=> x = y)
    BY ScaleLess
<1>2. x * q \in Int /\ y * q \in Int
    OBVIOUS
<1> QED
    BY <1>1, <1>2

LEMMA WholeIs ==
    ASSUME NEW v, IsNumber(v), IsWhole(v)
    PROVE  v[1] \in Int /\ v = Whole(v[1])
BY Parts DEF IsWhole, Whole

LEMMA LtWhole ==
    ASSUME NEW a, IsNumber(a), NEW k \in Int
    PROVE  (Lt(a, Whole(k)) <=> a[1] < k * a[2]) /\ (Lt(Whole(k), a) <=> k * a[2] < a[1])
BY Parts DEF Lt, Whole

LEMMA FloorCeil ==
    ASSUME NEW a, IsNumber(a), ~ IsWhole(a)
    PROVE  /\ IsNumber(Floor(a)) /\ IsNumber(Ceil(a)) /\ Lt(Floor(a), a) /\ Lt(a, Ceil(a))
           /\ \A k \in Int : /\ Lt(a, Whole(k)) => Lt(Ceil(a), Whole(k)) \/ Ceil(a) = Whole(k)
                             /\ Lt(Whole(k), a) => Lt(Whole(k), Floor(a)) \/ Floor(a) = Whole(k)
<1> DEFINE p == a[1]
           q == a[2]
           f == p \div q
           g == (-p) \div q
<1>1. p \in Int /\ q \in Nat \ {0}
    BY Parts
<1>2. f \in Int /\ f * q <= p /\ p < (f + 1) * q
    BY <1>1, WholePart
<1>3. g \in Int /\ g * q <= -p /\ -p < (g + 1) * q
    <2>1. -p \in Int
        BY <1>1
    <2> QED
        BY <1>1, <2>1, WholePart
<1>4. Floor(a) = Whole(f) /\ Ceil(a) = Whole(-g)
    BY DEF Floor, Ceil
<1>5. \A k \in Int : (Lt(a, Whole(k)) <=> p < k * q) /\ (Lt(Whole(k), a) <=> k * q < p)
    BY LtWhole
<1>6. \A k \in Int : p # k * q
    <2>1. ASSUME NEW k \in Int, p = k * q PROVE FALSE
        <3>1. a[1] * Whole(k)[2] = Whole(k)[1] * a[2]
            BY <1>1, <2>1 DEF Whole
        <3>2. a = Whole(k)
            BY <3>1, SameNumber, WholeNumber
        <3> QED
            BY <3>2, WholeNumber
    <2> QED
        BY <2>1
<1> HIDE DEF p, q, f, g
<1> DEFINE c == -g
<1>7. c \in Int /\ p <= c * q /\ (c - 1) * q < p
    <2>1. c \in Int /\ c * q = -(g * q) /\ (c - 1) * q = -((g + 1) * q)
        BY <1>1, <1>3
    <2> QED
        BY <1>1, <1>3, <2>1
<1>8. Ceil(a) = Whole(c)
    BY <1>4
<1> HIDE DEF c
<1>9. Lt(Floor(a), a) /\ Lt(a, Ceil(a))
    <2>1. f * q < p /\ p < c * q
        <3>1. p # f * q
            BY <1>2, <1>6, Zenon
        <3>2. p # c * q
            BY <1>6, <1>7, Zenon
        <3>3. f * q \in Int /\ c * q \in Int
            BY <1>1, <1>2, <1>7
        <3> QED
            BY <1>1, <1>2, <1>7, <3>1, <3>2, <3>3
    <2> QED
        BY <1>2, <1>4, <1>5, <1>7, <1>8, <2>1
<1>10. ASSUME NEW k \in Int
       PROVE  /\ Lt(a, Whole(k)) => Lt(Ceil(a), Whole(k)) \/ Ceil(a) = Whole(k)
              /\ Lt(Whole(k), a) => Lt(Whole(k), Floor(a)) \/ Floor(a) = Whole(k)
    <2>1. \A i \in Int, j \in Int : i < j => Lt(Whole(i), Whole(j))
        BY DEF Lt, Whole
    <2>2. ASSUME Lt(a, Whole(k)) PROVE c <= k
        <3>1. p < k * q
            BY <1>5, <2>2
        <3> DEFINE d == c - 1
        <3>2. d \in Int /\ k * q \in Int /\ d * q \in Int /\ d * q < p
            BY <1>1, <1>7
        <3> HIDE DEF d
        <3>3. d * q < k * q
            BY <1>1, <3>1, <3>2
        <3>4. d < k
            BY <1>1, <3>2, <3>3, Products
        <3> QED
            BY <1>7, <3>4 DEF d
    <2>3. ASSUME Lt(Whole(k), a) PROVE k <= f
        <3>1. k * q < p
            BY <1>5, <2>3
        <3> DEFINE d == f + 1
        <3>2. d \in Int /\ k * q \in Int /\ d * q \in Int /\ p < d * q
            BY <1>1, <1>2
        <3> HIDE DEF d
        <3>3. k * q < d * q
            BY <1>1, <3>1, <3>2
        <3>4. k < d
            BY <1>1, <3>2, <3>3, Products
        <3> QED
            BY <1>2, <3>4 DEF d
    <2> QED
        BY <1>2, <1>4, <1>7, <1>8, <2>1, <2>2, <2>3
<1>11. IsNumber(Floor(a)) /\ IsNumber(Ceil(a))
    BY <1>2, <1>4, <1>7, <1>8, WholeNumber
<1> QED
    BY <1>9, <1>10, <1>11

(* The bound b is one that v meets. *)
IsLimit(b, lower, v) ==
    IsNumber(b.val) /\ b.open \in BOOLEAN /\ Meets([val |-> b.val, lower |-> lower, open |-> b.open], v)

LEMMA IntegerBoundKeeps ==
    ASSUME NEW val, IsNumber(val), NEW lower \in BOOLEAN, NEW open \in BOOLEAN,
           NEW v, IsNumber(v), IsWhole(v), Meets([val |-> val, lower |-> lower, open |-> open], v)
    PROVE  IsLimit(AdjustIntegerBound(val, lower, open), lower, v)
<1>1. Less(val, v, lower) \/ (val = v /\ ~ open)
    BY DEF Meets
<1>2. v[1] \in Int /\ v = Whole(v[1])
    BY WholeIs
<1>3. CASE ~ IsWhole(val)
    <2>1. val # v
        BY <1>3
    <2> DEFINE r == Round(val, ~ lower)
    <2>2. AdjustIntegerBound(val, lower, open) = [val |-> r, open |-> FALSE]
        BY <1>3 DEF AdjustIntegerBound
    <2>3. r = IF lower THEN Ceil(val) ELSE Floor(val)
        BY DEF Round
    <2>4. IsNumber(r) /\ (Less(r, v, lower) \/ r = v)
        BY <1>1, <1>2, <1>3, <2>1, <2>3, FloorCeil DEF Less
    <2> HIDE DEF r
    <2> QED
        BY <2>2, <2>4 DEF IsLimit, Meets
<1>4. CASE IsWhole(val) /\ ~ open
    <2>1. AdjustIntegerBound(val, lower, open) = [val |-> val, open |-> FALSE]
        BY <1>4 DEF AdjustIntegerBound
    <2> QED
        BY <1>1, <2>1 DEF IsLimit, Meets
<1>5. CASE IsWhole(val) /\ open
    <2> DEFINE one == IF lower THEN 1 ELSE -1
               r == Plus(val, Whole(one))
    <2>1. AdjustIntegerBound(val, lower, open) = [val |-> r, open |-> FALSE]
        BY <1>5 DEF AdjustIntegerBound
    <2>2. PICK i \in Int, k \in Int : val = Whole(i) /\ v = Whole(k)
        BY <1>2, <1>5, WholeIs
    <2>3. At(val, 1, i) /\ At(v, 1, k) /\ At(Whole(one), 1, one) /\ IsNumber(Whole(one)) /\ one \in Int
        <3>1. one \in Int
            OBVIOUS
        <3>2. At(Whole(i), 1, i * 1) /\ At(Whole(k), 1, k * 1) /\ At(Whole(one), 1, one * 1)
            BY <3>1, WholeNumber
        <3> QED
            BY <2>2, <3>1, <3>2, WholeNumber
    <2>4. IsNumber(r) /\ At(r, 1, i + one)
        BY <2>3, PlusAt
    <2>5. /\ Lt(val, v) <=> i < k
          /\ Lt(v, val) <=> k < i
          /\ Lt(r, v) <=> i + one < k
          /\ Lt(v, r) <=> k < i + one
          /\ r = v <=> i + one = k
        <3> DEFINE j == i + one
        <3>1. j \in Int /\ At(r, 1, j)
            BY <2>3, <2>4
        <3> HIDE DEF j, r, one
        <3>2. (Lt(val, v) <=> i < k) /\ (Lt(v, val) <=> k < i)
            BY <2>3, AtCompare
        <3>3. (Lt(r, v) <=> j < k) /\ (Lt(v, r) <=> k < j) /\ (r = v <=> j = k)
            BY <2>3, <2>4, <3>1, AtCompare
        <3> QED
            BY <3>2, <3>3 DEF j
    <2>6. Less(val, v, lower)
        BY <1>1, <1>5
    <2>7. Less(r, v, lower) \/ r = v
        <3>1. CASE lower
            BY <2>3, <2>5, <2>6, <3>1 DEF Less
        <3>2. CASE ~ lower
            BY <2>3, <2>5, <2>6, <3>2 DEF Less
        <3> QED
            BY <3>1, <3>2
    <2> HIDE DEF r
    <2> QED
        BY <2>1, <2>4, <2>7 DEF IsLimit, Meets
<1> QED
    BY <1>3, <1>4, <1>5

LEMMA RelaxedBoundKeeps ==
    ASSUME NEW val, IsNumber(val), NEW lower \in BOOLEAN, NEW open \in BOOLEAN,
           NEW v, IsNumber(v), Meets([val |-> val, lower |-> lower, open |-> open], v)
    PROVE  LET b == AdjustRelaxedBound(val, lower, open) IN b = [val |-> b.val, open |-> b.open] /\ IsLimit(b, lower, v)
<1>1. Less(val, v, lower) \/ (val = v /\ ~ open)
    BY DEF Meets
<1>2. CASE IsWhole(val)
    BY <1>1, <1>2 DEF AdjustRelaxedBound, IsLimit, Meets
<1>3. CASE ~ IsWhole(val)
    <2> DEFINE r == Round(val, lower)
    <2>1. AdjustRelaxedBound(val, lower, open) = [val |-> r, open |-> TRUE]
        BY <1>3 DEF AdjustRelaxedBound
    <2>2. IsNumber(r) /\ Less(r, val, lower)
        BY <1>3, FloorCeil DEF Round, Less
    <2> HIDE DEF r
    <2>3. Less(r, v, lower)
        BY <1>1, <2>2, LessOrder
    <2> QED
        BY <2>1, <2>2, <2>3 DEF IsLimit, Meets
<1> QED
    BY <1>2, <1>3

LEMMA TimesMeets ==
    ASSUME NEW k, IsNumber(k), Lt(Zero, k), NEW val, IsNumber(val), NEW v, IsNumber(v),
           NEW lower \in BOOLEAN, NEW open \in BOOLEAN, Meets([val |-> val, lower |-> lower, open |-> open], v)
    PROVE  Meets([val |-> Times(k, val), lower |-> lower, open |-> open], Times(k, v))
BY TimesLess DEF Meets

LEMMA TimesBack ==
    ASSUME NEW A \in Nat \ {0}, NEW v, IsNumber(v)
    PROVE  /\ IsNumber(Whole(A)) /\ Lt(Zero, Whole(A)) /\ IsNumber(Ratio(1, A)) /\ Lt(Zero, Ratio(1, A))
           /\ Times(Ratio(1, A), Times(Whole(A), v)) = v
<1> DEFINE w == Whole(A)
           r == Ratio(1, A)
<1>1. IsNumber(w) /\ At(w, 1, A)
    <2>1. At(w, 1, A * 1)
        BY WholeNumber
    <2> QED
        BY <2>1, WholeNumber
<1>2. IsNumber(r) /\ At(r, A, 1)
    BY RatioAt
<1>3. PICK K \in Nat \ {0}, i \in Int : At(v, K, i)
    BY Denominator
<1> HIDE DEF w, r
<1>4. IsNumber(Times(w, v)) /\ At(Times(w, v), 1 * K, A * i)
    BY <1>1, <1>3, TimesAt
<1> DEFINE k == A * i
           L == A * K
<1>5. k \in Int /\ At(Times(w, v), K, k)
    BY <1>3, <1>4
<1>6. L \in Nat \ {0} /\ At(v, L, k)
    <2> DEFINE p == v[1]
               q == v[2]
    <2>1. p \in Int /\ q \in Nat \ {0} /\ p * K = i * q
        BY <1>3, Parts DEF At
    <2> HIDE DEF p, q
    <2>2. p * (A * K) = (A * i) * q
        <3>1. p * (A * K) = A * (p * K)
            BY <2>1
        <3>2. (A * i) * q = A * (i * q)
            BY <2>1
        <3> QED
            BY <2>1, <3>1, <3>2
    <2>3. At(v, L, k)
        BY <2>2 DEF At, p, q
    <2> QED
        BY <2>3
<1> HIDE DEF k
<1>7. IsNumber(Times(r, Times(w, v))) /\ At(Times(r, Times(w, v)), A * K, 1 * k)
    BY <1>2, <1>4, <1>5, TimesAt
<1> HIDE DEF L
<1>8. At(Times(r, Times(w, v)), L, k)
    BY <1>5, <1>7 DEF L
<1>9. Times(r, Times(w, v)) = v
    BY <1>5, <1>6, <1>7, <1>8, AtCompare
<1>10. Lt(Zero, w) /\ Lt(Zero, r)
    <2>1. At(Zero, 1, 0) /\ At(Zero, A, 0)
        BY ZeroAt
    <2> QED
        BY <1>1, <1>2, <2>1, ZeroOne, AtCompare
<1> QED
    BY <1>1, <1>2, <1>9, <1>10 DEF w, r

(* Rounding a bound excludes no number the bound lets through.             *)
THEOREM NormalizeKeeps ==
    ASSUME NEW p, NEW m, IsPoint(p, m), NEW x \in p.vars, NEW val, IsNumber(val),
           NEW lower \in BOOLEAN, NEW open \in BOOLEAN,
           Meets([val |-> val, lower |-> lower, open |-> open], m[x])
    PROVE  IsLimit(Normalize(p, x, val, lower, open), lower, m[x])
<1>1. IsNumber(m[x]) /\ (x \in p.int => IsWhole(m[x]))
    BY DEF IsPoint
<1>2. CASE x \in p.int
    BY <1>1, <1>2, IntegerBoundKeeps DEF Normalize
<1>3. CASE x \notin p.int /\ ~ TooFine(p, x, val)
    BY <1>3 DEF Normalize, IsLimit
<1>4. CASE x \notin p.int /\ TooFine(p, x, val)
    <2> DEFINE A == AdjustDenominator
               w == Times(Whole(A), val)
               u == Times(Whole(A), m[x])
               b == AdjustRelaxedBound(w, lower, open)
    <2>1. A \in Nat \ {0}
        BY BoxConstants
    <2>2. Normalize(p, x, val, lower, open) = [b EXCEPT !.val = Times(Ratio(1, A), @)]
        BY <1>4 DEF Normalize
    <2> HIDE DEF A
    <2>3. IsNumber(w) /\ IsNumber(u) /\ Meets([val |-> w, lower |-> lower, open |-> open], u)
        BY <1>1, <2>1, TimesBack, TimesMeets, TimesLess
    <2>4. b = [val |-> b.val, open |-> b.open] /\ IsLimit(b, lower, u)
        BY <2>3, RelaxedBoundKeeps
    <2> HIDE DEF b
    <2> DEFINE c == Times(Ratio(1, A), b.val)
    <2>5. Normalize(p, x, val, lower, open) = [val |-> c, open |-> b.open]
        BY <2>2, <2>4
    <2>6. Meets([val |-> c, lower |-> lower, open |-> b.open], Times(Ratio(1, A), u))
        BY <2>1, <2>3, <2>4, <1>1, TimesBack, TimesMeets DEF IsLimit
    <2>7. Times(Ratio(1, A), u) = m[x] /\ IsNumber(c)
        BY <1>1, <2>1, <2>4, TimesBack, TimesLess DEF IsLimit
    <2> HIDE DEF c
    <2> QED
        BY <2>4, <2>5, <2>6, <2>7 DEF IsLimit
<1> QED
    BY <1>2, <1>3, <1>4

-----------------------------------------------------------------------------
(* The types of the operators above, and what pushing a bound does to a    *)
(* node.                                                                   *)
LEMMA EndPlusType ==
    ASSUME NEW lower \in BOOLEAN, NEW e, NEW f, IsEnd(e, lower), IsEnd(f, lower)
    PROVE  IsEnd(EndPlus(e, f), lower)
<1>1. IsNumber(Plus(e.val, f.val))
    BY PlusLess DEF IsEnd
<1> QED
    BY <1>1 DEF EndPlus, IsEnd, Finite

LEMMA EndTimesType ==
    ASSUME NEW lower \in BOOLEAN, NEW e, IsEnd(e, lower), NEW k, IsNumber(k), k # Zero
    PROVE  IsEnd(EndTimes(Finite(k, FALSE), e), IF Lt(k, Zero) THEN ~ lower ELSE lower)
<1>1. CASE e.inf # 0
    <2>1. Admits(e, lower, Zero)
        BY <1>1 DEF Admits
    <2> QED
        BY <2>1, ZeroOne, EndTimesAdmits
<1>2. CASE e.inf = 0
    <2> DEFINE f == [e EXCEPT !.open = FALSE]
               c == Finite(e.val, FALSE)
               g == EndTimes(Finite(k, FALSE), c)
               h == EndTimes(Finite(k, FALSE), e)
               side == IF Lt(k, Zero) THEN ~ lower ELSE lower
    <2>1. IsEnd(c, lower) /\ c.inf = 0 /\ c.val = e.val /\ c.open = FALSE
        BY <1>2 DEF IsEnd, Finite
    <2>2. Admits(c, lower, e.val)
        BY <2>1 DEF Admits, Meets
    <2>3. IsEnd(g, side)
        BY <2>1, <2>2, EndTimesAdmits DEF IsEnd
    <2>4. h.inf = 0 /\ h.val = g.val /\ h.open \in BOOLEAN /\ g.inf = 0
        <3>1. IsNull(e) <=> IsNull(c)
            BY <1>2, <2>1 DEF IsNull
        <3>2. Finite(k, FALSE).inf = 0 /\ Finite(k, FALSE).val = k /\ Finite(k, FALSE).open = FALSE
            BY DEF Finite
        <3> HIDE DEF c
        <3>3. CASE IsNull(c)
            BY <2>1, <3>1, <3>2, <3>3 DEF EndTimes, Finite
        <3>4. CASE ~ IsNull(c)
            <4>1. ~ IsNull(Finite(k, FALSE))
                BY <3>2 DEF IsNull
            <4>2. e.open \in BOOLEAN
                BY DEF IsEnd
            <4> QED
                BY <1>2, <2>1, <3>1, <3>2, <3>4, <4>1, <4>2 DEF EndTimes, Finite
        <3> QED
            BY <3>3, <3>4
    <2> HIDE DEF c, g, h, side
    <2>5. IsEnd(h, side)
        BY <2>3, <2>4 DEF IsEnd
    <2> QED
        BY <2>5 DEF h, side
<1> QED
    BY <1>1, <1>2

LEMMA AddType ==
    ASSUME NEW i, NEW j, IsInterval(i), IsInterval(j)
    PROVE  IsInterval(IAdd(i, j))
BY EndPlusType DEF IsInterval, IAdd

LEMMA ScaleType ==
    ASSUME NEW i, IsInterval(i), NEW k, IsNumber(k), k # Zero
    PROVE  IsInterval(IScale(k, i))
<1> DEFINE e == EndTimes(Finite(k, FALSE), i.lo)
           f == EndTimes(Finite(k, FALSE), i.up)
<1>1. IsEnd(e, IF Lt(k, Zero) THEN ~ TRUE ELSE TRUE)
    BY EndTimesType DEF IsInterval
<1>2. IsEnd(f, IF Lt(k, Zero) THEN ~ FALSE ELSE FALSE)
    BY EndTimesType DEF IsInterval
<1>3. IScale(k, i) = IF Lt(k, Zero) THEN [lo |-> f, up |-> e] ELSE [lo |-> e, up |-> f]
    BY DEF IScale
<1> HIDE DEF e, f
<1>4. CASE Lt(k, Zero)
    <2>1. IsEnd(e, FALSE) /\ IsEnd(f, TRUE)
        BY <1>1, <1>2, <1>4
    <2>2. IScale(k, i).lo = f /\ IScale(k, i).up = e
        BY <1>3, <1>4
    <2> QED
        BY <2>1, <2>2 DEF IsInterval
<1>5. CASE ~ Lt(k, Zero)
    <2>1. IsEnd(e, TRUE) /\ IsEnd(f, FALSE)
        BY <1>1, <1>2, <1>5
    <2>2. IScale(k, i).lo = e /\ IScale(k, i).up = f
        BY <1>3, <1>5
    <2> QED
        BY <2>1, <2>2 DEF IsInterval
<1> QED
    BY <1>4, <1>5

LEMMA RoundType ==
    ASSUME NEW val, IsNumber(val), ~ IsWhole(val), NEW down \in BOOLEAN
    PROVE  IsNumber(Round(val, down))
BY FloorCeil DEF Round

LEMMA NormalizeType ==
    ASSUME NEW p, NEW x \in p.vars, NEW val, IsNumber(val), NEW lower \in BOOLEAN, NEW open \in BOOLEAN
    PROVE  IsNumber(Normalize(p, x, val, lower, open).val) /\ Normalize(p, x, val, lower, open).open \in BOOLEAN
<1>1. CASE x \in p.int
    <2>1. Normalize(p, x, val, lower, open) = AdjustIntegerBound(val, lower, open)
        BY <1>1 DEF Normalize
    <2>2. CASE ~ IsWhole(val)
        <3> DEFINE r == Round(val, ~ lower)
        <3>1. IsNumber(r)
            BY <2>2, RoundType
        <3>2. AdjustIntegerBound(val, lower, open) = [val |-> r, open |-> FALSE]
            BY <2>2 DEF AdjustIntegerBound
        <3> HIDE DEF r
        <3> QED
            BY <2>1, <3>1, <3>2
    <2>3. CASE IsWhole(val)
        <3>1. IsNumber(Whole(1)) /\ IsNumber(Whole(-1))
            BY WholeNumber
        <3>2. IsNumber(Plus(val, Whole(IF lower THEN 1 ELSE -1)))
            BY <3>1, PlusLess
        <3> QED
            BY <2>1, <2>3, <3>2 DEF AdjustIntegerBound
    <2> QED
        BY <2>2, <2>3
<1>2. CASE x \notin p.int /\ ~ TooFine(p, x, val)
    BY <1>2 DEF Normalize
<1>3. CASE x \notin p.int /\ TooFine(p, x, val)
    <2> DEFINE A == AdjustDenominator
               w == Times(Whole(A), val)
               b == AdjustRelaxedBound(w, lower, open)
    <2>1. A \in Nat \ {0}
        BY BoxConstants
    <2>2. Normalize(p, x, val, lower, open) = [b EXCEPT !.val = Times(Ratio(1, A), @)]
        BY <1>3 DEF Normalize
    <2> HIDE DEF A
    <2>3. IsNumber(w) /\ IsNumber(Ratio(1, A))
        BY <2>1, TimesBack, TimesLess
    <2>4. b = [val |-> b.val, open |-> b.open] /\ IsNumber(b.val) /\ b.open \in BOOLEAN
        BY <2>3, RoundType DEF AdjustRelaxedBound
    <2>5. IsNumber(Times(Ratio(1, A), b.val))
        BY <2>3, <2>4, TimesLess
    <2> HIDE DEF b
    <2> QED
        BY <2>2, <2>4, <2>5
<1> QED
    BY <1>1, <1>2, <1>3

-----------------------------------------------------------------------------
(* A state of propagation; the point m is still in it.                     *)
IsState(s) ==
    /\ s = [n |-> s.n, q |-> s.q, t |-> s.t, v |-> s.v, r |-> s.r]
    /\ s.n \in Nodes(problem) /\ s.t \in Nat
Kept(p, n, m) == InBox(p, m, n) /\ ~ n.conflict /\ \A a \in ToSet(n.up) : Holds(m, a)

IsBound(b) == IsNumber(b.val) /\ b.open \in BOOLEAN

LEMMA BoundNotNull == \A b \in Bounds : b # Null /\ IsBound(b) /\ b \in [val : Int \X Int, open : BOOLEAN, ts : Nat]
BY BoxConstants DEF Bounds, Numbers, IsBound

LEMMA PushedType ==
    ASSUME NEW p, NEW n \in Nodes(p), NEW x \in p.vars, NEW b \in Bounds, NEW lower \in BOOLEAN
    PROVE  Pushed(n, x, b, lower) \in Nodes(p)
<1> DEFINE k == IF lower THEN [n EXCEPT !.low[x] = b] ELSE [n EXCEPT !.upp[x] = b]
<1>1. k \in Nodes(p)
    BY DEF Nodes
<1>2. Pushed(n, x, b, lower) = [k EXCEPT !.conflict = k.low[x] # Null /\ Past(k.upp[x], k.low[x].val, FALSE, k.low[x].open)]
    BY DEF Pushed
<1> HIDE DEF k
<1>3. (k.low[x] # Null /\ Past(k.upp[x], k.low[x].val, FALSE, k.low[x].open)) \in BOOLEAN
    BY DEF Past
<1> QED
    BY <1>1, <1>2, <1>3 DEF Nodes

LEMMA PushedKeeps ==
    ASSUME NEW m, IsPoint(problem, m), NEW n \in Nodes(problem), NEW x \in problem.vars \ problem.bool,
           NEW b \in Bounds, NEW lower \in BOOLEAN, InBox(problem, m, n), \A a \in ToSet(n.up) : Holds(m, a),
           LetsIn(b, lower, m[x])
    PROVE  Kept(problem, Pushed(n, x, b, lower), m)
<1> DEFINE k == IF lower THEN [n EXCEPT !.low[x] = b] ELSE [n EXCEPT !.upp[x] = b]
           r == Pushed(n, x, b, lower)
<1>1. k \in Nodes(problem)
    BY DEF Nodes
<1>2. r = [k EXCEPT !.conflict = k.low[x] # Null /\ Past(k.upp[x], k.low[x].val, FALSE, k.low[x].open)]
    BY DEF Pushed
<1>3. \A y \in problem.vars, l \in BOOLEAN : Own(k, y, l) = IF y = x /\ l = lower THEN b ELSE Own(n, y, l)
    <2>1. CASE lower = TRUE
        BY <2>1 DEF Own, Nodes
    <2>2. CASE lower = FALSE
        BY <2>2 DEF Own, Nodes
    <2> QED
        BY <2>1, <2>2
<1>4. k.bval = n.bval /\ k.up = n.up
    BY DEF Nodes
<1> HIDE DEF k
<1>5. \A y \in problem.vars, l \in BOOLEAN : Own(r, y, l) = Own(k, y, l)
    BY <1>1, <1>2 DEF Own, Nodes
<1>6. r.bval = n.bval /\ r.up = n.up
    BY <1>1, <1>2, <1>4 DEF Nodes
<1>7. InBox(problem, m, k)
    <2>1. ASSUME NEW y \in problem.vars \ problem.bool, NEW l \in BOOLEAN, Own(k, y, l) # Null
          PROVE  LetsIn(Own(k, y, l), l, m[y])
        <3>1. CASE y = x /\ l = lower
            BY <1>3, <3>1
        <3>2. CASE ~ (y = x /\ l = lower)
            BY <1>3, <2>1, <3>2, BoxBound
        <3> QED
            BY <3>1, <3>2
    <2>2. \A y \in problem.bool : y \in problem.vars => k.bval[y] \in {"undef", IF m[y] = One THEN "true" ELSE "false"}
        BY <1>4 DEF InBox
    <2> QED
        BY <2>1, <2>2 DEF InBox, LetsIn
<1>8. InBox(problem, m, r)
    BY <1>4, <1>5, <1>6, <1>7 DEF InBox
<1>9. ~ r.conflict
    <2> DEFINE lo == k.low[x]
               hi == k.upp[x]
    <2>1. ASSUME lo # Null, Past(hi, lo.val, FALSE, lo.open) PROVE FALSE
        <3>1. lo \in Bounds /\ LetsIn(lo, TRUE, m[x])
            BY <1>1, <1>7, <2>1, OwnBound, BoxBound DEF Own
        <3>2. hi # Null => hi \in Bounds /\ LetsIn(hi, FALSE, m[x])
            BY <1>1, <1>7, OwnBound, BoxBound DEF Own
        <3>3. IsNumber(m[x]) /\ IsNumber(lo.val) /\ lo.open \in BOOLEAN
            BY <3>1 DEF IsPoint, Bounds, Numbers
        <3> HIDE DEF lo, hi
        <3>4. Less(lo.val, m[x], FALSE) \/ (lo.open /\ m[x] = lo.val)
            BY <2>1, <3>2, <3>3, PastMeans
        <3>5. Less(lo.val, m[x], TRUE) \/ (lo.val = m[x] /\ ~ lo.open)
            BY <3>1 DEF LetsIn, Meets
        <3> QED
            BY <3>3, <3>4, <3>5, LtOrder DEF Less
    <2>2. r.conflict = (lo # Null /\ Past(hi, lo.val, FALSE, lo.open))
        BY <1>1, <1>2 DEF Nodes
    <2> QED
        BY <2>1, <2>2
<1> QED
    BY <1>6, <1>8, <1>9 DEF Kept

-----------------------------------------------------------------------------
(* The order of bounds, and what pushing one does to a node.               *)
LEMMA AtLeastOrder ==
    ASSUME NEW lower \in BOOLEAN, NEW b, NEW c, NEW d, b = Null \/ IsBound(b), c = Null \/ IsBound(c), d = Null \/ IsBound(d)
    PROVE  /\ AtLeast(b, b, lower)
           /\ AtLeast(b, c, lower) /\ AtLeast(c, d, lower) => AtLeast(b, d, lower)
<1>1. AtLeast(b, b, lower)
    BY DEF AtLeast
<1>2. ASSUME AtLeast(b, c, lower), AtLeast(c, d, lower) PROVE AtLeast(b, d, lower)
    <2>1. CASE d = Null
        BY <2>1 DEF AtLeast
    <2>2. CASE d # Null
        <3>1. c # Null /\ b # Null /\ IsBound(b) /\ IsBound(c) /\ IsBound(d)
            BY <1>2, <2>2 DEF AtLeast
        <3>2. Less(c.val, b.val, lower) \/ (c.val = b.val /\ (c.open => b.open))
            BY <1>2, <3>1 DEF AtLeast
        <3>3. Less(d.val, c.val, lower) \/ (d.val = c.val /\ (d.open => c.open))
            BY <1>2, <2>2 DEF AtLeast
        <3>4. Less(d.val, b.val, lower) \/ (d.val = b.val /\ (d.open => b.open))
            BY <3>1, <3>2, <3>3, LessOrder DEF IsBound
        <3> QED
            BY <3>1, <3>4 DEF AtLeast
    <2> QED
        BY <2>1, <2>2
<1> QED
    BY <1>1, <1>2

(* A bound at least as good lets through no more and is past no less.      *)
LEMMA AtLeastMeets ==
    ASSUME NEW lower \in BOOLEAN, NEW b, NEW c, IsBound(b), IsBound(c), AtLeast(b, c, lower), c # Null,
           NEW v, IsNumber(v), LetsIn(b, lower, v)
    PROVE  LetsIn(c, lower, v)
<1>1. Less(b.val, v, lower) \/ (b.val = v /\ ~ b.open)
    BY DEF LetsIn, Meets
<1>2. Less(c.val, b.val, lower) \/ (c.val = b.val /\ (c.open => b.open))
    BY DEF AtLeast
<1>3. Less(c.val, v, lower) \/ (c.val = v /\ ~ c.open)
    BY <1>1, <1>2, LessOrder DEF IsBound
<1> QED
    BY <1>3 DEF LetsIn, Meets

LEMMA AtLeastPast ==
    ASSUME NEW lower \in BOOLEAN, NEW ties \in BOOLEAN, NEW b, NEW c, b = Null \/ IsBound(b), c = Null \/ IsBound(c),
           AtLeast(b, c, lower), NEW v, IsNumber(v), Past(c, v, lower, ties)
    PROVE  Past(b, v, lower, ties)
<1>1. c # Null /\ b # Null /\ IsBound(b) /\ IsBound(c)
    BY DEF Past, AtLeast
<1>2. Less(v, c.val, lower) \/ (c.val = v /\ (c.open \/ ties))
    BY DEF Past
<1>3. Less(c.val, b.val, lower) \/ (c.val = b.val /\ (c.open => b.open))
    BY <1>1 DEF AtLeast
<1>4. Less(v, b.val, lower) \/ (b.val = v /\ (b.open \/ ties))
    BY <1>1, <1>2, <1>3, LessOrder DEF IsBound
<1> QED
    BY <1>1, <1>4 DEF Past

(* The bounds b and c of the directions lower and ~ lower exclude each     *)
(* other.                                                                  *)
Apart(b, c, lower) == b # Null /\ Past(c, b.val, ~ lower, b.open)

LEMMA ApartBoth ==
    ASSUME NEW lower \in BOOLEAN, NEW b, NEW c, b = Null \/ IsBound(b), c = Null \/ IsBound(c)
    PROVE  Apart(b, c, lower) <=> Apart(c, b, ~ lower)
<1>1. \/ b = Null \/ c = Null
      \/ /\ b # Null /\ c # Null /\ IsBound(b) /\ IsBound(c)
         /\ Less(b.val, c.val, ~ lower) <=> Less(c.val, b.val, lower)
    BY LessOrder DEF IsBound
<1>2. (~ ~ lower) = lower
    OBVIOUS
<1> QED
    BY <1>1, <1>2 DEF Apart, Past

(* Bounds at least as good as bounds that exclude each other do so too.    *)
LEMMA ApartStays ==
    ASSUME NEW lower \in BOOLEAN, NEW b, NEW c, b = Null \/ IsBound(b), c = Null \/ IsBound(c),
           NEW d, NEW e, d = Null \/ IsBound(d), e = Null \/ IsBound(e),
           AtLeast(d, b, lower), AtLeast(e, c, ~ lower), Apart(b, c, lower)
    PROVE  Apart(d, e, lower)
<1>1. b # Null /\ c # Null /\ d # Null /\ e # Null /\ IsBound(b) /\ IsBound(c) /\ IsBound(d) /\ IsBound(e)
    BY DEF Apart, Past, AtLeast
<1>2. Less(b.val, c.val, ~ lower) \/ (c.val = b.val /\ (c.open \/ b.open))
    BY DEF Apart, Past
<1>3. Less(b.val, d.val, lower) \/ (b.val = d.val /\ (b.open => d.open))
    BY <1>1 DEF AtLeast
<1>4. Less(c.val, e.val, ~ lower) \/ (c.val = e.val /\ (c.open => e.open))
    BY <1>1 DEF AtLeast
<1>5. /\ Less(b.val, c.val, ~ lower) <=> Less(c.val, b.val, lower)
      /\ Less(c.val, e.val, ~ lower) <=> Less(e.val, c.val, lower)
      /\ Less(d.val, e.val, ~ lower) <=> Less(e.val, d.val, lower)
    BY <1>1, LessOrder DEF IsBound
<1>6. \A u, v, w : IsNumber(u) /\ IsNumber(v) /\ IsNumber(w) => (Less(u, v, lower) /\ Less(v, w, lower) => Less(u, w, lower))
    BY LessOrder
<1>7. Less(d.val, e.val, ~ lower) \/ (e.val = d.val /\ (e.open \/ d.open))
    BY <1>1, <1>2, <1>3, <1>4, <1>5, <1>6 DEF IsBound
<1> QED
    BY <1>1, <1>7 DEF Apart, Past

(* A bound that is past v, one that is not past v with ties the other way: *)
(* they exclude each other.                                                *)
LEMMA PastApart ==
    ASSUME NEW lower \in BOOLEAN, NEW open \in BOOLEAN, NEW b, NEW c, b = Null \/ IsBound(b), c = Null \/ IsBound(c),
           NEW v, IsNumber(v), Past(b, v, lower, ~ open), Past(c, v, ~ lower, open)
    PROVE  Apart(b, c, lower)
<1>1. b # Null /\ c # Null /\ IsBound(b) /\ IsBound(c)
    BY DEF Past
<1>2. Less(v, b.val, lower) \/ (b.val = v /\ (b.open \/ ~ open))
    BY DEF Past
<1>3. Less(v, c.val, ~ lower) \/ (c.val = v /\ (c.open \/ open))
    BY DEF Past
<1>4. /\ Less(v, c.val, ~ lower) <=> Less(c.val, v, lower)
      /\ Less(b.val, c.val, ~ lower) <=> Less(c.val, b.val, lower)
    BY <1>1, LessOrder DEF IsBound
<1>5. Less(c.val, v, lower) /\ Less(v, b.val, lower) => Less(c.val, b.val, lower)
    BY <1>1, LessOrder DEF IsBound
<1>6. Less(b.val, c.val, ~ lower) \/ (c.val = b.val /\ (c.open \/ b.open))
    BY <1>1, <1>2, <1>3, <1>4, <1>5 DEF IsBound
<1> QED
    BY <1>1, <1>6 DEF Apart, Past

-----------------------------------------------------------------------------
(* A node that knows at least as much; a node without hidden conflict.     *)
Narrowed(n, k) ==
    /\ \A x \in problem.vars, lower \in BOOLEAN : AtLeast(Own(k, x, lower), Own(n, x, lower), lower)
    /\ \A x \in problem.bool : k.bval[x] \in {n.bval[x], "conflict"} \/ n.bval[x] = "undef"
    /\ ToSet(n.up) \subseteq ToSet(k.up)

Consistent(n) ==
    ~ n.conflict => /\ \A x \in problem.bool : n.bval[x] # "conflict"
                    /\ \A x \in problem.vars : ~ Apart(n.low[x], n.upp[x], TRUE)

LEMMA OwnIs ==
    ASSUME NEW n \in Nodes(problem), NEW x \in problem.vars, NEW lower \in BOOLEAN
    PROVE  /\ Own(n, x, lower) \in Bounds \cup {Null}
           /\ Own(n, x, lower) = Null \/ (Own(n, x, lower) # Null /\ IsBound(Own(n, x, lower)))
           /\ n.low[x] = Own(n, x, TRUE) /\ n.upp[x] = Own(n, x, FALSE)
BY BoundNotNull DEF Nodes, Own

LEMMA ConsistentApart ==
    ASSUME NEW n \in Nodes(problem), Consistent(n), ~ n.conflict, NEW x \in problem.vars, NEW lower \in BOOLEAN
    PROVE  ~ Apart(Own(n, x, lower), Own(n, x, ~ lower), lower)
<1>1. ~ Apart(Own(n, x, TRUE), Own(n, x, FALSE), TRUE)
    BY OwnIs DEF Consistent
<1>2. CASE lower = TRUE
    BY <1>1, <1>2
<1>3. CASE lower = FALSE
    <2>1. ~ Apart(Own(n, x, FALSE), Own(n, x, TRUE), FALSE)
        <3>1. (~ TRUE) = FALSE
            OBVIOUS
        <3> QED
            BY <1>1, <3>1, OwnIs, ApartBoth
    <2> QED
        BY <1>3, <2>1
<1> QED
    BY <1>2, <1>3

LEMMA NarrowedSame ==
    ASSUME NEW n \in Nodes(problem)
    PROVE  Narrowed(n, n)
<1>1. \A x \in problem.vars, lower \in BOOLEAN : AtLeast(Own(n, x, lower), Own(n, x, lower), lower)
    BY OwnIs, AtLeastOrder
<1> QED
    BY <1>1 DEF Narrowed

LEMMA NarrowedTransitive ==
    ASSUME NEW n \in Nodes(problem), NEW k \in Nodes(problem), NEW o \in Nodes(problem), Narrowed(n, k), Narrowed(k, o)
    PROVE  Narrowed(n, o)
<1>1. ASSUME NEW x \in problem.vars, NEW lower \in BOOLEAN
      PROVE  AtLeast(Own(o, x, lower), Own(n, x, lower), lower)
    <2>1. AtLeast(Own(k, x, lower), Own(n, x, lower), lower) /\ AtLeast(Own(o, x, lower), Own(k, x, lower), lower)
        BY DEF Narrowed
    <2> QED
        BY <2>1, OwnIs, AtLeastOrder
<1>2. \A x \in problem.bool : o.bval[x] \in {n.bval[x], "conflict"} \/ n.bval[x] = "undef"
    BY DEF Narrowed
<1>3. ToSet(n.up) \subseteq ToSet(o.up)
    BY DEF Narrowed
<1> QED
    BY <1>1, <1>2, <1>3 DEF Narrowed

(* The point m is within the bounds the node has for the variables V.      *)
Boxed(n, m, V) ==
    \A x \in V :
        IF x \in problem.bool THEN n.bval[x] \in {"undef", IF m[x] = One THEN "true" ELSE "false"}
        ELSE \A lower \in BOOLEAN : Own(n, x, lower) # Null => LetsIn(Own(n, x, lower), lower, m[x])

LEMMA BoxedIs == \A n, m : InBox(problem, m, n) <=> Boxed(n, m, problem.vars)
BY DEF InBox, Boxed, LetsIn

(* What is in the box of the narrower node is in the box of the other.     *)
LEMMA NarrowedBox ==
    ASSUME NEW m, IsPoint(problem, m), NEW n \in Nodes(problem), NEW k \in Nodes(problem), Narrowed(n, k),
           NEW V \in SUBSET problem.vars, Boxed(k, m, V)
    PROVE  Boxed(n, m, V)
<1>1. ASSUME NEW x \in V, x \in problem.bool
      PROVE  n.bval[x] \in {"undef", IF m[x] = One THEN "true" ELSE "false"}
    BY <1>1 DEF Narrowed, Boxed
<1>2. ASSUME NEW x \in V, x \notin problem.bool, NEW lower \in BOOLEAN, Own(n, x, lower) # Null
      PROVE  LetsIn(Own(n, x, lower), lower, m[x])
    <2>1. AtLeast(Own(k, x, lower), Own(n, x, lower), lower)
        BY DEF Narrowed
    <2>2. Own(k, x, lower) # Null
        BY <1>2, <2>1 DEF AtLeast
    <2>3. LetsIn(Own(k, x, lower), lower, m[x])
        BY <1>2, <2>2 DEF Boxed
    <2>4. IsNumber(m[x])
        BY DEF IsPoint
    <2> QED
        BY <1>2, <2>1, <2>2, <2>3, <2>4, OwnIs, AtLeastMeets
<1> QED
    BY <1>1, <1>2 DEF Boxed

-----------------------------------------------------------------------------
(* Pushing a bound: the node is in conflict when the new bound and the     *)
(* bound of the other direction exclude each other.                        *)
LEMMA PushedIs ==
    ASSUME NEW n \in Nodes(problem), NEW x \in problem.vars, NEW b \in Bounds, NEW lower \in BOOLEAN
    PROVE  LET k == Pushed(n, x, b, lower) IN
           /\ k \in Nodes(problem)
           /\ \A y \in problem.vars, l \in BOOLEAN : Own(k, y, l) = IF y = x /\ l = lower THEN b ELSE Own(n, y, l)
           /\ k.bval = n.bval /\ k.up = n.up
           /\ k.conflict = Apart(b, Own(n, x, ~ lower), lower)
<1> DEFINE i == IF lower THEN [n EXCEPT !.low[x] = b] ELSE [n EXCEPT !.upp[x] = b]
           k == Pushed(n, x, b, lower)
<1>1. i \in Nodes(problem)
    BY DEF Nodes
<1>2. k = [i EXCEPT !.conflict = i.low[x] # Null /\ Past(i.upp[x], i.low[x].val, FALSE, i.low[x].open)]
    BY DEF Pushed
<1>3. \A y \in problem.vars, l \in BOOLEAN : Own(i, y, l) = IF y = x /\ l = lower THEN b ELSE Own(n, y, l)
    <2>1. CASE lower = TRUE
        BY <2>1 DEF Own, Nodes
    <2>2. CASE lower = FALSE
        BY <2>2 DEF Own, Nodes
    <2> QED
        BY <2>1, <2>2
<1>4. i.bval = n.bval /\ i.up = n.up
    BY DEF Nodes
<1> HIDE DEF i
<1>5. (i.low[x] # Null /\ Past(i.upp[x], i.low[x].val, FALSE, i.low[x].open)) = Apart(Own(i, x, TRUE), Own(i, x, FALSE), TRUE)
    BY DEF Own, Apart
<1>6. k \in Nodes(problem)
    BY PushedType DEF k
<1>7. /\ \A y \in problem.vars, l \in BOOLEAN : Own(k, y, l) = Own(i, y, l)
      /\ k.bval = i.bval /\ k.up = i.up /\ k.conflict = Apart(Own(i, x, TRUE), Own(i, x, FALSE), TRUE)
    BY <1>1, <1>2, <1>5 DEF Own, Nodes
<1> HIDE DEF k
<1>8. k.conflict = Apart(b, Own(n, x, ~ lower), lower)
    <2>1. CASE lower = TRUE
        <3>1. Own(i, x, TRUE) = b /\ Own(i, x, FALSE) = Own(n, x, FALSE) /\ (~ lower) = FALSE
            BY <1>3, <2>1
        <3> QED
            BY <1>7, <2>1, <3>1
    <2>2. CASE lower = FALSE
        <3>1. Own(i, x, FALSE) = b /\ Own(i, x, TRUE) = Own(n, x, TRUE) /\ (~ lower) = TRUE /\ (~ TRUE) = FALSE
            BY <1>3, <2>2
        <3>2. Apart(Own(n, x, TRUE), b, TRUE) <=> Apart(b, Own(n, x, TRUE), FALSE)
            BY <3>1, OwnIs, BoundNotNull, ApartBoth
        <3>3. k.conflict = Apart(Own(n, x, TRUE), b, TRUE) /\ Apart(Own(n, x, TRUE), b, TRUE) \in BOOLEAN
              /\ Apart(b, Own(n, x, TRUE), FALSE) \in BOOLEAN
            BY <1>7, <3>1 DEF Apart, Past
        <3> QED
            BY <2>2, <3>1, <3>2, <3>3
    <2> QED
        BY <2>1, <2>2
<1> QED
    BY <1>3, <1>4, <1>6, <1>7, <1>8 DEF k

LEMMA PushedConsistent ==
    ASSUME NEW n \in Nodes(problem), Consistent(n), ~ n.conflict, NEW x \in problem.vars, NEW b \in Bounds, NEW lower \in BOOLEAN
    PROVE  Consistent(Pushed(n, x, b, lower))
<1> DEFINE k == Pushed(n, x, b, lower)
<1>1. /\ k \in Nodes(problem)
      /\ \A y \in problem.vars, l \in BOOLEAN : Own(k, y, l) = IF y = x /\ l = lower THEN b ELSE Own(n, y, l)
      /\ k.bval = n.bval /\ k.conflict = Apart(b, Own(n, x, ~ lower), lower)
    BY PushedIs
<1> HIDE DEF k
<1> SUFFICES ASSUME ~ k.conflict PROVE Consistent(k)
    BY DEF Consistent, k
<1>2. ASSUME NEW y \in problem.vars PROVE ~ Apart(k.low[y], k.upp[y], TRUE)
    <2>1. k.low[y] = Own(k, y, TRUE) /\ k.upp[y] = Own(k, y, FALSE) /\ n.low[y] = Own(n, y, TRUE) /\ n.upp[y] = Own(n, y, FALSE)
        BY DEF Own
    <2>2. CASE y # x
        BY <1>1, <2>1, <2>2 DEF Consistent
    <2>3. CASE y = x /\ lower = TRUE
        <3>1. (~ lower) = FALSE
            BY <2>3
        <3> QED
            BY <1>1, <2>1, <2>3, <3>1
    <2>4. CASE y = x /\ lower = FALSE
        <3>1. (~ lower) = TRUE /\ (~ TRUE) = FALSE
            BY <2>4
        <3>2. Apart(Own(n, x, TRUE), b, TRUE) <=> Apart(b, Own(n, x, TRUE), FALSE)
            BY <3>1, OwnIs, BoundNotNull, ApartBoth
        <3> QED
            BY <1>1, <2>1, <2>4, <3>1, <3>2
    <2> QED
        BY <2>2, <2>3, <2>4
<1> QED
    BY <1>1, <1>2 DEF Consistent

LEMMA PushedNarrows ==
    ASSUME IsProblem(problem), NEW n \in Nodes(problem), NEW x \in problem.vars, NEW b \in Bounds, NEW lower \in BOOLEAN,
           AtLeast(b, Own(n, x, lower), lower)
    PROVE  Narrowed(n, Pushed(n, x, b, lower))
<1> DEFINE k == Pushed(n, x, b, lower)
<1>1. /\ \A y \in problem.vars, l \in BOOLEAN : Own(k, y, l) = IF y = x /\ l = lower THEN b ELSE Own(n, y, l)
      /\ k.bval = n.bval /\ k.up = n.up
    BY PushedIs
<1> HIDE DEF k
<1>2. \A y \in problem.vars, l \in BOOLEAN : AtLeast(Own(k, y, l), Own(n, y, l), l)
    BY <1>1, OwnIs, AtLeastOrder
<1>3. Narrowed(n, k)
    BY <1>1, <1>2 DEF Narrowed
<1> QED
    BY <1>3 DEF k

(* improves: in a node without conflict, a bound that improves is better   *)
(* than the old one, and one that does not is no better.                   *)
LEMMA ImprovesAtLeast ==
    ASSUME NEW n \in Nodes(problem), Consistent(n), ~ n.conflict, NEW x \in problem.vars,
           NEW b, IsBound(b), b # Null, NEW lower \in BOOLEAN
    PROVE  IF Improves(n, x, b.val, lower, b.open) THEN AtLeast(b, Own(n, x, lower), lower)
           ELSE AtLeast(Own(n, x, lower), b, lower) /\ ~ Apart(b, Own(n, x, ~ lower), lower)
<1> DEFINE own == Own(n, x, lower)
           other == Own(n, x, ~ lower)
<1>1. ~ Apart(own, other, lower)
    BY ConsistentApart
<1>2. (own = Null \/ (own # Null /\ IsBound(own))) /\ (other = Null \/ (other # Null /\ IsBound(other)))
    BY OwnIs
<1>3. Improves(n, x, b.val, lower, b.open) <=>
          \/ Past(other, b.val, ~ lower, b.open) \/ own = Null
          \/ Less(own.val, b.val, lower) \/ (own.val = b.val /\ b.open /\ ~ own.open)
    BY DEF Improves
<1>4. Apart(b, other, lower) <=> Past(other, b.val, ~ lower, b.open)
    BY DEF Apart
<1> HIDE DEF own, other
<1>5. own # Null => \/ Less(own.val, b.val, lower) \/ own.val = b.val \/ Less(b.val, own.val, lower)
    BY <1>2, LessOrder DEF IsBound
<1>6. ASSUME Past(other, b.val, ~ lower, b.open), own # Null, Less(b.val, own.val, lower) \/ (b.val = own.val /\ (b.open => own.open))
      PROVE  FALSE
    <2>1. AtLeast(own, b, lower) /\ AtLeast(other, other, ~ lower)
        BY <1>2, <1>6, AtLeastOrder DEF AtLeast
    <2> QED
        BY <1>1, <1>2, <1>4, <1>6, <2>1, ApartStays
<1>7. b.open \in BOOLEAN /\ (own # Null => own.open \in BOOLEAN)
    BY <1>2 DEF IsBound
<1>8. CASE Improves(n, x, b.val, lower, b.open)
    <2>1. \/ own = Null \/ Less(own.val, b.val, lower) \/ (own.val = b.val /\ (own.open => b.open))
        BY <1>3, <1>5, <1>6, <1>7, <1>8
    <2>2. AtLeast(b, own, lower)
        BY <2>1 DEF AtLeast
    <2> QED
        BY <1>8, <2>2 DEF own
<1>9. CASE ~ Improves(n, x, b.val, lower, b.open)
    <2>1. own # Null /\ ~ Past(other, b.val, ~ lower, b.open) /\ (Less(b.val, own.val, lower) \/ (own.val = b.val /\ (b.open => own.open)))
        BY <1>3, <1>5, <1>7, <1>9
    <2>2. AtLeast(own, b, lower) /\ ~ Apart(b, other, lower)
        BY <1>4, <2>1 DEF AtLeast
    <2> QED
        BY <1>9, <2>2 DEF own, other
<1> QED
    BY <1>8, <1>9

-----------------------------------------------------------------------------
(* An atom that is decided at a node stays what it is at a node that knows *)
(* more, unless that one is in conflict.                                   *)
LEMMA AtomParts ==
    ASSUME NEW a, IsAtom(problem, a)
    PROVE  /\ a.kind \in {"bool", "eq", "ineq"} /\ a.lower \in BOOLEAN /\ a.open \in BOOLEAN /\ IsNumber(a.val)
           /\ a.x \in problem.vars /\ (a.x \in problem.bool <=> a.kind = "bool")
           /\ a.kind = "eq" => a.lower = FALSE /\ (a.x \in problem.int => IsWhole(a.val))
BY DEF IsAtom

LEMMA EqIs ==
    ASSUME NEW n \in Nodes(problem), Consistent(n), ~ n.conflict, NEW a, IsAtom(problem, a), a.kind = "eq"
    PROVE  /\ EqValue(problem, n, a) = "true" <=>
                  n.low[a.x] # Null /\ n.upp[a.x] # Null /\ n.low[a.x].val = a.val /\ n.upp[a.x].val = a.val
           /\ EqValue(problem, n, a) = "false" <=>
                  Past(n.upp[a.x], a.val, FALSE, FALSE) \/ Past(n.low[a.x], a.val, TRUE, FALSE)
<1> DEFINE lo == n.low[a.x]
           hi == n.upp[a.x]
<1>1. a.lower = FALSE /\ (a.x \in problem.int => IsWhole(a.val)) /\ a.x \in problem.vars /\ IsNumber(a.val)
    BY AtomParts
<1>2. /\ lo = Null \/ (lo # Null /\ IsBound(lo))
      /\ hi = Null \/ (hi # Null /\ IsBound(hi))
      /\ ~ Apart(lo, hi, TRUE)
    <2>1. ~ Apart(Own(n, a.x, TRUE), Own(n, a.x, ~ TRUE), TRUE)
        BY <1>1, ConsistentApart
    <2>2. (~ TRUE) = FALSE
        OBVIOUS
    <2> QED
        BY <1>1, <2>1, <2>2, OwnIs
<1> HIDE DEF lo, hi
<1> DEFINE fixed == lo # Null /\ hi # Null /\ lo.val = hi.val /\ lo.val = a.val
           past == Past(hi, a.val, FALSE, FALSE) \/ Past(lo, a.val, TRUE, FALSE)
<1>3. EqValue(problem, n, a) = IF fixed THEN "true" ELSE IF past THEN "false" ELSE "undef"
    BY <1>1 DEF EqValue, Fixed, lo, hi
<1>4. ~ (fixed /\ past)
    <2>1. ASSUME fixed, past PROVE FALSE
        <3>1. lo.open \/ hi.open
            BY <1>1, <1>2, <2>1, LessOrder DEF Past
        <3>2. Past(hi, lo.val, FALSE, lo.open)
            BY <2>1, <3>1 DEF Past
        <3>3. Apart(lo, hi, TRUE)
            <4>1. (~ TRUE) = FALSE
                OBVIOUS
            <4> QED
                BY <2>1, <3>2, <4>1 DEF Apart
        <3> QED
            BY <1>2, <3>3
    <2> QED
        BY <2>1
<1> HIDE DEF past
<1>5. EqValue(problem, n, a) = "true" <=> fixed
    BY <1>3
<1>6. EqValue(problem, n, a) = "false" <=> past
    BY <1>3, <1>4
<1> QED
    BY <1>5, <1>6 DEF past, lo, hi

LEMMA EqStays ==
    ASSUME NEW n \in Nodes(problem), NEW k \in Nodes(problem), Narrowed(n, k), Consistent(n), ~ n.conflict, Consistent(k), ~ k.conflict,
           NEW a, IsAtom(problem, a), a.kind = "eq"
    PROVE  /\ EqValue(problem, n, a) = "true" => EqValue(problem, k, a) = "true"
           /\ EqValue(problem, n, a) = "false" => EqValue(problem, k, a) = "false"
<1> DEFINE lo == n.low[a.x]
           hi == n.upp[a.x]
           lo1 == k.low[a.x]
           hi1 == k.upp[a.x]
<1>1. a.x \in problem.vars /\ IsNumber(a.val)
    BY AtomParts
<1>2. /\ lo = Null \/ (lo # Null /\ IsBound(lo))
      /\ hi = Null \/ (hi # Null /\ IsBound(hi))
      /\ lo1 = Null \/ (lo1 # Null /\ IsBound(lo1))
      /\ hi1 = Null \/ (hi1 # Null /\ IsBound(hi1))
      /\ AtLeast(lo1, lo, TRUE) /\ AtLeast(hi1, hi, FALSE)
      /\ ~ Apart(lo1, hi1, TRUE)
    <2>1. ~ Apart(Own(k, a.x, TRUE), Own(k, a.x, ~ TRUE), TRUE)
        BY <1>1, ConsistentApart
    <2>2. (~ TRUE) = FALSE
        OBVIOUS
    <2> QED
        BY <1>1, <2>1, <2>2, OwnIs, ZenonT(40) DEF Narrowed
<1>3. /\ EqValue(problem, n, a) = "true" <=> lo # Null /\ hi # Null /\ lo.val = a.val /\ hi.val = a.val
      /\ EqValue(problem, n, a) = "false" <=> Past(hi, a.val, FALSE, FALSE) \/ Past(lo, a.val, TRUE, FALSE)
    BY EqIs
<1>4. /\ EqValue(problem, k, a) = "true" <=> lo1 # Null /\ hi1 # Null /\ lo1.val = a.val /\ hi1.val = a.val
      /\ EqValue(problem, k, a) = "false" <=> Past(hi1, a.val, FALSE, FALSE) \/ Past(lo1, a.val, TRUE, FALSE)
    BY EqIs
<1> HIDE DEF lo, hi, lo1, hi1
<1>5. ASSUME EqValue(problem, n, a) = "false" PROVE EqValue(problem, k, a) = "false"
    BY <1>1, <1>2, <1>3, <1>4, <1>5, AtLeastPast
<1>6. ASSUME EqValue(problem, n, a) = "true" PROVE EqValue(problem, k, a) = "true"
    <2>1. lo1 # Null /\ hi1 # Null /\ lo # Null /\ hi # Null
        BY <1>2, <1>3, <1>6 DEF AtLeast
    <2>2. (Lt(a.val, lo1.val) \/ lo1.val = a.val) /\ (Lt(hi1.val, a.val) \/ hi1.val = a.val)
        BY <1>2, <1>3, <1>6, <2>1 DEF AtLeast, Less
    <2>3. ~ Lt(hi1.val, lo1.val)
        <3>1. (~ TRUE) = FALSE
            OBVIOUS
        <3> QED
            BY <1>2, <2>1, <3>1 DEF Apart, Past, Less
    <2>4. lo1.val = a.val /\ hi1.val = a.val
        BY <1>1, <1>2, <2>1, <2>2, <2>3, LtOrder, LtTransitive DEF IsBound
    <2> QED
        BY <1>4, <2>1, <2>4
<1> QED
    BY <1>5, <1>6

LEMMA IneqStays ==
    ASSUME NEW n \in Nodes(problem), NEW k \in Nodes(problem), Narrowed(n, k), Consistent(k), ~ k.conflict,
           NEW a, IsAtom(problem, a), a.kind = "ineq"
    PROVE  /\ IneqValue(n, a) = "true" => IneqValue(k, a) = "true"
           /\ IneqValue(n, a) = "false" => IneqValue(k, a) = "false"
<1>1. a.x \in problem.vars /\ IsNumber(a.val) /\ a.lower \in BOOLEAN /\ a.open \in BOOLEAN /\ (~ a.lower) \in BOOLEAN
    BY AtomParts
<1>2. \A lower \in BOOLEAN :
        /\ Own(n, a.x, lower) = Null \/ IsBound(Own(n, a.x, lower))
        /\ Own(k, a.x, lower) = Null \/ IsBound(Own(k, a.x, lower))
        /\ AtLeast(Own(k, a.x, lower), Own(n, a.x, lower), lower)
        /\ ~ Apart(Own(k, a.x, lower), Own(k, a.x, ~ lower), lower)
    BY <1>1, OwnIs, ConsistentApart DEF Narrowed
<1>3. \A lower, ties \in BOOLEAN : Past(Own(n, a.x, lower), a.val, lower, ties) => Past(Own(k, a.x, lower), a.val, lower, ties)
    BY <1>1, <1>2, AtLeastPast
<1>4. ASSUME Past(Own(k, a.x, a.lower), a.val, a.lower, ~ a.open), Past(Own(k, a.x, ~ a.lower), a.val, ~ a.lower, a.open)
      PROVE  FALSE
    BY <1>1, <1>2, <1>4, PastApart
<1> QED
    BY <1>1, <1>3, <1>4 DEF IneqValue

LEMMA BoolStays ==
    ASSUME IsProblem(problem), NEW n \in Nodes(problem), NEW k \in Nodes(problem), Narrowed(n, k), Consistent(k), ~ k.conflict,
           NEW a, IsAtom(problem, a), a.kind = "bool", BoolValue(n, a) # "undef"
    PROVE  BoolValue(k, a) = BoolValue(n, a)
<1>1. a.x \in problem.bool
    BY AtomParts
<1>2. n.bval[a.x] # "undef"
    BY DEF BoolValue
<1>3. k.bval[a.x] = n.bval[a.x]
    BY <1>1, <1>2 DEF Narrowed, Consistent
<1> QED
    BY <1>3 DEF BoolValue

LEMMA ValueStays ==
    ASSUME IsProblem(problem), NEW n \in Nodes(problem), NEW k \in Nodes(problem), Narrowed(n, k),
           Consistent(n), ~ n.conflict, Consistent(k), ~ k.conflict,
           NEW a, IsAtom(problem, a), Value(problem, n, a) # "undef"
    PROVE  Value(problem, k, a) = Value(problem, n, a)
<1>1. CASE a.kind = "bool"
    BY <1>1, BoolStays DEF Value
<1>2. CASE a.kind = "eq"
    <2>1. EqValue(problem, n, a) \in {"true", "false", "undef"}
        BY DEF EqValue
    <2> QED
        BY <1>2, <2>1, EqStays DEF Value
<1>3. CASE a.kind = "ineq"
    <2>1. IneqValue(n, a) \in {"true", "false", "undef"}
        BY DEF IneqValue
    <2> QED
        BY <1>3, <2>1, IneqStays DEF Value
<1> QED
    BY <1>1, <1>2, <1>3, AtomParts

(* An atom is worth the same where its variable has the same bounds.       *)
LEMMA ValueSame ==
    ASSUME NEW n, NEW k, NEW a, IsAtom(problem, a), n.low[a.x] = k.low[a.x], n.upp[a.x] = k.upp[a.x],
           a.kind = "bool" => n.bval[a.x] = k.bval[a.x]
    PROVE  Value(problem, n, a) = Value(problem, k, a)
<1>1. \A l : Own(n, a.x, l) = Own(k, a.x, l)
    BY DEF Own
<1>2. IneqValue(n, a) = IneqValue(k, a)
    BY <1>1 DEF IneqValue
<1>3. EqValue(problem, n, a) = EqValue(problem, k, a)
    BY DEF EqValue, Fixed
<1>4. CASE a.kind = "bool"
    BY <1>4 DEF Value, BoolValue
<1> QED
    BY <1>2, <1>3, <1>4, AtomParts DEF Value

-----------------------------------------------------------------------------
(* Where no bound is relaxed, a normalized bound is at least as good.      *)
LEMMA NormalizeTight ==
    ASSUME NEW x \in problem.vars, NEW val, IsNumber(val), NEW lower \in BOOLEAN, NEW open \in BOOLEAN,
           ~ TooFine(problem, x, val)
    PROVE  LET b == Normalize(problem, x, val, lower, open) IN
           Less(val, b.val, lower) \/ (b.val = val /\ (open => b.open))
<1>1. CASE x \notin problem.int
    BY <1>1 DEF Normalize
<1>2. CASE x \in problem.int /\ ~ IsWhole(val)
    <2>1. Normalize(problem, x, val, lower, open) = [val |-> Round(val, ~ lower), open |-> FALSE]
        BY <1>2 DEF Normalize, AdjustIntegerBound
    <2>2. Less(val, Round(val, ~ lower), lower)
        BY <1>2, FloorCeil DEF Round, Less
    <2> QED
        BY <2>1, <2>2
<1>3. CASE x \in problem.int /\ IsWhole(val) /\ ~ open
    BY <1>3 DEF Normalize, AdjustIntegerBound
<1>4. CASE x \in problem.int /\ IsWhole(val) /\ open
    <2> DEFINE one == IF lower THEN 1 ELSE -1
               r == Plus(val, Whole(one))
    <2>1. Normalize(problem, x, val, lower, open) = [val |-> r, open |-> FALSE]
        BY <1>4 DEF Normalize, AdjustIntegerBound
    <2>2. IsNumber(Whole(one)) /\ Less(Zero, Whole(one), lower)
        <3>1. IsNumber(Whole(1)) /\ IsNumber(Whole(-1))
            BY WholeNumber
        <3>2. Lt(Zero, Whole(1)) /\ Lt(Whole(-1), Zero)
            BY DEF Lt, Zero, Whole
        <3> QED
            BY <3>1, <3>2 DEF Less
    <2> HIDE DEF one
    <2>3. Less(Plus(val, Zero), Plus(val, Whole(one)), lower)
        BY <2>2, ZeroOne, PlusLess
    <2>4. Plus(val, Zero) = val
        <3>1. PICK K \in Nat \ {0}, i \in Int : At(val, K, i)
            BY Denominator
        <3>2. IsNumber(Plus(val, Zero)) /\ At(Plus(val, Zero), K, i + 0)
            BY <3>1, ZeroOne, ZeroAt, PlusAt
        <3>3. i + 0 = i
            BY <3>1
        <3> DEFINE w == Plus(val, Zero)
        <3>4. IsNumber(w) /\ At(w, K, i)
            BY <3>2, <3>3
        <3> HIDE DEF w
        <3>5. w = val <=> i = i
            BY <3>1, <3>4, AtCompare
        <3> QED
            BY <3>5 DEF w
    <2> QED
        BY <2>1, <2>3, <2>4
<1> QED
    BY <1>1, <1>2, <1>3, <1>4

-----------------------------------------------------------------------------
(* What a step of propagation preserves, of the state s it works on, in    *)
(* the surroundings e: the models that must stay in the box; and, when the *)
(* nodes are known to be without hidden conflict (full), the node it began *)
(* with, the clock and whether a bound was relaxed then, the points that   *)
(* may come back, and the clauses that are still to be visited.            *)
Cl(i) == [def |-> FALSE, id |-> i]

(* What a point must satisfy to be in the box, besides the bounds of plain *)
(* variables: the units and the derived atoms of defined variables.        *)
Claimed(n, m) ==
    \A a \in ToSet(problem.units) \cup ToSet(n.up) : a.x \in DOMAIN problem.defs => Holds(m, a)

Latest(n, x, ts) == \A lower \in BOOLEAN : Own(n, x, lower) # Null => Own(n, x, lower).ts <= ts

(* The clause i will be visited for a bound in the queue.                  *)
Queued(s, i) ==
    \E b \in ToSet(s.q) :
        /\ \E a \in ToSet(problem.clauses[i]) : a.x = b.x
        /\ s.v[Cl(i)] <= b.ts
        /\ b.x \in problem.bool \/ Latest(s.n, b.x, b.ts)

Tracked(s, e) ==
    \A i \in DOMAIN problem.clauses :
        \/ ClauseDone(s.n, problem.clauses[i])
        \/ Queued(s, i)
        \/ i \in e.open /\ s.v[Cl(i)] <= e.since

Timed(s) ==
    /\ s.v \in [Constraints -> 0 .. s.t]
    /\ s.q \in Seq([x : problem.vars, ts : Nat])
    /\ \A x \in problem.vars : Latest(s.n, x, s.t)

Back(s, e) ==
    \A m \in e.points :
        (~ s.n.conflict /\ Boxed(s.n, m, Plain(problem)) /\ Claimed(s.n, m)) => Boxed(s.n, m, problem.vars)

Exact(s, e) == Narrowed(e.from, s.n) /\ Back(s, e) /\ (e.strict /\ ~ s.n.conflict => Tracked(s, e))

Full(s, e) ==
    /\ e.from \in Nodes(problem) /\ \A m \in e.points : IsPoint(problem, m)
    /\ Consistent(s.n) /\ Timed(s) /\ e.clock <= s.t /\ e.clock \in Nat /\ (e.relaxed => s.r)
    /\ ~ s.r => Exact(s, e)

Good(s, e) ==
    /\ IsState(s)
    /\ \A m \in e.models : IsModel(problem, m) /\ Kept(problem, s.n, m)
    /\ e.full => Full(s, e)

(* The points for which a new bound of x must be right.                    *)
Held(s, e, x) ==
    e.models \cup {m \in e.points : /\ e.full /\ ~ s.r /\ x \in DOMAIN problem.defs
                                    /\ Boxed(s.n, m, problem.vars) /\ Claimed(s.n, m)}

(* The surroundings at a later state; without models and points; after the *)
(* visit of a clause.                                                      *)
Since(e, s) == [models |-> e.models, points |-> e.points, from |-> s.n, clock |-> s.t, relaxed |-> s.r,
                full |-> e.full, strict |-> e.strict, open |-> e.open, since |-> e.since]
Bare(e) == [models |-> {}, points |-> {}, from |-> e.from, clock |-> e.clock, relaxed |-> e.relaxed,
            full |-> e.full, strict |-> e.strict, open |-> e.open, since |-> e.since]
Closed(e, i) == [models |-> e.models, points |-> e.points, from |-> e.from, clock |-> e.clock, relaxed |-> e.relaxed,
                 full |-> e.full, strict |-> e.strict, open |-> e.open \ {i}, since |-> e.since]

LEMMA HeldIs ==
    ASSUME NEW s, NEW e, Good(s, e), NEW x, NEW m \in Held(s, e, x)
    PROVE  IsPoint(problem, m) /\ InBox(problem, m, s.n)
BY BoxedIs DEF Held, Good, Full, IsModel, Kept

LEMMA SinceGood ==
    ASSUME NEW s, NEW e, Good(s, e)
    PROVE  Good(s, Since(e, s)) /\ \A x : Held(s, Since(e, s), x) = Held(s, e, x)
<1>1. s.n \in Nodes(problem) /\ Narrowed(s.n, s.n) /\ s.t \in Nat
    BY NarrowedSame DEF Good, IsState
<1>2. e.full => Full(s, Since(e, s))
    BY <1>1 DEF Good, Full, Exact, Back, Tracked, Since
<1> QED
    BY <1>2 DEF Good, Since, Held

LEMMA SinceThen ==
    ASSUME NEW s, NEW t, NEW e, Good(s, e), Good(t, Since(e, s))
    PROVE  /\ Good(t, e)
           /\ \A x : Held(t, e, x) \subseteq Held(s, e, x)
           /\ e.full /\ ~ t.r => ~ s.r /\ Narrowed(s.n, t.n)
<1>1. s.n \in Nodes(problem) /\ t.n \in Nodes(problem) /\ s.t \in Nat /\ t.t \in Nat
    BY DEF Good, IsState
<1>2. e.full => Full(s, e) /\ Full(t, Since(e, s))
    BY DEF Good, Since
<1>3. e.full /\ ~ t.r => ~ s.r /\ Narrowed(s.n, t.n)
    BY <1>2 DEF Full, Exact, Since
<1>4. e.full => Full(t, e)
    <2> SUFFICES ASSUME e.full PROVE Full(t, e)
        OBVIOUS
    <2>1. e.clock <= t.t /\ e.clock \in Nat /\ (e.relaxed => t.r)
        BY <1>1, <1>2 DEF Full, Since
    <2>2. ~ t.r => Narrowed(e.from, t.n)
        BY <1>1, <1>2, <1>3, NarrowedTransitive DEF Full, Exact
    <2>3. ~ t.r => Exact(t, e)
        BY <1>2, <2>2 DEF Full, Exact, Back, Tracked, Since
    <2> QED
        BY <1>2, <2>1, <2>3 DEF Full, Since
<1>5. ASSUME NEW x, NEW m \in Held(t, e, x) PROVE m \in Held(s, e, x)
    <2>1. CASE m \in e.models
        BY <2>1 DEF Held
    <2>2. CASE m \notin e.models
        <3>1. m \in e.points /\ e.full /\ ~ t.r /\ x \in DOMAIN problem.defs /\ Boxed(t.n, m, problem.vars) /\ Claimed(t.n, m)
            BY <2>2 DEF Held
        <3>2. ~ s.r /\ Narrowed(s.n, t.n) /\ IsPoint(problem, m)
            BY <1>2, <1>3, <3>1 DEF Full
        <3>3. Boxed(s.n, m, problem.vars)
            BY <1>1, <3>1, <3>2, NarrowedBox
        <3>4. Claimed(s.n, m)
            BY <3>1, <3>2 DEF Claimed, Narrowed
        <3> QED
            BY <3>1, <3>2, <3>3, <3>4 DEF Held
    <2> QED
        BY <2>1, <2>2
<1> QED
    BY <1>3, <1>4, <1>5 DEF Good, Since

LEMMA BareGood ==
    ASSUME NEW s, NEW e, Good(s, e)
    PROVE  Good(s, Bare(e)) /\ \A x : Held(s, Bare(e), x) = {}
<1>1. e.full => Full(s, Bare(e))
    BY DEF Good, Full, Exact, Back, Tracked, Bare
<1> QED
    BY <1>1 DEF Good, Held, Bare

(* A bound that is relaxed spoils what is exact only.                      *)
LEMMA RelaxedGood ==
    ASSUME NEW s, NEW e, Good(s, e), NEW t, t = [n |-> t.n, q |-> t.q, t |-> t.t, v |-> t.v, r |-> t.r],
           t.n = s.n, t.q = s.q, t.t = s.t, t.v = s.v, s.r => t.r
    PROVE  Good(t, e) /\ \A x : Held(t, e, x) \subseteq Held(s, e, x)
<1>1. IsState(t)
    BY DEF Good, IsState
<1>2. Full(s, e) => Full(t, e)
    <2>1. Timed(s) => Timed(t)
        BY DEF Timed
    <2>2. Exact(s, e) => Exact(t, e)
        BY DEF Exact, Back, Tracked, Queued
    <2> QED
        BY <2>1, <2>2 DEF Full
<1>3. Good(t, e)
    BY <1>1, <1>2 DEF Good
<1>4. \A x : Held(t, e, x) \subseteq Held(s, e, x)
    BY DEF Held
<1> QED
    BY <1>3, <1>4

-----------------------------------------------------------------------------
(* One step of propagation: bounds and atoms that all the points of Held   *)
(* meet are added.                                                         *)
LEMMA AppendSet ==
    ASSUME NEW R, NEW q \in Seq(R), NEW b \in R
    PROVE  Append(q, b) \in Seq(R) /\ ToSet(Append(q, b)) = ToSet(q) \cup {b}
<1> DEFINE u == Append(q, b)
<1>1. u \in Seq(R) /\ Len(u) = Len(q) + 1 /\ DOMAIN u = 1 .. Len(u) /\ DOMAIN q = 1 .. Len(q) /\ Len(q) \in Nat
    OBVIOUS
<1>2. \A i \in 1 .. Len(u) : u[i] = IF i = Len(u) THEN b ELSE q[i]
    OBVIOUS
<1> HIDE DEF u
<1>3. DOMAIN u = DOMAIN q \cup {Len(u)} /\ Len(u) \notin DOMAIN q
    BY <1>1
<1>4. ASSUME NEW e \in ToSet(u) PROVE e \in ToSet(q) \cup {b}
    BY <1>1, <1>2, <1>3 DEF ToSet
<1>5. ASSUME NEW e \in ToSet(q) \cup {b} PROVE e \in ToSet(u)
    <2>1. CASE e = b
        BY <1>1, <1>2, <1>3, <2>1 DEF ToSet
    <2>2. CASE e \in ToSet(q)
        <3>1. PICK i \in DOMAIN q : e = q[i]
            BY <2>2 DEF ToSet
        <3>2. i \in DOMAIN u /\ u[i] = e
            BY <1>1, <1>2, <1>3, <3>1
        <3> QED
            BY <3>2 DEF ToSet
    <2> QED
        BY <2>1, <2>2
<1>6. u \in Seq(R) /\ ToSet(u) = ToSet(q) \cup {b}
    BY <1>1, <1>4, <1>5
<1> QED
    BY <1>6 DEF u

LEMMA ClauseParts ==
    ASSUME IsProblem(problem), NEW i \in DOMAIN problem.clauses
    PROVE  LET c == problem.clauses[i] IN
           /\ c \in ToSet(problem.clauses) /\ Len(c) \in Nat /\ DOMAIN c = 1 .. Len(c) /\ Len(c) > 1
           /\ \A k \in DOMAIN c : c[k] \in ToSet(c) /\ IsAtom(problem, c[k])
<1> DEFINE c == problem.clauses[i]
<1>1. c \in ToSet(problem.clauses)
    BY DEF ToSet
<1> HIDE DEF c
<1>2. c \in Seq(ToSet(c)) /\ Len(c) > 1 /\ \A a \in ToSet(c) : IsAtom(problem, a)
    BY <1>1 DEF IsProblem
<1>3. \A k \in DOMAIN c : c[k] \in ToSet(c)
    BY DEF ToSet
<1> QED
    BY <1>1, <1>2, <1>3 DEF c

(* A clause is done where its atoms are worth the same.                    *)
LEMMA DoneSame ==
    ASSUME IsProblem(problem), NEW n, NEW k, NEW i \in DOMAIN problem.clauses, ClauseDone(n, problem.clauses[i]),
           \A a \in ToSet(problem.clauses[i]) : Value(problem, n, a) = Value(problem, k, a)
    PROVE  ClauseDone(k, problem.clauses[i])
<1> DEFINE c == problem.clauses[i]
<1>1. \A j \in DOMAIN c : Value(problem, n, c[j]) = Value(problem, k, c[j])
    BY ClauseParts
<1>2. {j \in DOMAIN c : Value(problem, n, c[j]) = "undef"} = {j \in DOMAIN c : Value(problem, k, c[j]) = "undef"}
    BY <1>1
<1>3. (\E j \in DOMAIN c : Value(problem, n, c[j]) = "true") => \E j \in DOMAIN c : Value(problem, k, c[j]) = "true"
    BY <1>1
<1> QED
    BY <1>2, <1>3 DEF ClauseDone

(* The bounds of x change, and x is put into the queue.                    *)
LEMMA GrownTracked ==
    ASSUME IsProblem(problem), NEW s, NEW e, s.n \in Nodes(problem), s.t \in Nat, Timed(s), Tracked(s, e),
           NEW t, NEW x \in problem.vars, t.n \in Nodes(problem),
           t.t = s.t + 1, t.v = s.v, t.q = Append(s.q, [x |-> x, ts |-> s.t]),
           \A y \in problem.vars \ {x}, l \in BOOLEAN : Own(t.n, y, l) = Own(s.n, y, l),
           \A y \in problem.bool \ {x} : t.n.bval[y] = s.n.bval[y],
           Latest(t.n, x, s.t)
    PROVE  Timed(t) /\ Tracked(t, e)
<1> DEFINE b == [x |-> x, ts |-> s.t]
           R == [x : problem.vars, ts : Nat]
<1>1. b \in R /\ b.x = x /\ b.ts = s.t
    OBVIOUS
<1>2. s.q \in Seq(R) /\ s.v \in [Constraints -> 0 .. s.t] /\ t.q = Append(s.q, b)
    BY DEF Timed
<1> HIDE DEF b, R
<1>3. t.q \in Seq(R) /\ ToSet(t.q) = ToSet(s.q) \cup {b}
    BY <1>1, <1>2, AppendSet
<1>4. \A y \in problem.vars, l \in BOOLEAN : Own(t.n, y, l) # Null => Own(t.n, y, l).ts \in Nat
    <2>1. ASSUME NEW y \in problem.vars, NEW l \in BOOLEAN, Own(t.n, y, l) # Null PROVE Own(t.n, y, l).ts \in Nat
        <3>1. Own(t.n, y, l) \in Bounds
            BY <2>1, OwnIs
        <3> QED
            BY <3>1, BoundNotNull
    <2> QED
        BY <2>1
<1>5. \A y \in problem.vars : Latest(t.n, y, t.t)
    <2>1. ASSUME NEW y \in problem.vars, NEW l \in BOOLEAN, Own(t.n, y, l) # Null PROVE Own(t.n, y, l).ts <= s.t
        <3>1. CASE y = x
            BY <2>1, <3>1 DEF Latest
        <3>2. CASE y # x
            BY <2>1, <3>2 DEF Timed, Latest
        <3> QED
            BY <3>1, <3>2
    <2> QED
        BY <1>4, <2>1 DEF Latest
<1>6. Timed(t)
    <2>1. t.v \in [Constraints -> 0 .. t.t]
        BY <1>2
    <2> QED
        BY <1>3, <1>5, <2>1 DEF Timed, R
<1>7. ASSUME NEW i \in DOMAIN problem.clauses
      PROVE  ClauseDone(t.n, problem.clauses[i]) \/ Queued(t, i) \/ (i \in e.open /\ t.v[Cl(i)] <= e.since)
    <2>1. Cl(i) \in Constraints /\ s.v[Cl(i)] <= s.t
        <3>1. Cl(i) \in Constraints
            BY DEF Cl, Constraints
        <3> QED
            BY <1>2, <3>1
    <2>2. CASE \E a \in ToSet(problem.clauses[i]) : a.x = x
        BY <1>1, <1>3, <2>1, <2>2 DEF Queued
    <2>3. CASE \A a \in ToSet(problem.clauses[i]) : a.x # x
        <3>1. \A a \in ToSet(problem.clauses[i]) : IsAtom(problem, a) /\ a.x \in problem.vars /\ (a.kind = "bool" => a.x \in problem.bool)
            <4>1. \A a \in ToSet(problem.clauses[i]) : IsAtom(problem, a)
                BY ClauseParts DEF ToSet
            <4> QED
                BY <4>1, AtomParts
        <3>2. CASE ClauseDone(s.n, problem.clauses[i])
            <4>1. ASSUME NEW a \in ToSet(problem.clauses[i]) PROVE Value(problem, s.n, a) = Value(problem, t.n, a)
                <5>1. s.n.low[a.x] = t.n.low[a.x] /\ s.n.upp[a.x] = t.n.upp[a.x]
                    <6>1. a.x \in problem.vars \ {x} /\ TRUE \in BOOLEAN /\ FALSE \in BOOLEAN
                        BY <2>3, <3>1
                    <6>2. Own(t.n, a.x, TRUE) = Own(s.n, a.x, TRUE) /\ Own(t.n, a.x, FALSE) = Own(s.n, a.x, FALSE)
                        BY <6>1
                    <6> QED
                        BY <6>2 DEF Own
                <5> QED
                    BY <2>3, <3>1, <5>1, ValueSame
            <4> QED
                BY <3>2, <4>1, DoneSame
        <3>3. CASE Queued(s, i)
            <4>1. PICK c \in ToSet(s.q) :
                    /\ \E a \in ToSet(problem.clauses[i]) : a.x = c.x
                    /\ s.v[Cl(i)] <= c.ts
                    /\ c.x \in problem.bool \/ Latest(s.n, c.x, c.ts)
                BY <3>3 DEF Queued
            <4>2. c.x \in problem.vars \ {x}
                BY <2>3, <3>1, <4>1
            <4>3. Latest(s.n, c.x, c.ts) => Latest(t.n, c.x, c.ts)
                BY <4>2 DEF Latest
            <4> QED
                BY <1>3, <4>1, <4>3 DEF Queued
        <3>4. CASE i \in e.open /\ s.v[Cl(i)] <= e.since
            BY <3>4
        <3> QED
            BY <3>2, <3>3, <3>4 DEF Tracked
    <2> QED
        BY <2>2, <2>3
<1> QED
    BY <1>6, <1>7 DEF Tracked

LEMMA GrownGood ==
    ASSUME IsProblem(problem), NEW s, NEW e, Good(s, e), NEW x \in problem.vars, NEW k \in Nodes(problem),
           \A m \in e.models : Kept(problem, k, m),
           k.up = s.n.up,
           \A y \in problem.vars \ {x}, l \in BOOLEAN : Own(k, y, l) = Own(s.n, y, l),
           \A y \in problem.bool \ {x} : k.bval[y] = s.n.bval[y],
           \A l \in BOOLEAN : Own(k, x, l) # Null => Own(k, x, l).ts = s.t \/ Own(k, x, l) = Own(s.n, x, l),
           e.full => ~ s.n.conflict /\ Consistent(k) /\ (~ s.r => Narrowed(s.n, k)),
           \A m \in Held(s, e, x) : Boxed(k, m, {x})
    PROVE  Good([s EXCEPT !.n = k, !.q = Append(@, [x |-> x, ts |-> s.t]), !.t = @ + 1], e)
<1> DEFINE t == [s EXCEPT !.n = k, !.q = Append(@, [x |-> x, ts |-> s.t]), !.t = @ + 1]
<1>1. /\ s = [n |-> s.n, q |-> s.q, t |-> s.t, v |-> s.v, r |-> s.r]
      /\ s.n \in Nodes(problem) /\ s.t \in Nat
    BY DEF Good, IsState
<1>2. /\ t = [n |-> t.n, q |-> t.q, t |-> t.t, v |-> t.v, r |-> t.r]
      /\ t.n = k /\ t.q = Append(s.q, [x |-> x, ts |-> s.t]) /\ t.t = s.t + 1 /\ t.v = s.v /\ t.r = s.r
    <2> DEFINE q == Append(s.q, [x |-> x, ts |-> s.t])
    <2>1. t = [s EXCEPT !.n = k, !.q = q, !.t = @ + 1]
        OBVIOUS
    <2> HIDE DEF t, q
    <2>2. /\ t = [n |-> t.n, q |-> t.q, t |-> t.t, v |-> t.v, r |-> t.r]
          /\ t.n = k /\ t.q = q /\ t.t = s.t + 1 /\ t.v = s.v /\ t.r = s.r
        BY <1>1, <2>1
    <2> QED
        BY <2>2 DEF q
<1> HIDE DEF t
<1>3. IsState(t)
    BY <1>1, <1>2 DEF IsState
<1>4. ASSUME e.full PROVE Full(t, e)
    <2>1. Full(s, e) /\ Timed(s)
        BY <1>4 DEF Good, Full
    <2>2. Latest(k, x, s.t)
        BY <1>1, <2>1 DEF Timed, Latest
    <2>3. Timed(t) /\ (Tracked(s, e) => Tracked(t, e))
        <3>1. Timed(t)
            <4> DEFINE f == [open |-> DOMAIN problem.clauses, since |-> s.t]
            <4>1. Tracked(s, f)
                <5>1. ASSUME NEW i \in DOMAIN problem.clauses PROVE i \in f.open /\ s.v[Cl(i)] <= f.since
                    <6>1. Cl(i) \in Constraints
                        BY DEF Cl, Constraints
                    <6> QED
                        BY <2>1, <6>1 DEF Timed
                <5> QED
                    BY <5>1 DEF Tracked
            <4> HIDE DEF f
            <4> QED
                BY <1>1, <1>2, <2>1, <2>2, <4>1, GrownTracked
        <3> QED
            BY <1>1, <1>2, <2>1, <2>2, <3>1, GrownTracked
    <2>4. ASSUME ~ t.r PROVE Exact(t, e)
        <3>1. ~ s.r /\ Exact(s, e) /\ Narrowed(s.n, k)
            BY <1>2, <1>4, <2>1, <2>4 DEF Full
        <3>2. Narrowed(e.from, t.n)
            BY <1>1, <1>2, <2>1, <3>1, NarrowedTransitive DEF Exact, Full
        <3>3. ASSUME NEW m \in e.points, ~ t.n.conflict, Boxed(t.n, m, Plain(problem)), Claimed(t.n, m)
              PROVE  Boxed(t.n, m, problem.vars)
            <4>1. IsPoint(problem, m) /\ Plain(problem) \subseteq problem.vars
                BY <2>1 DEF Full, Plain
            <4>2. Boxed(s.n, m, Plain(problem)) /\ Claimed(s.n, m)
                <5>1. Claimed(s.n, m)
                    BY <1>2, <3>3 DEF Claimed
                <5> QED
                    BY <1>1, <1>2, <3>1, <3>3, <4>1, <5>1, NarrowedBox
            <4>3. Boxed(s.n, m, problem.vars)
                BY <1>4, <3>1, <4>2 DEF Exact, Back
            <4>4. Boxed(k, m, {x})
                <5>1. CASE x \in DOMAIN problem.defs
                    BY <1>4, <3>1, <4>2, <4>3, <5>1 DEF Held
                <5>2. CASE x \notin DOMAIN problem.defs
                    BY <1>2, <3>3, <5>2 DEF Boxed, Plain
                <5> QED
                    BY <5>1, <5>2
            <4>5. Boxed(k, m, problem.vars \ {x})
                BY <4>3 DEF Boxed
            <4> QED
                BY <1>2, <4>4, <4>5 DEF Boxed
        <3>4. e.strict /\ ~ t.n.conflict => Tracked(t, e)
            BY <1>4, <2>3, <3>1 DEF Exact
        <3> QED
            BY <3>2, <3>3, <3>4 DEF Exact, Back
    <2>5. e.clock <= t.t /\ e.clock \in Nat /\ (e.relaxed => t.r)
        BY <1>1, <1>2, <2>1 DEF Full
    <2> QED
        BY <1>2, <1>4, <2>1, <2>3, <2>4, <2>5 DEF Full
<1>5. Good(t, e)
    BY <1>2, <1>3, <1>4 DEF Good
<1> QED
    BY <1>5 DEF t

-----------------------------------------------------------------------------
LEMMA MadeGood ==
    ASSUME IsProblem(problem), NEW s, NEW e, Good(s, e), NEW x \in problem.vars \ problem.bool,
           NEW b, IsNumber(b.val), b.open \in BOOLEAN, NEW lower \in BOOLEAN,
           \A m \in Held(s, e, x) : LetsIn(b, lower, m[x]),
           e.full => /\ ~ s.n.conflict /\ Consistent(Pushed(s.n, x, [val |-> b.val, open |-> b.open, ts |-> s.t], lower))
                     /\ s.r \/ AtLeast([val |-> b.val, open |-> b.open, ts |-> s.t], Own(s.n, x, lower), lower)
    PROVE  Good(Made(s, x, b, lower), e)
<1> DEFINE c == [val |-> b.val, open |-> b.open, ts |-> s.t]
           k == Pushed(s.n, x, c, lower)
           r == Made(s, x, b, lower)
<1>1. s.n \in Nodes(problem) /\ s.t \in Nat
    BY DEF Good, IsState
<1>2. c \in Bounds /\ c.val = b.val /\ c.open = b.open /\ c.ts = s.t
    BY <1>1 DEF IsNumber, Bounds, Numbers
<1>3. r = [s EXCEPT !.n = k, !.q = Append(@, [x |-> x, ts |-> s.t]), !.t = @ + 1]
    BY DEF Made
<1>4. e.full => /\ ~ s.n.conflict /\ Consistent(k) /\ (s.r \/ AtLeast(c, Own(s.n, x, lower), lower))
    OBVIOUS
<1> HIDE DEF c
<1>5. /\ k \in Nodes(problem)
      /\ \A y \in problem.vars, l \in BOOLEAN : Own(k, y, l) = IF y = x /\ l = lower THEN c ELSE Own(s.n, y, l)
      /\ k.bval = s.n.bval /\ k.up = s.n.up
    BY <1>1, <1>2, PushedIs
<1>6. ASSUME NEW m \in e.models PROVE Kept(problem, k, m)
    <2>1. m \in Held(s, e, x)
        BY DEF Held
    <2>2. IsPoint(problem, m) /\ Kept(problem, s.n, m)
        BY DEF Good, IsModel
    <2>3. LetsIn(c, lower, m[x])
        BY <1>2, <2>1 DEF LetsIn
    <2> QED
        BY <1>1, <1>2, <2>2, <2>3, PushedKeeps DEF Kept
<1>7. ASSUME NEW m \in Held(s, e, x) PROVE Boxed(k, m, {x})
    <2>1. IsPoint(problem, m) /\ InBox(problem, m, s.n)
        BY HeldIs
    <2>2. LetsIn(c, lower, m[x])
        BY <1>2 DEF LetsIn
    <2>3. ASSUME NEW l \in BOOLEAN, Own(k, x, l) # Null PROVE LetsIn(Own(k, x, l), l, m[x])
        <3>1. CASE l = lower
            BY <1>5, <2>2, <3>1
        <3>2. CASE l # lower
            BY <1>5, <2>1, <2>3, <3>2, BoxedIs DEF Boxed
        <3> QED
            BY <3>1, <3>2
    <2> QED
        BY <2>3 DEF Boxed
<1>8. e.full => ~ s.n.conflict /\ Consistent(k) /\ (~ s.r => Narrowed(s.n, k))
    BY <1>1, <1>2, <1>4, PushedNarrows DEF k
<1>9. \A l \in BOOLEAN : Own(k, x, l) # Null => Own(k, x, l).ts = s.t \/ Own(k, x, l) = Own(s.n, x, l)
    BY <1>2, <1>5
<1> HIDE DEF k, r
<1> DEFINE w == [s EXCEPT !.n = k, !.q = Append(@, [x |-> x, ts |-> s.t]), !.t = @ + 1]
<1>10. Good(w, e)
    BY <1>5, <1>6, <1>7, <1>8, <1>9, GrownGood
<1>11. r = w
    BY <1>3
<1> HIDE DEF w
<1> QED
    BY <1>10, <1>11 DEF r

(* The bound itself, as a bound of a node.                                 *)
Raw(val, open) == [val |-> val, open |-> open, ts |-> 0]

LEMMA AddBoundGood ==
    ASSUME IsProblem(problem), NEW s, NEW e, Good(s, e), NEW x \in problem.vars \ problem.bool,
           NEW val, IsNumber(val), NEW lower \in BOOLEAN, NEW open \in BOOLEAN, e.full => ~ s.n.conflict,
           \A m \in Held(s, e, x) : Meets([val |-> val, lower |-> lower, open |-> open], m[x])
    PROVE  LET t == AddBound(s, x, val, lower, open) IN
           /\ Good(t, e)
           /\ e.full /\ ~ t.r => ~ s.r
           /\ e.full /\ ~ t.r /\ ~ t.n.conflict => AtLeast(Own(t.n, x, lower), Raw(val, open), lower)
<1> DEFINE s1 == [s EXCEPT !.r = @ \/ TooFine(problem, x, val)]
           b == Normalize(problem, x, val, lower, open)
           c == [val |-> b.val, open |-> b.open, ts |-> s.t]
           raw == Raw(val, open)
           t == AddBound(s, x, val, lower, open)
<1>1. s.n \in Nodes(problem) /\ s.t \in Nat
    BY DEF Good, IsState
<1>2. /\ s1.n = s.n /\ s1.t = s.t /\ (s1.r <=> s.r \/ TooFine(problem, x, val))
      /\ Good(s1, e) /\ \A y : Held(s1, e, y) \subseteq Held(s, e, y)
    <2> DEFINE d == TooFine(problem, x, val)
    <2>1. s1 = [s EXCEPT !.r = @ \/ d]
        OBVIOUS
    <2> HIDE DEF d, s1
    <2>2. /\ s1.n = s.n /\ s1.q = s.q /\ s1.t = s.t /\ s1.v = s.v /\ (s1.r <=> s.r \/ d)
          /\ s1 = [n |-> s1.n, q |-> s1.q, t |-> s1.t, v |-> s1.v, r |-> s1.r]
        BY <2>1 DEF Good, IsState
    <2>3. Good(s1, e) /\ \A y : Held(s1, e, y) \subseteq Held(s, e, y)
        BY <2>2, RelaxedGood
    <2> QED
        BY <2>2, <2>3 DEF d
<1>3. IsNumber(b.val) /\ b.open \in BOOLEAN
    BY NormalizeType
<1>4. ASSUME NEW m \in Held(s1, e, x) PROVE LetsIn(b, lower, m[x])
    <2>1. IsPoint(problem, m) /\ m \in Held(s, e, x)
        BY <1>2, HeldIs
    <2> QED
        BY <2>1, NormalizeKeeps DEF IsLimit, LetsIn
<1>5. t = IF Improves(s1.n, x, b.val, lower, b.open) THEN Made(s1, x, b, lower) ELSE s1
    BY DEF AddBound, Improved
<1>6. ~ TooFine(problem, x, val) => Less(val, b.val, lower) \/ (b.val = val /\ (open => b.open))
    BY NormalizeTight
<1> HIDE DEF b, s1, t
<1>7. c \in Bounds /\ c # Null /\ IsBound(c) /\ c.val = b.val /\ c.open = b.open
    <2>1. c \in Bounds /\ c.val = b.val /\ c.open = b.open
        BY <1>1, <1>3 DEF IsNumber, Bounds, Numbers
    <2> QED
        BY <2>1, BoundNotNull
<1>8. raw # Null /\ IsBound(raw) /\ raw.val = val /\ raw.open = open
    <2>1. raw \in Bounds /\ raw.val = val /\ raw.open = open
        BY DEF IsNumber, Bounds, Numbers, Raw
    <2> QED
        BY <2>1, BoundNotNull
<1> HIDE DEF c, raw
<1>9. e.full => Consistent(s.n) /\ ~ s.n.conflict
    BY DEF Good, Full
<1>10. e.full => IF Improves(s.n, x, b.val, lower, b.open) THEN AtLeast(c, Own(s.n, x, lower), lower)
                 ELSE AtLeast(Own(s.n, x, lower), c, lower)
    BY <1>1, <1>7, <1>9, ImprovesAtLeast
<1>11. ~ TooFine(problem, x, val) => AtLeast(c, raw, lower)
    BY <1>6, <1>7, <1>8 DEF AtLeast
<1>12. CASE Improves(s1.n, x, b.val, lower, b.open)
    <2>1. t = Made(s1, x, b, lower)
        BY <1>5, <1>12
    <2>2. t.n = Pushed(s1.n, x, c, lower) /\ t.r = s1.r
        <3>1. s1 = [n |-> s1.n, q |-> s1.q, t |-> s1.t, v |-> s1.v, r |-> s1.r]
            BY <1>2 DEF Good, IsState
        <3> DEFINE nn == Pushed(s1.n, x, c, lower)
                   qq == Append(s1.q, [x |-> x, ts |-> s1.t])
        <3>2. t = [s1 EXCEPT !.n = nn, !.q = qq, !.t = @ + 1]
            BY <1>2, <2>1 DEF Made, c
        <3> HIDE DEF nn, qq
        <3>3. t.n = nn /\ t.r = s1.r
            BY <3>1, <3>2
        <3> QED
            BY <3>3 DEF nn
    <2>3. e.full => Consistent(Pushed(s1.n, x, c, lower))
        BY <1>1, <1>2, <1>7, <1>9, PushedConsistent
    <2>4. e.full => /\ ~ s1.n.conflict /\ Consistent(Pushed(s1.n, x, [val |-> b.val, open |-> b.open, ts |-> s1.t], lower))
                    /\ s1.r \/ AtLeast([val |-> b.val, open |-> b.open, ts |-> s1.t], Own(s1.n, x, lower), lower)
        BY <1>2, <1>9, <1>10, <1>12, <2>3 DEF c
    <2>5. Good(t, e)
        BY <1>2, <1>3, <1>4, <2>1, <2>4, MadeGood
    <2>6. Own(t.n, x, lower) = c
        BY <1>1, <1>2, <1>7, <2>2, PushedIs
    <2> QED
        BY <1>2, <1>11, <2>2, <2>5, <2>6 DEF t, raw
<1>13. CASE ~ Improves(s1.n, x, b.val, lower, b.open)
    <2>1. t = s1
        BY <1>5, <1>13
    <2>2. e.full => AtLeast(Own(s.n, x, lower), c, lower)
        BY <1>2, <1>10, <1>13
    <2>3. e.full /\ ~ TooFine(problem, x, val) => AtLeast(Own(s.n, x, lower), raw, lower)
        <3>1. Own(s.n, x, lower) = Null \/ IsBound(Own(s.n, x, lower))
            BY <1>1, OwnIs
        <3> QED
            BY <1>7, <1>8, <1>11, <2>2, <3>1, AtLeastOrder
    <2> QED
        BY <1>2, <2>1, <2>3 DEF t, raw
<1> QED
    BY <1>12, <1>13

LEMMA AddValueGood ==
    ASSUME IsProblem(problem), NEW s, NEW e, Good(s, e), NEW x \in problem.vars \ problem.bool,
           NEW val, IsNumber(val), e.full => ~ s.n.conflict, \A m \in Held(s, e, x) : m[x] = val
    PROVE  LET t == AddValue(s, x, val) IN
           /\ Good(t, e)
           /\ e.full /\ ~ t.r /\ ~ t.n.conflict => \A l \in BOOLEAN : AtLeast(Own(t.n, x, l), Raw(val, FALSE), l)
<1> DEFINE t == AddBound(s, x, val, TRUE, FALSE)
           u == AddBound(t, x, val, FALSE, FALSE)
           w == AddValue(s, x, val)
<1>1. \A m \in Held(s, e, x), l \in BOOLEAN : Meets([val |-> val, lower |-> l, open |-> FALSE], m[x])
    BY DEF Meets
<1>2. Good(s, Since(e, s)) /\ (Since(e, s).full <=> e.full) /\ \A y : Held(s, Since(e, s), y) = Held(s, e, y)
    BY SinceGood DEF Since
<1>3. /\ Good(t, Since(e, s))
      /\ e.full /\ ~ t.r /\ ~ t.n.conflict => AtLeast(Own(t.n, x, TRUE), Raw(val, FALSE), TRUE)
    BY <1>1, <1>2, AddBoundGood
<1>4. Good(t, e) /\ \A y : Held(t, e, y) \subseteq Held(s, e, y)
    BY <1>3, SinceThen
<1> HIDE DEF t
<1>5. w = IF t.n.conflict THEN t ELSE u
    BY DEF AddValue, AddUnlessConflict, t
<1>6. CASE t.n.conflict
    BY <1>4, <1>5, <1>6
<1>7. CASE ~ t.n.conflict
    <2>1. Good(t, Since(e, t)) /\ (Since(e, t).full <=> e.full) /\ \A y : Held(t, Since(e, t), y) = Held(t, e, y)
        BY <1>4, SinceGood DEF Since
    <2>2. /\ Good(u, Since(e, t))
          /\ e.full /\ ~ u.r /\ ~ u.n.conflict => AtLeast(Own(u.n, x, FALSE), Raw(val, FALSE), FALSE)
        BY <1>1, <1>4, <1>7, <2>1, AddBoundGood
    <2> HIDE DEF u
    <2>3. Good(u, e) /\ (e.full /\ ~ u.r => ~ t.r /\ Narrowed(t.n, u.n))
        BY <1>4, <2>2, SinceThen
    <2>4. ASSUME e.full, ~ u.r, ~ u.n.conflict PROVE AtLeast(Own(u.n, x, TRUE), Raw(val, FALSE), TRUE)
        <3>1. AtLeast(Own(t.n, x, TRUE), Raw(val, FALSE), TRUE) /\ AtLeast(Own(u.n, x, TRUE), Own(t.n, x, TRUE), TRUE)
            BY <1>3, <1>7, <2>3, <2>4 DEF Narrowed
        <3>2. IsBound(Raw(val, FALSE)) /\ t.n \in Nodes(problem) /\ u.n \in Nodes(problem)
            BY <1>4, <2>3 DEF Raw, IsBound, Good, IsState
        <3> QED
            BY <3>1, <3>2, OwnIs, AtLeastOrder
    <2>5. ASSUME e.full, ~ u.r, ~ u.n.conflict, NEW l \in BOOLEAN PROVE AtLeast(Own(u.n, x, l), Raw(val, FALSE), l)
        <3>1. CASE l = TRUE
            BY <2>4, <2>5, <3>1
        <3>2. CASE l = FALSE
            BY <2>2, <2>5, <3>2
        <3> QED
            BY <3>1, <3>2
    <2> QED
        BY <1>5, <1>7, <2>3, <2>5
<1> QED
    BY <1>6, <1>7

-----------------------------------------------------------------------------
LEMMA PushedBoolIs ==
    ASSUME IsProblem(problem), NEW n \in Nodes(problem), NEW x \in problem.bool, NEW neg \in BOOLEAN
    PROVE  LET v == IF neg THEN "false" ELSE "true"
               w == IF n.bval[x] \in {"undef", v} THEN v ELSE "conflict"
               k == PushedBool(n, x, neg)
           IN  /\ k \in Nodes(problem) /\ \A y, l : Own(k, y, l) = Own(n, y, l)
               /\ k.low = n.low /\ k.upp = n.upp /\ k.up = n.up /\ k.conflict = (w = "conflict")
               /\ \A y \in problem.bool : k.bval[y] = IF y = x THEN w ELSE n.bval[y]
<1> DEFINE v == IF neg THEN "false" ELSE "true"
           w == IF n.bval[x] \in {"undef", v} THEN v ELSE "conflict"
           r == PushedBool(n, x, neg)
<1>1. r = [n EXCEPT !.bval[x] = w, !.conflict = w = "conflict"]
    BY DEF PushedBool
<1>2. w \in {"undef", "true", "false", "conflict"}
    OBVIOUS
<1> HIDE DEF w
<1>3. r \in Nodes(problem)
    <2> DEFINE f == [n.bval EXCEPT ![x] = w]
               c == w = "conflict"
    <2>1. f \in [problem.bool -> {"undef", "true", "false", "conflict"}] /\ c \in BOOLEAN
        BY <1>2 DEF Nodes
    <2>2. r = [n EXCEPT !.bval = f, !.conflict = c]
        BY <1>1
    <2> HIDE DEF f, c
    <2> QED
        BY <2>1, <2>2 DEF Nodes
<1>4. r.low = n.low /\ r.upp = n.upp /\ r.up = n.up /\ r.bval = [n.bval EXCEPT ![x] = w] /\ r.conflict = (w = "conflict")
    BY <1>1 DEF Nodes
<1>5. n.bval = [y \in problem.bool |-> n.bval[y]]
    BY DEF Nodes
<1>6. \A y \in problem.bool : r.bval[y] = IF y = x THEN w ELSE n.bval[y]
    BY <1>4, <1>5
<1>7. \A y, l : Own(r, y, l) = Own(n, y, l)
    BY <1>4 DEF Own
<1> HIDE DEF r
<1> QED
    BY <1>3, <1>4, <1>6, <1>7 DEF w, r

LEMMA AddBoolGood ==
    ASSUME IsProblem(problem), NEW s, NEW e, Good(s, e), NEW x \in problem.bool, NEW neg \in BOOLEAN,
           e.full => ~ s.n.conflict, \A m \in Held(s, e, x) : (m[x] = One) # neg
    PROVE  LET t == AddBool(s, x, neg) IN
           /\ Good(t, e)
           /\ ~ t.n.conflict /\ ~ s.n.conflict => t.n.bval[x] = IF neg THEN "false" ELSE "true"
<1> DEFINE v == IF neg THEN "false" ELSE "true"
           w == IF s.n.bval[x] \in {"undef", v} THEN v ELSE "conflict"
           k == PushedBool(s.n, x, neg)
           q == Append(s.q, [x |-> x, ts |-> s.t])
           t == [s EXCEPT !.n = PushedBool(@, x, neg), !.q = Append(@, [x |-> x, ts |-> s.t]), !.t = @ + 1]
           u == [s EXCEPT !.n = k, !.q = Append(@, [x |-> x, ts |-> s.t]), !.t = @ + 1]
<1>0. v # "conflict" /\ v # "undef"
    OBVIOUS
<1>1. s.n \in Nodes(problem) /\ s.t \in Nat /\ s = [n |-> s.n, q |-> s.q, t |-> s.t, v |-> s.v, r |-> s.r]
    BY DEF Good, IsState
<1>2. x \in problem.vars /\ problem.bool \subseteq problem.vars
    BY DEF IsProblem
<1>3. /\ k \in Nodes(problem) /\ \A y, l : Own(k, y, l) = Own(s.n, y, l)
      /\ k.low = s.n.low /\ k.upp = s.n.upp /\ k.up = s.n.up /\ k.conflict = (w = "conflict")
      /\ \A y \in problem.bool : k.bval[y] = IF y = x THEN w ELSE s.n.bval[y]
    BY <1>1, PushedBoolIs
<1>4. t = u
    OBVIOUS
<1>5. u = [s EXCEPT !.n = k, !.q = q, !.t = @ + 1]
    OBVIOUS
<1> HIDE DEF k, q, t, u
<1>6. u.n = k
    BY <1>1, <1>5
<1>7. ASSUME NEW m, IsPoint(problem, m), InBox(problem, m, s.n), m \in Held(s, e, x)
      PROVE  w = v /\ v = IF m[x] = One THEN "true" ELSE "false"
    <2>1. v = IF m[x] = One THEN "true" ELSE "false"
        BY <1>7
    <2>2. s.n.bval[x] \in {"undef", v}
        BY <1>2, <1>7, <2>1 DEF InBox
    <2> QED
        BY <2>1, <2>2
<1>8. ASSUME NEW m \in e.models PROVE Kept(problem, k, m)
    <2>1. IsPoint(problem, m) /\ Kept(problem, s.n, m) /\ m \in Held(s, e, x)
        BY DEF Good, IsModel, Held
    <2>2. w = v /\ v = IF m[x] = One THEN "true" ELSE "false"
        BY <1>7, <2>1 DEF Kept
    <2> HIDE DEF w, v
    <2>3. InBox(problem, m, k)
        BY <1>3, <2>1, <2>2 DEF InBox, Kept
    <2> QED
        BY <1>0, <1>3, <2>1, <2>2, <2>3 DEF Kept
<1>9. ASSUME NEW m \in Held(s, e, x) PROVE Boxed(k, m, {x})
    <2>1. w = v /\ v = IF m[x] = One THEN "true" ELSE "false"
        BY <1>7, HeldIs
    <2> HIDE DEF w, v
    <2> QED
        BY <1>3, <2>1 DEF Boxed
<1>10. ASSUME e.full PROVE Consistent(k) /\ Narrowed(s.n, k)
    <2>1. Consistent(s.n) /\ ~ s.n.conflict
        BY <1>10 DEF Good, Full
    <2>2. Consistent(k)
        BY <1>3, <2>1 DEF Consistent
    <2>3. \A y \in problem.vars, l \in BOOLEAN : AtLeast(Own(k, y, l), Own(s.n, y, l), l)
        BY <1>1, <1>3, NarrowedSame DEF Narrowed
    <2>4. \A y \in problem.bool : k.bval[y] \in {s.n.bval[y], "conflict"} \/ s.n.bval[y] = "undef"
        BY <1>3
    <2> QED
        BY <1>3, <2>2, <2>3, <2>4 DEF Narrowed
<1>11. \A y \in problem.bool \ {x} : k.bval[y] = s.n.bval[y]
    BY <1>3
<1>12. \A y \in problem.vars \ {x}, l \in BOOLEAN : Own(k, y, l) = Own(s.n, y, l)
    BY <1>3
<1>13. \A l \in BOOLEAN : Own(k, x, l) # Null => Own(k, x, l).ts = s.t \/ Own(k, x, l) = Own(s.n, x, l)
    BY <1>3
<1>14. Good(u, e)
    BY <1>2, <1>3, <1>8, <1>9, <1>10, <1>11, <1>12, <1>13, GrownGood DEF u
<1>15. ~ u.n.conflict => u.n.bval[x] = v
    BY <1>3, <1>6
<1> DEFINE a == AddBool(s, x, neg)
<1>16. a = IF s.n.bval[x] = v THEN s ELSE u
    BY <1>4 DEF AddBool, t
<1> HIDE DEF a, u, v
<1>17. Good(a, e) /\ (~ a.n.conflict /\ ~ s.n.conflict => a.n.bval[x] = v)
    BY <1>14, <1>15, <1>16
<1> QED
    BY <1>17 DEF a, v

(* AtLeast the bound of the atom: the atom is true.                        *)
LEMMA ReachedTrue ==
    ASSUME NEW n \in Nodes(problem), Consistent(n), ~ n.conflict, NEW a, IsAtom(problem, a), a.kind = "ineq",
           AtLeast(Own(n, a.x, a.lower), Raw(a.val, a.open), a.lower)
    PROVE  IneqValue(n, a) = "true"
<1> DEFINE own == Own(n, a.x, a.lower)
           other == Own(n, a.x, ~ a.lower)
           raw == Raw(a.val, a.open)
<1>1. a.x \in problem.vars /\ IsNumber(a.val) /\ a.lower \in BOOLEAN /\ a.open \in BOOLEAN /\ (~ a.lower) \in BOOLEAN
    BY AtomParts
<1>2. ~ Apart(own, other, a.lower)
    BY <1>1, ConsistentApart
<1>3. (own = Null \/ (own # Null /\ IsBound(own))) /\ (other = Null \/ (other # Null /\ IsBound(other)))
    BY <1>1, OwnIs
<1>4. raw # Null /\ IsBound(raw) /\ raw.val = a.val /\ raw.open = a.open
    <2>1. raw \in Bounds /\ raw.val = a.val /\ raw.open = a.open
        BY <1>1 DEF IsNumber, Bounds, Numbers, Raw
    <2> QED
        BY <2>1, BoundNotNull
<1> HIDE DEF own, other, raw
<1>5. own # Null /\ (Less(a.val, own.val, a.lower) \/ (a.val = own.val /\ (a.open => own.open)))
    BY <1>4 DEF AtLeast, own, raw
<1>6. Past(own, a.val, a.lower, ~ a.open)
    BY <1>1, <1>5 DEF Past
<1>7. ~ Past(other, a.val, ~ a.lower, a.open)
    BY <1>1, <1>2, <1>3, <1>6, PastApart
<1> QED
    BY <1>6, <1>7 DEF IneqValue, own, other

LEMMA AssertAtomGood ==
    ASSUME IsProblem(problem), NEW s, NEW e, Good(s, e), NEW a, IsAtom(problem, a),
           e.full => ~ s.n.conflict, \A m \in Held(s, e, a.x) : Holds(m, a)
    PROVE  LET t == AssertAtom(s, a) IN
           /\ Good(t, e)
           /\ e.full /\ ~ t.r /\ ~ t.n.conflict => Value(problem, t.n, a) = "true"
<1> DEFINE t == AssertAtom(s, a)
<1>0. /\ a.lower \in BOOLEAN /\ a.open \in BOOLEAN /\ a.x \in problem.vars /\ IsNumber(a.val)
      /\ a.kind \in {"bool", "eq", "ineq"} /\ (a.x \in problem.bool <=> a.kind = "bool")
      /\ a.kind = "eq" => a.lower = FALSE
    BY AtomParts
<1>1. CASE a.kind = "bool"
    <2>1. t = AddBool(s, a.x, a.lower)
        BY <1>1 DEF AssertAtom
    <2>2. \A m \in Held(s, e, a.x) : (m[a.x] = One) # a.lower
        BY <1>1 DEF Holds
    <2>3. Good(t, e) /\ (~ t.n.conflict /\ ~ s.n.conflict => t.n.bval[a.x] = IF a.lower THEN "false" ELSE "true")
        BY <1>0, <1>1, <2>1, <2>2, AddBoolGood
    <2> HIDE DEF t
    <2>4. ASSUME e.full, ~ t.n.conflict PROVE BoolValue(t.n, a) = "true"
        <3>1. t.n.bval[a.x] = IF a.lower THEN "false" ELSE "true"
            BY <2>3, <2>4
        <3>2. t.n.bval[a.x] # "undef"
            BY <3>1
        <3> QED
            BY <3>1, <3>2 DEF BoolValue
    <2> QED
        BY <1>1, <2>3, <2>4 DEF Value, t
<1>2. CASE a.kind = "eq"
    <2>1. t = AddValue(s, a.x, a.val)
        BY <1>0, <1>2 DEF AssertAtom
    <2>2. \A m \in Held(s, e, a.x) : m[a.x] = a.val
        BY <1>0, <1>2 DEF Holds
    <2>3. /\ Good(t, e)
          /\ e.full /\ ~ t.r /\ ~ t.n.conflict => \A l \in BOOLEAN : AtLeast(Own(t.n, a.x, l), Raw(a.val, FALSE), l)
        <3> DEFINE u == AddValue(s, a.x, a.val)
        <3>1. /\ Good(u, e)
              /\ e.full /\ ~ u.r /\ ~ u.n.conflict => \A l \in BOOLEAN : AtLeast(Own(u.n, a.x, l), Raw(a.val, FALSE), l)
            <4>1. a.x \in problem.vars \ problem.bool
                BY <1>0, <1>2
            <4> HIDE DEF t
            <4>2. e.full => ~ s.n.conflict
                OBVIOUS
            <4>3. Good(s, e) /\ IsNumber(a.val)
                BY <1>0
            <4> QED
                BY <2>2, <4>1, <4>2, <4>3, AddValueGood
        <3>2. t = u
            BY <2>1
        <3> HIDE DEF t, u
        <3> QED
            BY <3>1, <3>2
    <2> HIDE DEF t
    <2>4. ASSUME e.full, ~ t.r, ~ t.n.conflict PROVE EqValue(problem, t.n, a) = "true"
        <3> DEFINE lo == t.n.low[a.x]
                   hi == t.n.upp[a.x]
                   raw == Raw(a.val, FALSE)
        <3>1. t.n \in Nodes(problem) /\ Consistent(t.n)
            BY <2>3, <2>4 DEF Good, Full, IsState
        <3>2. ~ Apart(lo, hi, TRUE) /\ lo = Own(t.n, a.x, TRUE) /\ hi = Own(t.n, a.x, FALSE)
            BY <1>0, <2>4, <3>1, OwnIs DEF Consistent
        <3>3. (lo = Null \/ (lo # Null /\ IsBound(lo))) /\ (hi = Null \/ (hi # Null /\ IsBound(hi)))
            BY <1>0, <3>1, <3>2, OwnIs
        <3>4. raw # Null /\ raw.val = a.val
            <4>1. raw \in Bounds /\ raw.val = a.val
                BY <1>0 DEF IsNumber, Bounds, Numbers, Raw
            <4> QED
                BY <4>1, BoundNotNull
        <3>5. AtLeast(lo, raw, TRUE) /\ AtLeast(hi, raw, FALSE)
            BY <2>3, <2>4, <3>2
        <3> HIDE DEF lo, hi, raw
        <3>6. lo # Null /\ hi # Null /\ IsNumber(lo.val) /\ IsNumber(hi.val)
            BY <3>3, <3>4, <3>5 DEF AtLeast, IsBound
        <3>7. (Lt(a.val, lo.val) \/ lo.val = a.val) /\ (Lt(hi.val, a.val) \/ hi.val = a.val)
            BY <3>4, <3>5, <3>6 DEF AtLeast, Less
        <3>8. ~ Lt(hi.val, lo.val)
            <4>1. (~ TRUE) = FALSE
                OBVIOUS
            <4> QED
                BY <3>2, <3>6, <4>1 DEF Apart, Past, Less
        <3>9. lo.val = a.val /\ hi.val = a.val
            BY <1>0, <3>6, <3>7, <3>8, LtOrder, LtTransitive
        <3> QED
            BY <1>2, <2>4, <3>1, <3>6, <3>9, EqIs DEF lo, hi
    <2> QED
        BY <1>2, <2>3, <2>4 DEF Value, t
<1>3. CASE a.kind = "ineq"
    <2>1. t = AddBound(s, a.x, a.val, a.lower, a.open)
        BY <1>3 DEF AssertAtom
    <2>2. \A m \in Held(s, e, a.x) : Meets([val |-> a.val, lower |-> a.lower, open |-> a.open], m[a.x])
        BY <1>3 DEF Holds, Meets
    <2>3. /\ Good(t, e)
          /\ e.full /\ ~ t.r /\ ~ t.n.conflict => AtLeast(Own(t.n, a.x, a.lower), Raw(a.val, a.open), a.lower)
        BY <1>0, <1>3, <2>1, <2>2, AddBoundGood
    <2> HIDE DEF t
    <2>4. ASSUME e.full, ~ t.r, ~ t.n.conflict PROVE IneqValue(t.n, a) = "true"
        <3>1. t.n \in Nodes(problem) /\ Consistent(t.n)
            BY <2>3, <2>4 DEF Good, Full, IsState
        <3> QED
            BY <1>3, <2>3, <2>4, <3>1, ReachedTrue
    <2> QED
        BY <1>3, <2>3, <2>4 DEF Value, t
<1> QED
    BY <1>0, <1>1, <1>2, <1>3

-----------------------------------------------------------------------------
(* The bounds of an interval.                                              *)
LEMMA DeduceEndGood ==
    ASSUME IsProblem(problem), NEW s, NEW e, Good(s, e), NEW y \in problem.vars \ problem.bool,
           NEW lower \in BOOLEAN, NEW d, IsEnd(d, lower), \A m \in Held(s, e, y) : Admits(d, lower, m[y])
    PROVE  Good(DeduceEnd(s, y, d, lower), e)
<1>1. CASE s.n.conflict \/ d.inf # 0
    BY <1>1 DEF DeduceEnd
<1>2. CASE ~ s.n.conflict /\ d.inf = 0
    <2>1. \A m \in Held(s, e, y) : Meets([val |-> d.val, lower |-> lower, open |-> d.open], m[y])
        BY <1>2 DEF Admits
    <2>2. Good(AddBound(s, y, d.val, lower, d.open), e)
        BY <1>2, <2>1, AddBoundGood DEF IsEnd
    <2> QED
        BY <2>2 DEF DeduceEnd
<1> QED
    BY <1>1, <1>2

LEMMA DeduceGood ==
    ASSUME IsProblem(problem), NEW s, NEW e, Good(s, e), NEW y \in problem.vars \ problem.bool,
           NEW r, IsInterval(r), \A m \in Held(s, e, y) : Spans(r, m[y])
    PROVE  Good(Deduce(s, y, r), e)
<1> DEFINE t == DeduceEnd(s, y, r.lo, TRUE)
<1>1. Good(s, Since(e, s)) /\ \A x : Held(s, Since(e, s), x) = Held(s, e, x)
    BY SinceGood
<1>2. Good(t, Since(e, s))
    BY <1>1, DeduceEndGood DEF IsInterval, Spans
<1> HIDE DEF t
<1>3. Good(t, e) /\ Held(t, e, y) \subseteq Held(s, e, y)
    BY <1>2, SinceThen
<1>4. Good(DeduceEnd(t, y, r.up, FALSE), e)
    BY <1>3, DeduceEndGood DEF IsInterval, Spans
<1> QED
    BY <1>4 DEF Deduce, t

-----------------------------------------------------------------------------
(* Clauses.                                                                *)
Derived(s, a) == [s EXCEPT !.n.up = Append(@, a)]

LEMMA UpIs ==
    ASSUME IsProblem(problem), NEW s, IsState(s), NEW c \in ToSet(problem.clauses), NEW a \in ToSet(c),
           NEW t, t = Derived(s, a)
    PROVE  /\ IsState(t) /\ t.n.low = s.n.low /\ t.n.upp = s.n.upp /\ t.n.bval = s.n.bval
           /\ t.n.conflict = s.n.conflict /\ ToSet(t.n.up) = ToSet(s.n.up) \cup {a}
           /\ t.q = s.q /\ t.t = s.t /\ t.v = s.v /\ t.r = s.r
<1> DEFINE k == [s.n EXCEPT !.up = Append(@, a)]
           S == UNION {ToSet(d) : d \in ToSet(problem.clauses)}
<1>0. s.n \in Nodes(problem) /\ s.t \in Nat /\ s = [n |-> s.n, q |-> s.q, t |-> s.t, v |-> s.v, r |-> s.r]
    BY DEF IsState
<1>1. t = [s EXCEPT !.n = k]
    BY <1>0 DEF Derived
<1>2. a \in S
    OBVIOUS
<1> HIDE DEF S
<1>3. s.n.up \in Seq(S)
    BY <1>0 DEF Nodes, S
<1> DEFINE u == Append(s.n.up, a)
<1>4. u \in Seq(S) /\ ToSet(u) = ToSet(s.n.up) \cup {a}
    BY <1>2, <1>3, AppendSet
<1>5. k = [s.n EXCEPT !.up = u]
    OBVIOUS
<1> HIDE DEF u
<1>6. k \in Nodes(problem) /\ k.low = s.n.low /\ k.upp = s.n.upp /\ k.bval = s.n.bval /\ k.conflict = s.n.conflict /\ k.up = u
    BY <1>0, <1>4, <1>5 DEF Nodes, S
<1> HIDE DEF k
<1>7. /\ t = [n |-> t.n, q |-> t.q, t |-> t.t, v |-> t.v, r |-> t.r]
      /\ t.n = k /\ t.t = s.t /\ t.q = s.q /\ t.v = s.v /\ t.r = s.r
    BY <1>0, <1>1
<1> QED
    BY <1>0, <1>4, <1>6, <1>7 DEF IsState

LEMMA UpGood ==
    ASSUME IsProblem(problem), NEW s, NEW e, Good(s, e),
           NEW c \in ToSet(problem.clauses), NEW a \in ToSet(c), \A m \in e.models : Holds(m, a),
           NEW t, t = Derived(s, a)
    PROVE  Good(t, e)
<1>0. IsState(s)
    BY DEF Good
<1>1. /\ IsState(t) /\ t.n.low = s.n.low /\ t.n.upp = s.n.upp /\ t.n.bval = s.n.bval
      /\ t.n.conflict = s.n.conflict /\ ToSet(t.n.up) = ToSet(s.n.up) \cup {a}
      /\ t.q = s.q /\ t.t = s.t /\ t.v = s.v /\ t.r = s.r
    BY <1>0, UpIs
<1>2. s.n \in Nodes(problem) /\ t.n \in Nodes(problem) /\ s.t \in Nat
    BY <1>0, <1>1 DEF IsState
<1>3. \A y, l : Own(t.n, y, l) = Own(s.n, y, l)
    BY <1>1 DEF Own
<1>4. ASSUME NEW m \in e.models PROVE Kept(problem, t.n, m)
    BY <1>1, <1>3 DEF Good, Kept, InBox
<1>5. ASSUME e.full PROVE Full(t, e)
    <2>1. Full(s, e)
        BY <1>5 DEF Good
    <2>2. Consistent(t.n)
        BY <1>1, <2>1 DEF Full, Consistent
    <2>3. Timed(t)
        BY <1>1, <1>3, <2>1 DEF Full, Timed, Latest
    <2>4. ASSUME ~ t.r PROVE Exact(t, e)
        <3>1. Exact(s, e)
            BY <1>1, <2>1, <2>4 DEF Full
        <3>2. Narrowed(e.from, t.n)
            BY <1>1, <1>3, <3>1 DEF Exact, Narrowed
        <3>3. Back(t, e)
            <4>1. \A m : Claimed(t.n, m) => Claimed(s.n, m)
                BY <1>1 DEF Claimed
            <4>2. \A m, V : Boxed(t.n, m, V) <=> Boxed(s.n, m, V)
                BY <1>1, <1>3 DEF Boxed
            <4> QED
                BY <1>1, <3>1, <4>1, <4>2 DEF Exact, Back
        <3>4. e.strict /\ ~ t.n.conflict => Tracked(t, e)
            <4>1. ASSUME NEW i \in DOMAIN problem.clauses, ClauseDone(s.n, problem.clauses[i])
                  PROVE  ClauseDone(t.n, problem.clauses[i])
                <5>1. \A b \in ToSet(problem.clauses[i]) : IsAtom(problem, b)
                    BY ClauseParts DEF ToSet
                <5>2. \A b \in ToSet(problem.clauses[i]) : Value(problem, s.n, b) = Value(problem, t.n, b)
                    BY <1>1, <5>1, ValueSame
                <5> QED
                    BY <4>1, <5>2, DoneSame
            <4>2. \A i : Queued(s, i) => Queued(t, i)
                BY <1>1, <1>3 DEF Queued, Latest
            <4> QED
                BY <1>1, <3>1, <4>1, <4>2 DEF Exact, Tracked
        <3> QED
            BY <3>2, <3>3, <3>4 DEF Exact
    <2> QED
        BY <1>1, <2>1, <2>2, <2>3, <2>4 DEF Full
<1> QED
    BY <1>1, <1>4, <1>5 DEF Good

LEMMA VisitedIs ==
    ASSUME NEW s, IsState(s), NEW c
    PROVE  LET t == Visited(s, c) IN
           t = [n |-> t.n, q |-> t.q, t |-> t.t, v |-> t.v, r |-> t.r] /\ t.n = s.n /\ t.t = s.t /\ t.q = s.q /\ t.r = s.r
           /\ t.v = [s.v EXCEPT ![c] = s.t]
BY DEF IsState, Visited

LEMMA VisitedGood ==
    ASSUME IsProblem(problem), NEW s, NEW e, Good(s, e), NEW i \in DOMAIN problem.clauses,
           e.full /\ ~ s.r /\ ~ s.n.conflict => ClauseDone(s.n, problem.clauses[i])
    PROVE  Good(Visited(s, Cl(i)), Closed(e, i))
<1> DEFINE t == Visited(s, Cl(i))
           f == Closed(e, i)
<1>1. t = [n |-> t.n, q |-> t.q, t |-> t.t, v |-> t.v, r |-> t.r] /\ t.n = s.n /\ t.t = s.t /\ t.q = s.q /\ t.r = s.r
      /\ t.v = [s.v EXCEPT ![Cl(i)] = s.t]
    BY VisitedIs DEF Good
<1>2. /\ f.models = e.models /\ f.points = e.points /\ f.from = e.from /\ f.clock = e.clock /\ f.relaxed = e.relaxed
      /\ f.full = e.full /\ f.strict = e.strict /\ f.open = e.open \ {i} /\ f.since = e.since
    BY DEF Closed
<1> HIDE DEF t, f
<1>3. s.t \in Nat
    BY DEF Good, IsState
<1>4. ASSUME e.full PROVE Full(t, f)
    <2>1. Full(s, e)
        BY <1>4 DEF Good
    <2> DEFINE c == Cl(i)
    <2>0. t.v = [s.v EXCEPT ![c] = s.t]
        BY <1>1
    <2>6. c \in Constraints
        BY DEF Cl, Constraints
    <2> HIDE DEF c
    <2>2. s.v \in [Constraints -> 0 .. s.t] /\ t.v \in [Constraints -> 0 .. s.t]
        BY <1>3, <2>0, <2>1, <2>6 DEF Full, Timed
    <2>3. \A j \in DOMAIN problem.clauses : j # i => t.v[Cl(j)] = s.v[Cl(j)]
        <3>1. \A j \in DOMAIN problem.clauses : j # i => Cl(j) # Cl(i)
            BY DEF Cl
        <3> QED
            BY <1>1, <2>2, <3>1 DEF Cl, Constraints
    <2>4. Timed(t)
        BY <1>1, <2>1, <2>2 DEF Full, Timed
    <2>5. ASSUME ~ t.r PROVE Exact(t, f)
        <3>1. Exact(s, e)
            BY <1>1, <2>1, <2>5 DEF Full
        <3>2. ASSUME e.strict, ~ t.n.conflict PROVE Tracked(t, f)
            <4>1. Tracked(s, e)
                BY <1>1, <3>1, <3>2 DEF Exact
            <4>2. ASSUME NEW j \in DOMAIN problem.clauses, j # i, ~ ClauseDone(t.n, problem.clauses[j])
                  PROVE  Queued(t, j) \/ (j \in f.open /\ t.v[Cl(j)] <= f.since)
                BY <1>1, <1>2, <2>3, <4>1, <4>2 DEF Tracked, Queued
            <4> QED
                BY <1>1, <1>4, <2>5, <3>2, <4>2 DEF Tracked
        <3> QED
            BY <1>1, <1>2, <3>1, <3>2 DEF Exact, Back
    <2> QED
        BY <1>1, <1>2, <2>1, <2>4, <2>5 DEF Full
<1>5. Good(t, f)
    BY <1>1, <1>2, <1>4 DEF Good, IsState
<1> QED
    BY <1>5 DEF t, f

LEMMA VisitedDefGood ==
    ASSUME NEW s, NEW e, Good(s, e), NEW c, c \in Constraints, c.def
    PROVE  Good(Visited(s, c), e) /\ Visited(s, c).n = s.n /\ Visited(s, c).r = s.r
<1> DEFINE t == Visited(s, c)
<1>1. t = [n |-> t.n, q |-> t.q, t |-> t.t, v |-> t.v, r |-> t.r] /\ t.n = s.n /\ t.t = s.t /\ t.q = s.q /\ t.r = s.r
      /\ t.v = [s.v EXCEPT ![c] = s.t]
    BY VisitedIs DEF Good
<1> HIDE DEF t
<1>2. s.t \in Nat
    BY DEF Good, IsState
<1>3. ASSUME e.full PROVE Full(t, e)
    <2>1. Full(s, e)
        BY <1>3 DEF Good
    <2>2. s.v \in [Constraints -> 0 .. s.t] /\ t.v \in [Constraints -> 0 .. s.t]
        BY <1>1, <1>2, <2>1 DEF Full, Timed
    <2>3. \A j \in DOMAIN problem.clauses : t.v[Cl(j)] = s.v[Cl(j)]
        <3>1. \A j \in DOMAIN problem.clauses : Cl(j) # c
            BY DEF Cl
        <3> QED
            BY <1>1, <2>2, <3>1 DEF Cl, Constraints
    <2>4. Timed(t)
        BY <1>1, <2>1, <2>2 DEF Full, Timed
    <2>5. ASSUME ~ t.r PROVE Exact(t, e)
        <3>1. Exact(s, e)
            BY <1>1, <2>1, <2>5 DEF Full
        <3>2. Tracked(s, e) => Tracked(t, e)
            BY <1>1, <2>3 DEF Tracked, Queued
        <3> QED
            BY <1>1, <3>1, <3>2 DEF Exact, Back
    <2> QED
        BY <1>1, <2>1, <2>4, <2>5 DEF Full
<1>4. Good(t, e)
    BY <1>1, <1>3 DEF Good, IsState
<1> QED
    BY <1>1, <1>4 DEF t

LEMMA AtMostOne ==
    ASSUME NEW n \in Nat, NEW D \in SUBSET (1 .. n), ~ Cardinality(D) > 1
    PROVE  \A i \in D, j \in D : i = j
<1>1. IsFiniteSet(D)
    <2>1. IsFiniteSet(1 .. n)
        BY FS_Interval
    <2> QED
        BY <2>1, FS_Subset
<1>2. SUFFICES ASSUME NEW i \in D, NEW j \in D, i # j PROVE FALSE
    OBVIOUS
<1>3. IsFiniteSet({i}) /\ Cardinality({i}) = 1
    BY FS_Singleton
<1>4. IsFiniteSet({i} \cup {j}) /\ Cardinality({i} \cup {j}) = 2
    BY <1>2, <1>3, FS_AddElement
<1>5. Cardinality({i} \cup {j}) <= Cardinality(D) /\ Cardinality(D) \in Nat
    <2>1. {i} \cup {j} \in SUBSET D
        OBVIOUS
    <2> QED
        BY <1>1, <2>1, FS_Subset, FS_CardinalityType
<1> QED
    BY <1>2, <1>4, <1>5

(* Unit propagation: when all atoms of a clause but one are false in the   *)
(* box, every model of the box satisfies that one; when all of them are,   *)
(* the box becomes empty.  Either way the clause is done.                  *)
LEMMA PropagateClauseGood ==
    ASSUME IsProblem(problem), NEW s, NEW e, Good(s, e), NEW k \in DOMAIN problem.clauses, e.full => ~ s.n.conflict
    PROVE  Good(PropagateClause(s, Cl(k)), Closed(e, k))
<1> DEFINE c == Cl(k)
           atoms == problem.clauses[k]
           undef == {i \in DOMAIN atoms : Value(problem, s.n, atoms[i]) = "undef"}
           j == IF undef = {} THEN 1 ELSE CHOOSE i \in undef : TRUE
           s1 == IF undef = {} THEN s ELSE [s EXCEPT !.n.up = Append(@, atoms[j])]
           skip == (\E i \in DOMAIN atoms : Value(problem, s.n, atoms[i]) = "true") \/ Cardinality(undef) > 1
           t == AssertAtom(s1, atoms[j])
<1>0. c.id = k
    BY DEF Cl
<1>1. PropagateClause(s, c) = IF skip THEN Visited(s, c) ELSE Visited(t, c)
    BY <1>0 DEF PropagateClause
<1>2. CASE skip
    <2>1. ClauseDone(s.n, problem.clauses[k])
        BY <1>2 DEF ClauseDone
    <2> HIDE DEF skip
    <2>2. PropagateClause(s, c) = Visited(s, c)
        BY <1>1, <1>2
    <2> QED
        BY <2>1, <2>2, VisitedGood
<1>3. CASE ~ skip
    <2>1. /\ atoms \in ToSet(problem.clauses) /\ Len(atoms) \in Nat /\ DOMAIN atoms = 1 .. Len(atoms) /\ Len(atoms) > 1
          /\ \A i \in DOMAIN atoms : atoms[i] \in ToSet(atoms) /\ IsAtom(problem, atoms[i])
        BY ClauseParts
    <2>2. undef \in SUBSET (1 .. Len(atoms)) /\ ~ Cardinality(undef) > 1
        BY <1>3, <2>1
    <2>3. \A i \in DOMAIN atoms : Value(problem, s.n, atoms[i]) # "true"
        BY <1>3
    <2>4. \A i \in DOMAIN atoms : i \in undef <=> Value(problem, s.n, atoms[i]) = "undef"
        OBVIOUS
    <2>5. ASSUME NEW m \in e.models PROVE \E i \in undef : Holds(m, atoms[i])
        <3>1. IsModel(problem, m) /\ InBox(problem, m, s.n) /\ s.n \in Nodes(problem) /\ IsPoint(problem, m)
            BY DEF Good, IsState, Kept, IsModel
        <3>2. PICK a \in ToSet(atoms) : Holds(m, a)
            BY <2>1, <3>1 DEF IsModel
        <3>3. PICK i \in DOMAIN atoms : a = atoms[i]
            BY <3>2 DEF ToSet
        <3>4. Value(problem, s.n, atoms[i]) = "undef"
            BY <2>1, <2>3, <3>1, <3>2, <3>3, ValueSound
        <3> QED
            BY <3>2, <3>3, <3>4
    <2>9. PropagateClause(s, c) = Visited(t, c)
        BY <1>1, <1>3
    <2> HIDE DEF skip
    <2>6. undef \subseteq DOMAIN atoms
        OBVIOUS
    <2>7. ASSUME ClauseDone(t.n, problem.clauses[k]) \/ ~ (e.full /\ ~ t.r /\ ~ t.n.conflict), Good(t, e)
          PROVE  Good(PropagateClause(s, c), Closed(e, k))
        <3> HIDE DEF t, atoms, undef, j, s1
        <3>1. Good(Visited(t, Cl(k)), Closed(e, k))
            BY <2>7, VisitedGood
        <3> QED
            BY <2>9, <3>1
    <2> SUFFICES (ClauseDone(t.n, problem.clauses[k]) \/ ~ (e.full /\ ~ t.r /\ ~ t.n.conflict)) /\ Good(t, e)
        BY <2>7
    <2>10. ASSUME NEW n, NEW i \in DOMAIN atoms, Value(problem, n, atoms[i]) = "true" PROVE ClauseDone(n, problem.clauses[k])
        BY <2>10 DEF ClauseDone
    <2> HIDE DEF atoms, undef
    <2>8. j \in DOMAIN atoms /\ (undef # {} => j \in undef)
        BY <2>1, <2>6
    <2>11. atoms[j] \in ToSet(atoms) /\ IsAtom(problem, atoms[j])
        BY <2>1, <2>8
    <2>12. CASE undef # {}
        <3>1. \A m \in e.models : Holds(m, atoms[j])
            BY <2>1, <2>2, <2>5, <2>8, AtMostOne
        <3> DEFINE r == [s EXCEPT !.n.up = Append(@, atoms[j])]
        <3>2. s1 = r
            BY <2>12
        <3> HIDE DEF j, s1
        <3>3. /\ Good(r, e) /\ r.n.conflict = s.n.conflict /\ ToSet(r.n.up) = ToSet(s.n.up) \cup {atoms[j]}
            <4> DEFINE a == atoms[j]
            <4>1. a \in ToSet(atoms) /\ \A m \in e.models : Holds(m, a)
                BY <2>11, <3>1
            <4>2. r = Derived(s, a)
                BY DEF Derived
            <4> HIDE DEF a, r
            <4>3. Good(r, e)
                BY <2>1, <4>1, <4>2, UpGood
            <4>4. r.n.conflict = s.n.conflict /\ ToSet(r.n.up) = ToSet(s.n.up) \cup {a}
                BY <2>1, <4>1, <4>2, UpIs DEF Good
            <4> QED
                BY <4>3, <4>4 DEF a
        <3> HIDE DEF r
        <3>4. ASSUME NEW m \in Held(r, e, atoms[j].x) PROVE Holds(m, atoms[j])
            <4>1. CASE m \in e.models
                BY <3>1, <4>1
            <4>2. CASE m \notin e.models
                BY <3>3, <4>2 DEF Held, Claimed
            <4> QED
                BY <4>1, <4>2
        <3>5. t = AssertAtom(r, atoms[j])
            BY <3>2
        <3> HIDE DEF t
        <3>6. Good(t, e) /\ (e.full /\ ~ t.r /\ ~ t.n.conflict => Value(problem, t.n, atoms[j]) = "true")
            BY <2>11, <3>3, <3>4, <3>5, AssertAtomGood
        <3>7. j \in DOMAIN atoms
            BY <2>8
        <3> QED
            BY <2>10, <3>6, <3>7
    <2>13. CASE undef = {}
        <3>1. e.models = {}
            BY <2>5, <2>13
        <3>2. t = AssertAtom(s, atoms[j])
            BY <2>13
        <3> HIDE DEF j, s1, t
        <3> DEFINE f == Since(Bare(e), s)
        <3>3. Good(s, Bare(e)) /\ \A x : Held(s, Bare(e), x) = {}
            BY BareGood
        <3>4. Good(s, f) /\ (f.full <=> e.full) /\ (\A x : Held(s, f, x) = {})
            BY <3>3, SinceGood DEF Since, Bare
        <3> HIDE DEF f
        <3>5. Good(t, f) /\ (e.full /\ ~ t.r /\ ~ t.n.conflict => Value(problem, t.n, atoms[j]) = "true")
            BY <2>11, <3>2, <3>4, AssertAtomGood
        <3>6. Good(t, Bare(e)) /\ (e.full /\ ~ t.r => Narrowed(s.n, t.n))
            BY <3>3, <3>5, SinceThen DEF f, Bare
        <3>7. ASSUME e.full, ~ t.r, ~ t.n.conflict PROVE FALSE
            <4>1. j \in DOMAIN atoms /\ Value(problem, s.n, atoms[j]) # "true" /\ Value(problem, s.n, atoms[j]) # "undef"
                BY <2>3, <2>4, <2>8, <2>13
            <4>2. s.n \in Nodes(problem) /\ t.n \in Nodes(problem)
                BY <3>6 DEF Good, IsState
            <4>3. Consistent(s.n) /\ Consistent(t.n)
                BY <3>6, <3>7 DEF Good, Full, Bare
            <4>4. Value(problem, t.n, atoms[j]) = Value(problem, s.n, atoms[j])
                BY <2>11, <3>6, <3>7, <4>1, <4>2, <4>3, ValueStays
            <4> QED
                BY <3>5, <3>7, <4>1, <4>4
        <3>8. e.full => Full(t, e)
            <4>1. ASSUME e.full PROVE Full(t, e)
                <5>1. Full(t, Bare(e)) /\ Full(s, e)
                    BY <3>6, <4>1 DEF Good, Bare
                <5>2. ~ t.r => Exact(t, e)
                    BY <3>7, <4>1, <5>1 DEF Full, Exact, Back, Bare
                <5> QED
                    BY <5>1, <5>2 DEF Full, Bare
            <4> QED
                BY <4>1
        <3>9. Good(t, e)
            BY <3>1, <3>6, <3>8 DEF Good
        <3> QED
            BY <3>7, <3>9
    <2> QED
        BY <2>12, <2>13
<1> QED
    BY <1>2, <1>3

-----------------------------------------------------------------------------
(* Sums: the arithmetic that isolates a summand, and the folds of a sum.   *)

LEMMA MinusPlus ==
    ASSUME NEW v, NEW t, NEW u, IsNumber(v), IsNumber(t), IsNumber(u)
    PROVE  /\ IsNumber(Plus(v, t)) /\ IsNumber(Minus(v, t)) /\ IsNumber(Opposite(t))
           /\ Minus(Plus(v, t), t) = v /\ Minus(v, Minus(v, t)) = t
           /\ Plus(Minus(v, t), u) = Minus(Plus(v, u), t)
           /\ Plus(Zero, v) = v /\ Times(Whole(-1), t) = Opposite(t)
<1>1. PICK K \in Nat \ {0} : \E i \in Int, j \in Int, k \in Int, l \in Int :
               At(v, K, i) /\ At(t, K, j) /\ At(u, K, k) /\ At(u, K, l)
    BY Denominator
<1>2. PICK i \in Int, j \in Int, k \in Int : At(v, K, i) /\ At(t, K, j) /\ At(u, K, k)
    BY <1>1
<1>3. \A a, b : IsNumber(a) /\ IsNumber(b) => \A x \in Int, y \in Int :
          At(a, K, x) /\ At(b, K, y) =>
              /\ IsNumber(Plus(a, b)) /\ At(Plus(a, b), K, x + y)
              /\ IsNumber(Opposite(b)) /\ At(Opposite(b), K, -y)
              /\ IsNumber(Minus(a, b)) /\ At(Minus(a, b), K, x - y)
              /\ (x = y => a = b)
    <2> SUFFICES ASSUME NEW a, NEW b, IsNumber(a), IsNumber(b), NEW x \in Int, NEW y \in Int,
                        At(a, K, x), At(b, K, y)
                 PROVE  /\ IsNumber(Plus(a, b)) /\ At(Plus(a, b), K, x + y)
                        /\ IsNumber(Opposite(b)) /\ At(Opposite(b), K, -y)
                        /\ IsNumber(Minus(a, b)) /\ At(Minus(a, b), K, x - y)
                        /\ (x = y => a = b)
        OBVIOUS
    <2>1. IsNumber(Plus(a, b)) /\ At(Plus(a, b), K, x + y)
        BY PlusAt
    <2>2. IsNumber(Opposite(b)) /\ At(Opposite(b), K, -y)
        BY OppositeAt
    <2>3. -y \in Int /\ x + (-y) = x - y
        OBVIOUS
    <2>4. IsNumber(Minus(a, b)) /\ At(Minus(a, b), K, x + (-y))
        BY <2>2, <2>3, PlusAt DEF Minus
    <2>5. x = y => a = b
        BY AtCompare
    <2> QED
        BY <2>1, <2>2, <2>3, <2>4, <2>5
<1>0. ASSUME NEW a, NEW b, IsNumber(a), IsNumber(b), NEW x \in Int, At(a, K, x), At(b, K, x) PROVE a = b
    BY <1>0, AtCompare
<1> DEFINE p == Plus(v, t)
           n == Minus(v, t)
           q == Plus(v, u)
<1>4. IsNumber(p) /\ At(p, K, i + j) /\ i + j \in Int
    BY <1>2, <1>3
<1>5. IsNumber(n) /\ At(n, K, i - j) /\ i - j \in Int
    BY <1>2, <1>3
<1>6. IsNumber(q) /\ At(q, K, i + k) /\ i + k \in Int
    BY <1>2, <1>3
<1> HIDE DEF p, n, q
<1>7. Minus(p, t) = v
    <2>1. IsNumber(Minus(p, t)) /\ At(Minus(p, t), K, (i + j) - j)
        BY <1>2, <1>3, <1>4
    <2>2. (i + j) - j = i
        OBVIOUS
    <2>3. At(Minus(p, t), K, i)
        BY <2>1, <2>2
    <2> QED
        BY <1>0, <1>2, <2>1, <2>3
<1>8. Minus(v, n) = t
    <2>1. IsNumber(Minus(v, n)) /\ At(Minus(v, n), K, i - (i - j))
        BY <1>2, <1>3, <1>5
    <2>2. i - (i - j) = j
        OBVIOUS
    <2>3. At(Minus(v, n), K, j)
        BY <2>1, <2>2
    <2> QED
        BY <1>0, <1>2, <2>1, <2>3
<1>9. Plus(n, u) = Minus(q, t)
    <2>1. IsNumber(Plus(n, u)) /\ At(Plus(n, u), K, (i - j) + k)
        BY <1>2, <1>3, <1>5
    <2>2. IsNumber(Minus(q, t)) /\ At(Minus(q, t), K, (i + k) - j)
        BY <1>2, <1>3, <1>6
    <2>3. (i - j) + k = (i + k) - j /\ (i - j) + k \in Int
        OBVIOUS
    <2>4. At(Minus(q, t), K, (i - j) + k)
        BY <2>2, <2>3
    <2> QED
        BY <1>0, <2>1, <2>2, <2>3, <2>4
<1>10. Plus(Zero, v) = v
    <2>1. IsNumber(Zero) /\ At(Zero, K, 0)
        BY ZeroOne, ZeroAt
    <2>2. IsNumber(Plus(Zero, v)) /\ At(Plus(Zero, v), K, 0 + i)
        BY <1>2, <1>3, <2>1
    <2>3. 0 + i = i
        OBVIOUS
    <2>4. At(Plus(Zero, v), K, i)
        BY <2>2, <2>3
    <2> QED
        BY <1>0, <1>2, <2>2, <2>4
<1>11. Times(Whole(-1), t) = Opposite(t)
    <2>1. IsNumber(Whole(-1)) /\ At(Whole(-1), 1, -1)
        <3>1. At(Whole(-1), 1, (-1) * 1) /\ IsNumber(Whole(-1))
            BY WholeNumber
        <3>2. (-1) * 1 = -1
            OBVIOUS
        <3> QED
            BY <3>1, <3>2
    <2>2. IsNumber(Times(Whole(-1), t)) /\ At(Times(Whole(-1), t), 1 * K, (-1) * j)
        BY <1>2, <2>1, TimesAt
    <2>3. 1 * K = K /\ (-1) * j = -j /\ -j \in Int
        OBVIOUS
    <2>4. At(Times(Whole(-1), t), K, -j)
        BY <2>2, <2>3
    <2>5. IsNumber(Opposite(t)) /\ At(Opposite(t), K, -j)
        BY <1>2, <1>3
    <2> QED
        BY <1>0, <2>2, <2>3, <2>4, <2>5
<1> QED
    BY <1>2, <1>3, <1>4, <1>5, <1>7, <1>8, <1>9, <1>10, <1>11 DEF p, n, q

LEMMA TimesInverse ==
    ASSUME NEW a, IsNumber(a), a # Zero, NEW y, IsNumber(y)
    PROVE  /\ IsNumber(Reciprocal(a)) /\ Reciprocal(a) # Zero
           /\ Times(Reciprocal(a), Times(a, y)) = y
<1> DEFINE p == a[1]
           q == a[2]
           L == IF p > 0 THEN p ELSE -p
           j == IF p > 0 THEN q ELSE -q
           r == Reciprocal(a)
<1>1. p \in Int /\ q \in Nat \ {0} /\ a = <<p, q>>
    BY Parts
<1>2. p # 0
    <2>1. ASSUME p = 0 PROVE FALSE
        <3>1. At(a, 1, 0)
            BY <1>1, <2>1 DEF At
        <3>2. At(Zero, 1, 0)
            BY ZeroAt
        <3> QED
            BY <3>1, <3>2, ZeroOne, AtCompare
    <2> QED
        BY <2>1
<1>3. r = Ratio(q, p)
    BY DEF Reciprocal
<1> HIDE DEF p, q, r
<1>4. L \in Nat \ {0} /\ j \in Int /\ j # 0 /\ q * L = j * p
    <2>1. CASE p > 0
        BY <1>1, <2>1
    <2>2. CASE ~ p > 0
        BY <1>1, <1>2, <2>2
    <2> QED
        BY <2>1, <2>2
<1> HIDE DEF L, j
<1>5. IsNumber(r) /\ At(r, L, j)
    BY <1>1, <1>2, <1>3, <1>4, RatioAt
<1>6. r # Zero
    <2>1. IsNumber(Zero) /\ At(Zero, L, 0)
        BY <1>4, ZeroOne, ZeroAt
    <2> QED
        BY <1>4, <1>5, <2>1, AtCompare
<1>7. At(a, q, p)
    BY <1>1 DEF At, p, q
<1>8. PICK Y \in Nat \ {0}, i \in Int : At(y, Y, i)
    BY Parts DEF At
<1>9. IsNumber(Times(a, y)) /\ At(Times(a, y), q * Y, p * i)
    BY <1>1, <1>7, <1>8, TimesAt
<1>10. q * Y \in Nat \ {0} /\ p * i \in Int
    BY <1>1, <1>8
<1>11. IsNumber(Times(r, Times(a, y))) /\ At(Times(r, Times(a, y)), L * (q * Y), j * (p * i))
    BY <1>4, <1>5, <1>9, <1>10, TimesAt
<1>12. At(y, L * (q * Y), j * (p * i))
    <2>1. y[1] \in Int /\ y[2] \in Int /\ y[1] * Y = i * y[2]
        BY <1>8, Parts DEF At
    <2>2. y[1] * (L * (q * Y)) = (y[1] * Y) * (q * L)
        BY <1>1, <1>4, <1>8, <2>1
    <2>3. (j * (p * i)) * y[2] = (i * y[2]) * (j * p)
        BY <1>1, <1>4, <1>8, <2>1
    <2>4. (y[1] * Y) * (q * L) = (i * y[2]) * (j * p)
        BY <1>4, <2>1
    <2> QED
        BY <2>2, <2>3, <2>4 DEF At
<1>13. L * (q * Y) \in Nat \ {0} /\ j * (p * i) \in Int
    <2>1. \A x \in Nat \ {0}, z \in Nat \ {0} : x * z \in Nat \ {0}
        OBVIOUS
    <2> QED
        BY <1>1, <1>4, <1>8, <1>10, <2>1
<1>14. Times(r, Times(a, y)) = y
    BY <1>11, <1>12, <1>13, AtCompare
<1> QED
    BY <1>5, <1>6, <1>14 DEF r

-----------------------------------------------------------------------------
(* The interval of a sum contains the value of the sum at every point of   *)
(* the box, with or without one of its summands.                           *)
IsSum(p, d) ==
    /\ d.xs \in Seq(p.vars \ p.bool) /\ d.kind = "polynomial"
    /\ \A i \in DOMAIN d.xs : IsNumber(d.as[i]) /\ d.as[i] # Zero
SumProblem(p) == IsProblem(p) /\ \A x \in DOMAIN p.defs : IsSum(p, p.defs[x])

LEMMA Range1Contains ==
    ASSUME NEW n \in Nodes(problem), NEW x \in problem.vars \ problem.bool
    PROVE  /\ IsInterval(Range1(n, x))
           /\ \A m : InBox(problem, m, n) => Spans(Range1(n, x), m[x])
<1> DEFINE lo == IF n.low[x] = Null THEN Infinite(-1) ELSE Finite(n.low[x].val, n.low[x].open)
           up == IF n.upp[x] = Null THEN Infinite(1) ELSE Finite(n.upp[x].val, n.upp[x].open)
<1>1. Range1(n, x).lo = lo /\ Range1(n, x).up = up
    BY DEF Range1
<1>2. IsEnd(lo, TRUE) /\ \A m : InBox(problem, m, n) => Admits(lo, TRUE, m[x])
    <2>0. Own(n, x, TRUE) = n.low[x]
        BY DEF Own
    <2>1. CASE n.low[x] = Null
        <3>1. IsEnd(Infinite(-1), TRUE) /\ Infinite(-1).inf = -1
            BY ZeroOne DEF IsEnd, Infinite
        <3>2. lo = Infinite(-1)
            BY <2>1
        <3> HIDE DEF lo
        <3>3. lo.inf # 0
            BY <3>1, <3>2
        <3> QED
            BY <3>1, <3>2, <3>3 DEF Admits
    <2>2. CASE n.low[x] # Null
        <3>1. IsNumber(n.low[x].val) /\ n.low[x].open \in BOOLEAN
            BY <2>0, <2>2, OwnBound DEF Bounds
        <3>2. \A m : InBox(problem, m, n) => LetsIn(n.low[x], TRUE, m[x])
            BY <2>0, <2>2, BoxBound
        <3>3. lo.inf = 0 /\ lo.val = n.low[x].val /\ lo.open = n.low[x].open
            BY <2>2 DEF Finite
        <3> HIDE DEF lo
        <3> QED
            BY <3>1, <3>2, <3>3 DEF IsEnd, Admits, LetsIn
    <2> QED
        BY <2>1, <2>2
<1>3. IsEnd(up, FALSE) /\ \A m : InBox(problem, m, n) => Admits(up, FALSE, m[x])
    <2>0. Own(n, x, FALSE) = n.upp[x]
        BY DEF Own
    <2>1. CASE n.upp[x] = Null
        <3>1. IsEnd(Infinite(1), FALSE) /\ Infinite(1).inf = 1
            BY ZeroOne DEF IsEnd, Infinite
        <3>2. up = Infinite(1)
            BY <2>1
        <3> HIDE DEF up
        <3>3. up.inf # 0
            BY <3>1, <3>2
        <3> QED
            BY <3>1, <3>2, <3>3 DEF Admits
    <2>2. CASE n.upp[x] # Null
        <3>1. IsNumber(n.upp[x].val) /\ n.upp[x].open \in BOOLEAN
            BY <2>0, <2>2, OwnBound DEF Bounds
        <3>2. \A m : InBox(problem, m, n) => LetsIn(n.upp[x], FALSE, m[x])
            BY <2>0, <2>2, BoxBound
        <3>3. up.inf = 0 /\ up.val = n.upp[x].val /\ up.open = n.upp[x].open
            BY <2>2 DEF Finite
        <3> HIDE DEF up
        <3> QED
            BY <3>1, <3>2, <3>3 DEF IsEnd, Admits, LetsIn
    <2> QED
        BY <2>1, <2>2
<1> QED
    BY <1>1, <1>2, <1>3 DEF IsInterval, Spans

LEMMA SumTerm ==
    ASSUME NEW n \in Nodes(problem), NEW d, IsSum(problem, d), NEW i \in DOMAIN d.xs
    PROVE  /\ d.xs[i] \in problem.vars \ problem.bool /\ IsNumber(d.as[i]) /\ d.as[i] # Zero
           /\ IsInterval(Summand(n, d, i))
           /\ \A m : IsPoint(problem, m) /\ InBox(problem, m, n) =>
                 /\ IsNumber(Times(d.as[i], m[d.xs[i]]))
                 /\ Spans(Summand(n, d, i), Times(d.as[i], m[d.xs[i]]))
<1>1. d.xs[i] \in problem.vars \ problem.bool /\ IsNumber(d.as[i]) /\ d.as[i] # Zero
    BY DEF IsSum
<1>2. IsInterval(Range1(n, d.xs[i]))
    BY <1>1, Range1Contains
<1>3. IsInterval(Summand(n, d, i))
    BY <1>1, <1>2, ScaleType DEF Summand
<1>4. ASSUME NEW m, IsPoint(problem, m), InBox(problem, m, n)
      PROVE  /\ IsNumber(Times(d.as[i], m[d.xs[i]]))
             /\ Spans(Summand(n, d, i), Times(d.as[i], m[d.xs[i]]))
    <2>1. IsNumber(m[d.xs[i]])
        BY <1>1, <1>4 DEF IsPoint
    <2>2. Spans(Range1(n, d.xs[i]), m[d.xs[i]])
        BY <1>1, <1>4, Range1Contains
    <2>3. IsNumber(Times(d.as[i], m[d.xs[i]]))
        BY <1>1, <2>1, TimesLess
    <2> QED
        BY <1>1, <1>2, <2>1, <2>2, <2>3, ScaleContains DEF Summand
<1> QED
    BY <1>1, <1>3, <1>4

LEMMA NullInterval ==
    LET z == [lo |-> Finite(Zero, FALSE), up |-> Finite(Zero, FALSE)]
    IN  IsInterval(z) /\ Spans(z, Zero)
<1> DEFINE z == [lo |-> Finite(Zero, FALSE), up |-> Finite(Zero, FALSE)]
<1>1. z.lo.inf = 0 /\ z.lo.val = Zero /\ z.lo.open = FALSE /\ z.up.inf = 0 /\ z.up.val = Zero /\ z.up.open = FALSE
    BY DEF Finite
<1> HIDE DEF z
<1>2. IsInterval(z) /\ Spans(z, Zero)
    BY <1>1, ZeroOne DEF IsInterval, IsEnd, Spans, Admits, Meets
<1> QED
    BY <1>2 DEF z

(* The runs of the two folds: the interval of a sum and its value.         *)
LEMMA SummedRuns ==
    ASSUME NEW n, NEW d, NEW but, NEW base, NEW seq, Len(seq) \in Nat, DOMAIN seq = 1 .. Len(seq),
           NEW r, r = S1!Folded(n, d, but, base, seq)
    PROVE  \E g : /\ g[0] = base
                  /\ \A k \in 0 .. Len(seq) - 1 : g[k + 1] = Summed(n, d, but, g[k], seq[k + 1])
                  /\ r = g[Len(seq)]
BY S1!FoldRuns

LEMMA SumRuns ==
    ASSUME NEW n, NEW d, NEW but, NEW S, d.xs \in Seq(S)
    PROVE  \E g : /\ g[0] = [lo |-> Finite(Zero, FALSE), up |-> Finite(Zero, FALSE)]
                  /\ \A k \in 0 .. Len(d.xs) - 1 : g[k + 1] = AddSummand(n, d, but, g[k], k + 1)
                  /\ SumOf(n, d, but) = g[Len(d.xs)]
<1> DEFINE base == [lo |-> Finite(Zero, FALSE), up |-> Finite(Zero, FALSE)]
           seq == [i \in DOMAIN d.xs |-> i]
<1>1. Len(d.xs) \in Nat /\ DOMAIN d.xs = 1 .. Len(d.xs)
    OBVIOUS
<1>2. seq = [i \in 1 .. Len(d.xs) |-> i]
    BY <1>1
<1>3. Len(seq) = Len(d.xs) /\ DOMAIN seq = 1 .. Len(seq) /\ Len(seq) \in Nat /\ \A i \in DOMAIN seq : seq[i] = i
    BY <1>1, <1>2
<1>4. SumOf(n, d, but) = S1!Folded(n, d, but, base, seq)
    BY DEF SumOf, FoldLeftDomain, S1!Folded, S1!Greatest, Summed, FoldLeft, MapThenFoldSet, Max
<1> HIDE DEF base, seq
<1>5. PICK g : /\ g[0] = base
               /\ \A k \in 0 .. Len(seq) - 1 : g[k + 1] = Summed(n, d, but, g[k], seq[k + 1])
               /\ SumOf(n, d, but) = g[Len(seq)]
    <2>1. Len(seq) \in Nat /\ DOMAIN seq = 1 .. Len(seq)
        BY <1>3
    <2> QED
        BY ONLY <1>4, <2>1, SummedRuns
<1>6. ASSUME NEW k \in 0 .. Len(d.xs) - 1 PROVE g[k + 1] = AddSummand(n, d, but, g[k], k + 1)
    <2>1. k + 1 \in DOMAIN seq
        BY <1>1, <1>3
    <2> QED
        BY <1>3, <1>5, <2>1 DEF Summed
<1> QED
    BY <1>3, <1>4, <1>5, <1>6 DEF base

LEMMA ValueRuns ==
    ASSUME NEW m, NEW d, d.kind = "polynomial", NEW S, d.xs \in Seq(S)
    PROVE  \E g : /\ g[0] = Zero
                  /\ \A k \in 0 .. Len(d.xs) - 1 : g[k + 1] = AddTerm(d, m, g[k], k + 1)
                  /\ DefValue(d, m) = g[Len(d.xs)]
<1> DEFINE seq == [i \in DOMAIN d.xs |-> i]
<1>1. Len(d.xs) \in Nat /\ DOMAIN d.xs = 1 .. Len(d.xs)
    OBVIOUS
<1>2. seq = [i \in 1 .. Len(d.xs) |-> i]
    BY <1>1
<1>3. Len(seq) = Len(d.xs) /\ DOMAIN seq = 1 .. Len(seq) /\ Len(seq) \in Nat /\ \A i \in DOMAIN seq : seq[i] = i
    BY <1>1, <1>2
<1>4. DefValue(d, m) = T1!Folded(d, m, 0, Zero, seq)
    BY DEF DefValue, FoldLeftDomain, T1!Folded, T1!Greatest, Termed, FoldLeft, MapThenFoldSet, Max
<1> HIDE DEF seq
<1>5. PICK g : /\ g[0] = Zero
               /\ \A k \in 0 .. Len(seq) - 1 : g[k + 1] = Termed(d, m, 0, g[k], seq[k + 1])
               /\ DefValue(d, m) = g[Len(seq)]
    BY ONLY <1>3, <1>4, T1!FoldRuns
<1>6. ASSUME NEW k \in 0 .. Len(d.xs) - 1 PROVE g[k + 1] = AddTerm(d, m, g[k], k + 1)
    <2>1. k + 1 \in DOMAIN seq
        BY <1>1, <1>3
    <2> QED
        BY <1>3, <1>5, <2>1 DEF Termed
<1> QED
    BY <1>3, <1>4, <1>5, <1>6

LEMMA SumType ==
    ASSUME NEW n \in Nodes(problem), NEW d, IsSum(problem, d), NEW but
    PROVE  IsInterval(SumOf(n, d, but))
<1>1. PICK g : /\ g[0] = [lo |-> Finite(Zero, FALSE), up |-> Finite(Zero, FALSE)]
               /\ \A k \in 0 .. Len(d.xs) - 1 : g[k + 1] = AddSummand(n, d, but, g[k], k + 1)
               /\ SumOf(n, d, but) = g[Len(d.xs)]
    BY SumRuns, ZenonT(40) DEF IsSum
<1> DEFINE D == {k \in Nat : IsInterval(g[k])}
<1>2. 0 \in D
    BY <1>1, NullInterval
<1>3. Len(d.xs) \in Nat /\ DOMAIN d.xs = 1 .. Len(d.xs)
    BY DEF IsSum
<1>4. ASSUME NEW k \in 0 .. Len(d.xs) - 1, k \in D PROVE k + 1 \in D
    <2>1. k + 1 \in DOMAIN d.xs /\ k + 1 \in Nat
        BY <1>3
    <2>2. IsInterval(Summand(n, d, k + 1))
        BY <2>1, SumTerm
    <2>3. g[k + 1] = IF k + 1 = but THEN g[k] ELSE IAdd(g[k], Summand(n, d, k + 1))
        BY <1>1, <1>4 DEF AddSummand
    <2>4. IsInterval(IAdd(g[k], Summand(n, d, k + 1)))
        BY <1>4, <2>2, AddType
    <2> QED
        BY <1>4, <2>1, <2>3, <2>4
<1> HIDE DEF D
<1>5. \A k \in 0 .. Len(d.xs) : k \in D
    BY <1>2, <1>3, <1>4, S1!UpTo
<1>6. Len(d.xs) \in D
    BY <1>3, <1>5
<1> QED
    BY <1>1, <1>6 DEF D

(* The interval of a sum without its summand number but contains the value *)
(* of the sum less that summand.                                           *)
LEMMA SumContains ==
    ASSUME NEW n \in Nodes(problem), NEW d, IsSum(problem, d), NEW but \in 0 .. Len(d.xs),
           NEW m, IsPoint(problem, m), InBox(problem, m, n)
    PROVE  /\ IsNumber(DefValue(d, m))
           /\ Spans(SumOf(n, d, but),
                  IF but = 0 THEN DefValue(d, m) ELSE Minus(DefValue(d, m), Times(d.as[but], m[d.xs[but]])))
<1>0. Len(d.xs) \in Nat /\ DOMAIN d.xs = 1 .. Len(d.xs)
    BY DEF IsSum
<1>1. PICK g : /\ g[0] = [lo |-> Finite(Zero, FALSE), up |-> Finite(Zero, FALSE)]
               /\ \A k \in 0 .. Len(d.xs) - 1 : g[k + 1] = AddSummand(n, d, but, g[k], k + 1)
               /\ SumOf(n, d, but) = g[Len(d.xs)]
    BY SumRuns, ZenonT(40) DEF IsSum
<1>2. PICK v : /\ v[0] = Zero
               /\ \A k \in 0 .. Len(d.xs) - 1 : v[k + 1] = AddTerm(d, m, v[k], k + 1)
               /\ DefValue(d, m) = v[Len(d.xs)]
    BY ValueRuns DEF IsSum
<1> DEFINE t(i) == Times(d.as[i], m[d.xs[i]])
           w(k) == IF but = 0 \/ k < but THEN v[k] ELSE Minus(v[k], t(but))
           D == {k \in Nat : IsNumber(v[k]) /\ IsInterval(g[k]) /\ Spans(g[k], w(k))}
<1>3. \A i \in DOMAIN d.xs : IsNumber(t(i)) /\ IsInterval(Summand(n, d, i)) /\ Spans(Summand(n, d, i), t(i))
    BY SumTerm
<1>4. 0 \in D
    BY <1>1, <1>2, NullInterval, ZeroOne
<1>5. ASSUME NEW k \in 0 .. Len(d.xs) - 1, k \in D PROVE k + 1 \in D
    <2>1. k + 1 \in DOMAIN d.xs /\ k + 1 \in Nat /\ k \in Nat
        BY <1>0
    <2>2. v[k + 1] = Plus(v[k], t(k + 1))
        BY <1>2, <1>5 DEF AddTerm
    <2>3. IsNumber(v[k]) /\ IsInterval(g[k]) /\ Spans(g[k], w(k))
        BY <1>5
    <2>4. IsNumber(t(k + 1)) /\ IsInterval(Summand(n, d, k + 1)) /\ Spans(Summand(n, d, k + 1), t(k + 1))
        BY <1>3, <2>1
    <2>5. IsNumber(v[k + 1])
        BY <2>2, <2>3, <2>4, MinusPlus, ZenonT(40)
    <2>6. CASE k + 1 = but
        <3>1. g[k + 1] = g[k]
            BY <1>1, <1>5, <2>6 DEF AddSummand
        <3>2. w(k) = v[k]
            BY <2>1, <2>6
        <3>3. Minus(v[k + 1], t(k + 1)) = v[k]
            BY <2>2, <2>3, <2>4, MinusPlus
        <3>4. w(k + 1) = v[k]
            BY <2>1, <2>6, <3>3
        <3> QED
            BY <2>1, <2>3, <2>5, <3>1, <3>2, <3>4
    <2>7. CASE k + 1 # but
        <3>1. g[k + 1] = IAdd(g[k], Summand(n, d, k + 1))
            BY <1>1, <1>5, <2>7 DEF AddSummand
        <3>2. IsNumber(w(k)) /\ w(k + 1) = Plus(w(k), t(k + 1))
            <4>1. CASE but = 0 \/ k < but
                BY <2>1, <2>2, <2>3, <2>7, <4>1
            <4>2. CASE ~ (but = 0 \/ k < but)
                <5>1. but \in DOMAIN d.xs /\ ~ (but = 0 \/ k + 1 < but)
                    BY <1>0, <2>1, <4>2
                <5>2. IsNumber(t(but))
                    BY <1>3, <5>1
                <5>3. Plus(Minus(v[k], t(but)), t(k + 1)) = Minus(Plus(v[k], t(k + 1)), t(but)) /\ IsNumber(Minus(v[k], t(but)))
                    BY <2>3, <2>4, <5>2, MinusPlus
                <5> QED
                    BY <2>2, <4>2, <5>1, <5>3
            <4> QED
                BY <4>1, <4>2
        <3> HIDE DEF w, t
        <3>3. IsInterval(g[k + 1]) /\ Spans(g[k + 1], w(k + 1))
            BY <2>3, <2>4, <3>1, <3>2, AddContains
        <3> QED
            BY <2>1, <2>5, <3>3
    <2> QED
        BY <2>6, <2>7
<1> HIDE DEF D
<1>6. \A k \in 0 .. Len(d.xs) : k \in D
    BY <1>0, <1>4, <1>5, S1!UpTo
<1>7. Len(d.xs) \in D /\ ~ (Len(d.xs) < but)
    BY <1>0, <1>6
<1> QED
    BY <1>1, <1>2, <1>7 DEF D

-----------------------------------------------------------------------------
(* The propagation of a definition that is a sum, and of any constraint.   *)
LEMMA SumToGood ==
    ASSUME SumProblem(problem), NEW s, NEW e, Good(s, e), NEW x \in DOMAIN problem.defs,
           NEW y \in {x} \cup ToSet(problem.defs[x].xs)
    PROVE  Good(PropagateSumTo(s, x, y), e)
<1> DEFINE d == problem.defs[x]
           i == CHOOSE j \in DOMAIN d.xs : d.xs[j] = y
           out == SumOf(s.n, d, 0)
           rest == SumOf(s.n, d, i)
           whole == Range1(s.n, x)
           diff == ISub(whole, rest)
           part == IScale(Reciprocal(d.as[i]), diff)
<1>0. IsProblem(problem) /\ IsSum(problem, d) /\ s.n \in Nodes(problem) /\ x \in problem.vars \ problem.bool
    BY DEF SumProblem, Good, IsState, IsProblem
<1> DEFINE M == Held(s, e, y)
<1>1. \A m \in M : IsPoint(problem, m) /\ InBox(problem, m, s.n) /\ m[x] = DefValue(d, m)
    BY HeldIs DEF IsPoint
<1>2. PropagateSumTo(s, x, y) = Deduce(s, y, IF y = x THEN out ELSE part)
    BY DEF PropagateSumTo
<1>3. Len(d.xs) \in Nat /\ DOMAIN d.xs = 1 .. Len(d.xs)
    BY <1>0 DEF IsSum
<1>4. CASE y = x
    <2>1. IsInterval(out)
        BY <1>0, SumType
    <2>2. ASSUME NEW m \in M PROVE Spans(out, m[x])
        <3>1. 0 \in 0 .. Len(d.xs)
            BY <1>3
        <3> QED
            BY <1>0, <1>1, <3>1, SumContains
    <2> HIDE DEF out, part
    <2>3. Good(Deduce(s, x, out), e)
        BY <1>0, <1>4, <2>1, <2>2, DeduceGood
    <2> QED
        BY <1>2, <1>4, <2>3
<1>5. CASE y # x
    <2>1. i \in DOMAIN d.xs /\ d.xs[i] = y
        <3>1. \E j \in DOMAIN d.xs : d.xs[j] = y
            BY <1>5 DEF ToSet
        <3> QED
            BY <3>1
    <2> DEFINE a == d.as[i]
               k == Reciprocal(a)
    <2> HIDE DEF i
    <2>2. y \in problem.vars \ problem.bool /\ IsNumber(a) /\ a # Zero
        BY <1>0, <2>1 DEF IsSum
    <2>3. i \in 0 .. Len(d.xs) /\ i # 0
        BY <1>3, <2>1
    <2>4. IsNumber(k) /\ k # Zero
        BY <2>2, ZeroOne, TimesInverse
    <2>5. IsInterval(whole) /\ \A m \in M : Spans(whole, m[x])
        BY <1>0, <1>1, Range1Contains
    <2>6. IsInterval(rest)
        BY <1>0, SumType
    <2>7. IsNumber(Whole(-1)) /\ Whole(-1) # Zero
        BY WholeNumber DEF Whole, Zero
    <2> HIDE DEF whole, rest, a
    <2>8. IsInterval(IScale(Whole(-1), rest))
        BY <2>6, <2>7, ScaleType
    <2>9. IsInterval(diff)
        BY <2>5, <2>8, AddType DEF ISub
    <2> HIDE DEF k, diff
    <2>10. IsInterval(part)
        BY <2>4, <2>9, ScaleType DEF k, a
    <2>11. ASSUME NEW m \in M PROVE Spans(part, m[y])
        <3> DEFINE t == Times(a, m[y])
                   v == m[x]
                   w == Minus(v, t)
        <3>1. IsNumber(m[y]) /\ IsNumber(v)
            BY <1>0, <1>1, <2>2 DEF IsPoint
        <3>2. IsNumber(t)
            BY <2>2, <3>1, TimesLess
        <3>3. Spans(rest, w)
            BY <1>0, <1>1, <2>1, <2>3, SumContains DEF rest, a
        <3> HIDE DEF t, v
        <3>4. IsNumber(w) /\ Minus(v, w) = t
            BY <3>1, <3>2, MinusPlus
        <3> HIDE DEF w
        <3>5. Spans(IScale(Whole(-1), rest), Times(Whole(-1), w))
            BY <2>6, <2>7, <3>3, <3>4, ScaleContains
        <3>6. Times(Whole(-1), w) = Opposite(w) /\ IsNumber(Opposite(w))
            BY <3>4, MinusPlus
        <3>7. Spans(diff, Plus(v, Opposite(w)))
            BY <2>5, <2>8, <3>1, <3>5, <3>6, AddContains DEF diff, ISub, v
        <3>8. Spans(diff, t)
            BY <3>4, <3>7 DEF Minus
        <3>9. Spans(IScale(k, diff), Times(k, t))
            BY <2>4, <2>9, <3>2, <3>8, ScaleContains
        <3>10. Times(k, t) = m[y]
            BY <2>2, <3>1, TimesInverse DEF k, t
        <3> QED
            BY <3>9, <3>10 DEF k, a
    <2> HIDE DEF out, part
    <2>12. Good(Deduce(s, y, part), e)
        BY <1>0, <2>2, <2>10, <2>11, DeduceGood
    <2> QED
        BY <1>2, <1>5, <2>12
<1> QED
    BY <1>4, <1>5

LEMMA PolynomialGood ==
    ASSUME SumProblem(problem), NEW s, NEW e, Good(s, e), NEW x \in DOMAIN problem.defs
    PROVE  Good(PropagatePolynomial(s, x), e)
<1> DEFINE xs == problem.defs[x].xs
           ys == <<x>> \o xs
           unbounded == {y \in ToSet(ys) : Unbounded(s.n, y)}
           all == FoldLeft(LAMBDA t, y : SumUnlessConflict(x, t, y), s, ys)
<1>1. PropagatePolynomial(s, x) = IF Cardinality(unbounded) > 1 THEN s
                                  ELSE IF unbounded # {} THEN PropagateSumTo(s, x, CHOOSE y \in unbounded : TRUE)
                                  ELSE all
    BY DEF PropagatePolynomial
<1>2. xs \in Seq(problem.vars \ problem.bool)
    BY DEF SumProblem, IsSum
<1> HIDE DEF xs
<1>3. Len(ys) \in Nat /\ DOMAIN ys = 1 .. Len(ys) /\ ys[1] = x
      /\ \A k \in 2 .. Len(ys) : k - 1 \in DOMAIN xs /\ ys[k] = xs[k - 1]
    BY <1>2
<1>4. \A k \in DOMAIN ys : ys[k] \in {x} \cup ToSet(xs)
    <2> SUFFICES ASSUME NEW k \in DOMAIN ys PROVE ys[k] \in {x} \cup ToSet(xs)
        OBVIOUS
    <2>1. k = 1 \/ k \in 2 .. Len(ys)
        BY <1>3
    <2> QED
        BY <1>3, <2>1 DEF ToSet
<1> HIDE DEF ys
<1>5. CASE unbounded # {}
    <2> DEFINE y == CHOOSE z \in unbounded : TRUE
    <2>1. y \in ToSet(ys)
        BY <1>5
    <2>2. y \in {x} \cup ToSet(xs)
        BY <1>4, <2>1 DEF ToSet
    <2> HIDE DEF y
    <2>3. Good(PropagateSumTo(s, x, y), e)
        BY <2>2, SumToGood DEF xs
    <2> QED
        BY <1>1, <1>5, <2>3 DEF y
<1>6. CASE unbounded = {}
    <2>1. all = P1!Folded(x, 0, 0, s, ys)
        BY DEF P1!Folded, P1!Greatest, SumStep, FoldLeft, MapThenFoldSet, Max
    <2> HIDE DEF all
    <2>2. PICK g : /\ g[0] = s
                   /\ \A k \in 0 .. Len(ys) - 1 : g[k + 1] = SumStep(x, 0, 0, g[k], ys[k + 1])
                   /\ all = g[Len(ys)]
        BY ONLY <1>3, <2>1, P1!FoldRuns
    <2> DEFINE D == {k \in Nat : Good(g[k], e)}
    <2>3. 0 \in D
        BY <2>2
    <2>4. ASSUME NEW k \in 0 .. Len(ys) - 1, k \in D PROVE k + 1 \in D
        <3>1. k + 1 \in DOMAIN ys /\ k + 1 \in Nat
            BY <1>3
        <3>2. ys[k + 1] \in {x} \cup ToSet(xs)
            BY <1>4, <3>1
        <3>3. Good(PropagateSumTo(g[k], x, ys[k + 1]), e)
            BY <2>4, <3>2, SumToGood DEF xs
        <3>4. g[k + 1] = IF g[k].n.conflict THEN g[k] ELSE PropagateSumTo(g[k], x, ys[k + 1])
            BY <2>2, <2>4 DEF SumStep, SumUnlessConflict
        <3> QED
            BY <2>4, <3>1, <3>3, <3>4
    <2> HIDE DEF D
    <2>5. \A k \in 0 .. Len(ys) : k \in D
        BY <1>3, <2>3, <2>4, S1!UpTo
    <2>6. Len(ys) \in D
        BY <1>3, <2>5
    <2>7. Good(all, e)
        BY <2>1, <2>2, <2>6 DEF D
    <2> QED
        BY <1>1, <1>6, <2>7
<1> QED
    BY <1>5, <1>6

(* Propagating any constraint excludes no model and, while no bound is     *)
(* relaxed, lets no excluded point back and forgets no clause to visit.    *)
THEOREM PropagateGood ==
    ASSUME SumProblem(problem), NEW s, NEW e, Good(s, e), NEW c \in Constraints, e.full => ~ s.n.conflict
    PROVE  Good(Propagate(s, c), IF c.def THEN e ELSE Closed(e, c.id))
<1>1. CASE c.def = FALSE
    <2>1. c.id \in DOMAIN problem.clauses /\ c = Cl(c.id)
        BY <1>1 DEF Constraints, Cl
    <2> DEFINE k == c.id
    <2>2. Propagate(s, c) = PropagateClause(s, c)
        BY <1>1 DEF Propagate
    <2>3. k \in DOMAIN problem.clauses /\ c = Cl(k)
        BY <2>1
    <2> HIDE DEF k
    <2>4. Good(PropagateClause(s, Cl(k)), Closed(e, k))
        BY <2>3, PropagateClauseGood DEF SumProblem
    <2> QED
        BY <1>1, <2>2, <2>3, <2>4 DEF k
<1>2. CASE c.def = TRUE
    <2>1. c.id \in DOMAIN problem.defs
        BY <1>2 DEF Constraints
    <2>2. problem.defs[c.id].kind # "monomial"
        BY <2>1 DEF SumProblem, IsSum
    <2>3. Good(Visited(s, c), e)
        BY <1>2, VisitedDefGood
    <2> QED
        BY <1>2, <2>1, <2>2, <2>3, PolynomialGood DEF Propagate
<1>3. c.def \in BOOLEAN
    BY DEF Constraints
<1> QED
    BY <1>1, <1>2, <1>3

-----------------------------------------------------------------------------
(* The unit clauses, and the sequences of constraints to visit.            *)

(* What AssertUnits does to the root: when nothing is relaxed and the root *)
(* is not in conflict, the units are true there.                           *)
LEMMA UnitsGood ==
    ASSUME IsProblem(problem), NEW s, NEW e, Good(s, e)
    PROVE  LET t == FoldLeft(LAMBDA w, a : AssertUnlessConflict(w, a), s, problem.units) IN
           /\ Good(t, e)
           /\ e.full /\ ~ t.r /\ ~ t.n.conflict => \A a \in ToSet(problem.units) : Value(problem, t.n, a) = "true"
<1> DEFINE us == problem.units
           all == FoldLeft(LAMBDA t, a : AssertUnlessConflict(t, a), s, us)
<1>1. all = U1!Folded(0, 0, 0, s, us)
    BY DEF U1!Folded, U1!Greatest, UnitStep, FoldLeft, MapThenFoldSet, Max
<1>2. us \in Seq(ToSet(us)) /\ \A a \in ToSet(us) : IsAtom(problem, a) /\ \A m \in e.models : Holds(m, a)
    BY DEF IsProblem, Good, IsModel
<1>0. us = problem.units
    OBVIOUS
<1> HIDE DEF all, us
<1>3. Len(us) \in Nat /\ DOMAIN us = 1 .. Len(us)
    BY <1>2
<1>4. PICK g : /\ g[0] = s
               /\ \A k \in 0 .. Len(us) - 1 : g[k + 1] = UnitStep(0, 0, 0, g[k], us[k + 1])
               /\ all = g[Len(us)]
    BY ONLY <1>1, <1>3, U1!FoldRuns
<1> DEFINE Done(t, k) == e.full /\ ~ t.r /\ ~ t.n.conflict => \A i \in 1 .. k : Value(problem, t.n, us[i]) = "true"
           D == {k \in Nat : Good(g[k], e) /\ Done(g[k], k)}
<1>5. 0 \in D
    BY <1>4
<1>6. ASSUME NEW k \in 0 .. Len(us) - 1, k \in D PROVE k + 1 \in D
    <2> DEFINE t == g[k]
               u == g[k + 1]
               a == us[k + 1]
    <2>1. k + 1 \in DOMAIN us /\ k + 1 \in Nat /\ k \in Nat
        BY <1>3
    <2>2. a \in ToSet(us) /\ IsAtom(problem, a)
        BY <1>2, <2>1 DEF ToSet
    <2>3. Good(t, e) /\ Done(t, k)
        BY <1>6
    <2>4. u = IF t.n.conflict THEN t ELSE AssertAtom(t, a)
        BY <1>4, <1>6 DEF UnitStep, AssertUnlessConflict
    <2>5. CASE t.n.conflict
        BY <2>1, <2>3, <2>4, <2>5
    <2>6. CASE ~ t.n.conflict
        <3> HIDE DEF t, u, a, Done
        <3> DEFINE f == Since(e, t)
        <3>1. Good(t, f) /\ (f.full <=> e.full) /\ \A x : Held(t, f, x) = Held(t, e, x)
            BY <2>3, SinceGood DEF Since
        <3> HIDE DEF f
        <3>2. ASSUME NEW m \in Held(t, e, a.x) PROVE Holds(m, a)
            <4>1. CASE m \in e.models
                BY <1>2, <2>2, <4>1
            <4>2. CASE m \notin e.models
                BY <1>0, <2>2, <4>2 DEF Held, Claimed
            <4> QED
                BY <4>1, <4>2
        <3>3. u = AssertAtom(t, a)
            BY <2>4, <2>6
        <3>4. Good(u, f) /\ (e.full /\ ~ u.r /\ ~ u.n.conflict => Value(problem, u.n, a) = "true")
            BY <2>2, <2>6, <3>1, <3>2, <3>3, AssertAtomGood
        <3>5. Good(u, e) /\ (e.full /\ ~ u.r => ~ t.r /\ Narrowed(t.n, u.n))
            BY <2>3, <3>4, SinceThen DEF f
        <3>6. ASSUME e.full, ~ u.r, ~ u.n.conflict, NEW i \in 1 .. k + 1 PROVE Value(problem, u.n, us[i]) = "true"
            <4>1. CASE i = k + 1
                BY <3>4, <3>6, <4>1 DEF a
            <4>2. CASE i # k + 1
                <5>1. i \in 1 .. k /\ i \in DOMAIN us
                    BY <1>3, <2>1, <4>2
                <5>2. Value(problem, t.n, us[i]) = "true"
                    BY <2>3, <2>6, <3>5, <3>6, <5>1 DEF Done
                <5>3. IsAtom(problem, us[i])
                    BY <1>2, <5>1 DEF ToSet
                <5>4. Consistent(t.n) /\ Consistent(u.n) /\ t.n \in Nodes(problem) /\ u.n \in Nodes(problem)
                    BY <2>3, <3>5, <3>6 DEF Good, Full, IsState
                <5> QED
                    BY <2>6, <3>5, <3>6, <5>2, <5>3, <5>4, ValueStays
            <4> QED
                BY <4>1, <4>2
        <3>7. Done(u, k + 1)
            BY <3>6 DEF Done
        <3>8. Good(g[k + 1], e) /\ Done(g[k + 1], k + 1)
            BY <3>5, <3>7 DEF u
        <3> QED
            BY <2>1, <3>8
    <2> QED
        BY <2>5, <2>6
<1> HIDE DEF D
<1>7. \A k \in 0 .. Len(us) : k \in D
    BY <1>3, <1>5, <1>6, S1!UpTo
<1>8. Len(us) \in D
    BY <1>3, <1>7
<1>9. Good(all, e) /\ Done(all, Len(us))
    BY <1>1, <1>4, <1>8 DEF D
<1>10. e.full /\ ~ all.r /\ ~ all.n.conflict => \A a \in ToSet(us) : Value(problem, all.n, a) = "true"
    BY <1>3, <1>9 DEF Done, ToSet
<1> QED
    BY <1>9, <1>10 DEF all, us

LEMMA ThoseRuns ==
    ASSUME NEW seq, Len(seq) \in Nat, DOMAIN seq = 1 .. Len(seq), NEW S
    PROVE  \E g : /\ g[0] = <<>>
                  /\ \A k \in 0 .. Len(seq) - 1 : g[k + 1] = ThoseStep(S, 0, 0, g[k], seq[k + 1])
                  /\ Those(seq, S) = g[Len(seq)]
<1>1. Those(seq, S) = H1!Folded(S, 0, 0, <<>>, seq)
    BY DEF Those, H1!Folded, H1!Greatest, ThoseStep, FoldLeft, MapThenFoldSet, Max
<1>2. Len(seq) \in Nat /\ DOMAIN seq = 1 .. Len(seq)
    OBVIOUS
<1> QED
    BY ONLY <1>1, <1>2, H1!FoldRuns

LEMMA ThoseType ==
    ASSUME NEW seq, Len(seq) \in Nat, DOMAIN seq = 1 .. Len(seq), NEW S
    PROVE  Those(seq, S) \in Seq(S \cap ToSet(seq))
<1> DEFINE T == S \cap ToSet(seq)
<1>2. PICK g : /\ g[0] = <<>>
               /\ \A k \in 0 .. Len(seq) - 1 : g[k + 1] = ThoseStep(S, 0, 0, g[k], seq[k + 1])
               /\ Those(seq, S) = g[Len(seq)]
    BY ThoseRuns
<1> DEFINE D == {k \in Nat : g[k] \in Seq(T)}
<1> HIDE DEF T
<1>0. <<>> \in Seq(T)
    OBVIOUS
<1>3. 0 \in D
    BY <1>0, <1>2
<1>4. ASSUME NEW k \in 0 .. Len(seq) - 1, k \in D PROVE k + 1 \in D
    <2>1. k + 1 \in DOMAIN seq /\ k + 1 \in Nat
        OBVIOUS
    <2>2. g[k + 1] = IF seq[k + 1] \in S \ ToSet(g[k]) THEN Append(g[k], seq[k + 1]) ELSE g[k]
        BY <1>2, <1>4 DEF ThoseStep, AddIn
    <2>3. seq[k + 1] \in S => seq[k + 1] \in T
        BY <2>1 DEF ToSet, T
    <2>4. g[k] \in Seq(T)
        BY <1>4
    <2>5. g[k + 1] \in Seq(T)
        <3>1. CASE seq[k + 1] \in S \ ToSet(g[k])
            BY <2>2, <2>3, <2>4, <3>1
        <3>2. CASE seq[k + 1] \notin S \ ToSet(g[k])
            BY <2>2, <2>4, <3>2
        <3> QED
            BY <3>1, <3>2
    <2> QED
        BY <2>1, <2>5
<1> HIDE DEF D
<1>5. \A k \in 0 .. Len(seq) : k \in D
    BY <1>3, <1>4, S1!UpTo
<1>6. Len(seq) \in D
    BY <1>5
<1> QED
    BY <1>2, <1>6 DEF D, T

LEMMA ArrangedRuns ==
    ASSUME NEW seq, NEW sets, Len(sets) \in Nat, DOMAIN sets = 1 .. Len(sets)
    PROVE  \E g : /\ g[0] = <<>>
                  /\ \A k \in 0 .. Len(sets) - 1 : g[k + 1] = g[k] \o Those(seq, sets[k + 1])
                  /\ Arranged(seq, sets) = g[Len(sets)]
<1>1. Arranged(seq, sets) = A1!Folded(seq, 0, 0, <<>>, sets)
    BY DEF Arranged, A1!Folded, A1!Greatest, ArrangeStep, FoldLeft, MapThenFoldSet, Max
<1>2. Len(sets) \in Nat /\ DOMAIN sets = 1 .. Len(sets)
    OBVIOUS
<1>3. PICK g : /\ g[0] = <<>>
               /\ \A k \in 0 .. Len(sets) - 1 : g[k + 1] = ArrangeStep(seq, 0, 0, g[k], sets[k + 1])
               /\ Arranged(seq, sets) = g[Len(sets)]
    BY ONLY <1>1, <1>2, A1!FoldRuns
<1>4. \A k \in 0 .. Len(sets) - 1 : g[k + 1] = g[k] \o Those(seq, sets[k + 1])
    BY <1>3 DEF ArrangeStep, AddThose
<1> QED
    BY <1>3, <1>4

LEMMA ArrangedType ==
    ASSUME NEW seq, Len(seq) \in Nat, DOMAIN seq = 1 .. Len(seq),
           NEW sets, Len(sets) \in Nat, DOMAIN sets = 1 .. Len(sets),
           NEW S, \A k \in DOMAIN sets : sets[k] \subseteq S
    PROVE  Arranged(seq, sets) \in Seq(S \cap ToSet(seq))
<1> DEFINE T == S \cap ToSet(seq)
<1>2. PICK g : /\ g[0] = <<>>
               /\ \A k \in 0 .. Len(sets) - 1 : g[k + 1] = g[k] \o Those(seq, sets[k + 1])
               /\ Arranged(seq, sets) = g[Len(sets)]
    BY ArrangedRuns
<1> DEFINE D == {k \in Nat : g[k] \in Seq(T)}
<1>0. <<>> \in Seq(T)
    OBVIOUS
<1>3. 0 \in D
    BY <1>0, <1>2
<1>4. ASSUME NEW k \in 0 .. Len(sets) - 1, k \in D PROVE k + 1 \in D
    <2>1. k + 1 \in DOMAIN sets /\ k + 1 \in Nat
        OBVIOUS
    <2>2. g[k + 1] = g[k] \o Those(seq, sets[k + 1])
        BY <1>2, <1>4
    <2>3. Those(seq, sets[k + 1]) \in Seq(sets[k + 1] \cap ToSet(seq))
        BY ThoseType
    <2>4. sets[k + 1] \cap ToSet(seq) \subseteq T
        BY <2>1
    <2> HIDE DEF T
    <2>5. Those(seq, sets[k + 1]) \in Seq(T)
        BY <2>3, <2>4
    <2>6. g[k] \in Seq(T)
        BY <1>4
    <2>7. g[k + 1] \in Seq(T)
        BY <2>2, <2>5, <2>6
    <2> QED
        BY <2>1, <2>7
<1> HIDE DEF D
<1>5. \A k \in 0 .. Len(sets) : k \in D
    BY <1>3, <1>4, S1!UpTo
<1>6. Len(sets) \in D
    BY <1>5
<1> QED
    BY <1>2, <1>6 DEF D, T

-----------------------------------------------------------------------------
(* The constraints to visit.                                               *)
LEMMA WatchersType ==
    ASSUME IsProblem(problem), NEW x
    PROVE  DefSeq \in Seq(Constraints) /\ Watchers(x) \in Seq(Constraints)
<1>1. Cardinality(problem.vars) \in Nat
    BY FS_CardinalityType DEF IsProblem
<1>2. Len(VarSeq) \in Nat /\ DOMAIN VarSeq = 1 .. Len(VarSeq)
    BY <1>1 DEF VarSeq
<1>3. DOMAIN problem.clauses = 1 .. Len(problem.clauses) /\ Len(problem.clauses) \in Nat
    BY DEF IsProblem
<1>4. Len(ClauseSeq) \in Nat /\ DOMAIN ClauseSeq = 1 .. Len(ClauseSeq)
    BY <1>3 DEF ClauseSeq
<1>5. \A seq, S, T : Len(seq) \in Nat /\ DOMAIN seq = 1 .. Len(seq) /\ S \subseteq T => Those(seq, S) \in Seq(T)
    <2> SUFFICES ASSUME NEW seq, NEW S, NEW T, Len(seq) \in Nat, DOMAIN seq = 1 .. Len(seq), S \subseteq T
                 PROVE  Those(seq, S) \in Seq(T)
        OBVIOUS
    <2>1. Those(seq, S) \in Seq(S \cap ToSet(seq))
        BY ThoseType
    <2>2. S \cap ToSet(seq) \subseteq T
        OBVIOUS
    <2> QED
        BY <2>1, <2>2
<1>6. DefSeq \in Seq(Constraints)
    BY <1>2, <1>5 DEF DefSeq
<1>7. Len(DefSeq) \in Nat /\ DOMAIN DefSeq = 1 .. Len(DefSeq)
    BY <1>6
<1> DEFINE A == {c \in Constraints : c.def /\ x \in ToSet(problem.defs[c.id].xs)}
           B == {c \in Constraints : ~ c.def /\ \E a \in ToSet(problem.clauses[c.id]) : a.x = x}
           C == {c \in Constraints : c.id = x}
<1>8. A \subseteq Constraints /\ B \subseteq Constraints /\ C \subseteq Constraints
    OBVIOUS
<1>9. Watchers(x) = Those(DefSeq, A) \o Those(ClauseSeq, B) \o Those(DefSeq, C)
    BY DEF Watchers
<1> HIDE DEF A, B, C
<1>10. Those(DefSeq, A) \in Seq(Constraints) /\ Those(ClauseSeq, B) \in Seq(Constraints) /\ Those(DefSeq, C) \in Seq(Constraints)
    BY <1>4, <1>5, <1>7, <1>8
<1> QED
    BY <1>6, <1>9, <1>10
=============================================================================
