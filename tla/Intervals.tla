----------------------------- MODULE Intervals ------------------------------
(***************************************************************************)
(* The exact arithmetic the partitioner propagates with: rational numbers  *)
(* (numeral, an mpq) and the intervals of interval_def.h over them, whose  *)
(* ends may be open, closed or infinite.  A number is a pair <<numerator,  *)
(* denominator>> in lowest terms.                                          *)
(***************************************************************************)
EXTENDS Integers

Gcd[p \in Nat \X Nat] == IF p[2] = 0 THEN p[1] ELSE Gcd[<<p[2], p[1] % p[2]>>]

Magnitude(n) == IF n < 0 THEN -n ELSE n

Ratio(n, d) ==
    LET g == Gcd[<<Magnitude(n), Magnitude(d)>>]
        s == IF d < 0 THEN -1 ELSE 1
    IN  <<(s * n) \div g, (s * d) \div g>>

IsNumber(a) == a \in Int \X Int /\ a[2] > 0 /\ Gcd[<<Magnitude(a[1]), a[2]>>] = 1

Whole(n) == <<n, 1>>
Zero == Whole(0)
One == Whole(1)

Lt(a, b) == a[1] * b[2] < b[1] * a[2]
IsWhole(a) == a[2] = 1
Floor(a) == Whole(a[1] \div a[2])
Ceil(a) == Whole(-((-a[1]) \div a[2]))
Plus(a, b) == Ratio(a[1] * b[2] + b[1] * a[2], a[2] * b[2])
Times(a, b) == Ratio(a[1] * b[1], a[2] * b[2])
Reciprocal(a) == Ratio(a[2], a[1])
Opposite(a) == <<-a[1], a[2]>>
Minus(a, b) == Plus(a, Opposite(b))
Power(a, n) == Ratio(a[1] ^ n, a[2] ^ n)
Lesser(a, b) == IF Lt(a, b) THEN a ELSE b
Greater(a, b) == IF Lt(a, b) THEN b ELSE a

(* The comparison of lower bounds, turned round for upper ones.            *)
Less(a, b, lower) == IF lower THEN Lt(a, b) ELSE Lt(b, a)

-----------------------------------------------------------------------------
(* An end of an interval: inf is -1 or 1 when it is infinite.              *)
Finite(v, open) == [inf |-> 0, val |-> v, open |-> open]
Infinite(s) == [inf |-> s, val |-> Zero, open |-> TRUE]

IsNull(e) == e.inf = 0 /\ e.val = Zero
Sign(e) == IF e.inf # 0 THEN e.inf
           ELSE IF Lt(e.val, Zero) THEN -1 ELSE IF Lt(Zero, e.val) THEN 1 ELSE 0

EndLt(e, f) ==
    \/ e.inf < f.inf
    \/ e.inf = 0 /\ f.inf = 0 /\ Lt(e.val, f.val)

(* The outermost of some ends: a closed end reaches further than an open   *)
(* one at the same place.                                                  *)
Lowest(S) == CHOOSE e \in S : \A f \in S :
    EndLt(e, f) \/ (~ EndLt(f, e) /\ (e.open => f.open))
Highest(S) == CHOOSE e \in S : \A f \in S :
    EndLt(f, e) \/ (~ EndLt(e, f) /\ (e.open => f.open))

EndPlus(e, f) ==
    IF e.inf # 0 THEN e
    ELSE IF f.inf # 0 THEN f
    ELSE Finite(Plus(e.val, f.val), e.open \/ f.open)

EndTimes(e, f) ==
    IF IsNull(e) \/ IsNull(f)
    THEN Finite(Zero, ~ ((IsNull(e) /\ ~ e.open) \/ (IsNull(f) /\ ~ f.open)))
    ELSE IF e.inf # 0 \/ f.inf # 0 THEN Infinite(Sign(e) * Sign(f))
    ELSE Finite(Times(e.val, f.val), e.open \/ f.open)

EndPower(e, n) ==
    IF e.inf # 0 THEN Infinite(IF n % 2 = 0 THEN 1 ELSE e.inf)
    ELSE Finite(Power(e.val, n), e.open)

-----------------------------------------------------------------------------
IAdd(i, j) == [lo |-> EndPlus(i.lo, j.lo), up |-> EndPlus(i.up, j.up)]

(* mul and div by a number that is not 0.                                  *)
IScale(k, i) ==
    LET e == EndTimes(Finite(k, FALSE), i.lo)
        f == EndTimes(Finite(k, FALSE), i.up)
    IN  IF Lt(k, Zero) THEN [lo |-> f, up |-> e] ELSE [lo |-> e, up |-> f]

ISub(i, j) == IAdd(i, IScale(Whole(-1), j))

IMul(i, j) ==
    LET ends == {EndTimes(e, f) : e \in {i.lo, i.up}, f \in {j.lo, j.up}}
    IN  [lo |-> Lowest(ends), up |-> Highest(ends)]

ContainsZero(i) ==
    /\ Sign(i.lo) = -1 \/ (Sign(i.lo) = 0 /\ ~ i.lo.open)
    /\ Sign(i.up) = 1 \/ (Sign(i.up) = 0 /\ ~ i.up.open)

(* The inverse of an end of an interval on the side s of 0.                *)
EndInverse(e, s) ==
    IF e.inf # 0 THEN Finite(Zero, TRUE)
    ELSE IF e.val = Zero THEN Infinite(s)
    ELSE Finite(Reciprocal(e.val), e.open)

(* j does not contain 0.                                                   *)
IDiv(i, j) ==
    LET s == IF Sign(j.lo) >= 0 THEN 1 ELSE -1
    IN  IMul(i, [lo |-> EndInverse(j.up, s), up |-> EndInverse(j.lo, s)])

IPower(i, n) ==
    LET p == EndPower(i.lo, n)
        q == EndPower(i.up, n)
    IN  IF n % 2 = 1 \/ Sign(i.lo) = 1 THEN [lo |-> p, up |-> q]
        ELSE IF Sign(i.up) = -1 THEN [lo |-> q, up |-> p]
        ELSE [lo |-> Finite(Zero, FALSE), up |-> Highest({p, q})]

(* approx_nth_root for a square: Newton's iteration, from 2^(k / 2) with k  *)
(* the integer logarithm, until two approximations are closer than 1/prec. *)
LogTwo[n \in Nat] == IF n < 2 THEN 0 ELSE 1 + LogTwo[n \div 2]

ApproxRoot(a, prec) ==
    LET improve[x \in Nat \X Nat] ==
            LET better == Times(Ratio(1, 2), Plus(x, Times(a, Reciprocal(x))))
                step == Minus(better, x)
            IN  IF Lt(<<Magnitude(step[1]), step[2]>>, Ratio(1, prec)) THEN better
                ELSE improve[better]
    IN  improve[IF Lt(a, One) THEN a ELSE Whole(2 ^ (LogTwo[Floor(a)[1]] \div 2))]

(* The values of y with y^2 in i, which has no negative number: an exact   *)
(* root is known of 0 and 1 only, others are between a / r and r.          *)
Around(r, l, open) ==
    LET hi == Greater(l, r)
    IN  [lo |-> Finite(Opposite(hi), open /\ l = r), up |-> Finite(hi, open /\ l = r)]

ISquareRoot(i, prec) ==
    IF i.up.inf # 0 THEN [lo |-> Infinite(-1), up |-> Infinite(1)]
    ELSE IF i.up.val \in {Zero, One} THEN Around(i.up.val, i.up.val, i.up.open)
    ELSE LET r == ApproxRoot(i.up.val, prec)
         IN  Around(r, Times(i.up.val, Reciprocal(r)), i.up.open)
=============================================================================
