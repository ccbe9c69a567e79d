---------------------------- MODULE MCSubpaving -----------------------------
(***************************************************************************)
(* Small problems for Subpaving: every way a clause can constrain one      *)
(* variable, pairs of clauses one of which may imply the other, units with *)
(* equations and Boolean variables, sums and products.                     *)
(***************************************************************************)
EXTENDS Subpaving

Half == <<1, 2>>
HalfSteps == {Ratio(k, 2) : k \in -1 .. 3}
WholeSteps == {Whole(k) : k \in -2 .. 2}

(* The problem of a goal with its points over the numbers grid, and its    *)
(* models: the points that satisfy the goal.                               *)
Full(xs, bools, ints, defs, goal, grid) ==
    LET p == Problem(xs, bools, ints, defs, goal)
        numbers(x) == IF x \in bools THEN {Zero, One}
                      ELSE IF x \in ints THEN {v \in grid : IsWhole(v)} ELSE grid
        choice == {m \in [Plain(p) -> grid \cup {Zero, One}] : \A x \in Plain(p) : m[x] \in numbers(x)}
        extended(m) ==
            LET value[x \in xs] ==
                    IF x \in Plain(p) THEN m[x]
                    ELSE DefValue(defs[x], value)
            IN  value
        points == {extended(m) : m \in choice}
    IN  p @@ [points |-> points,
              models |-> {m \in points : \A c \in ToSet(goal) : \E l \in ToSet(c) : Holds(m, l)}]

Atoms(x, V) ==
    {Ineq(x, v, lower, open) : v \in V, lower \in BOOLEAN, open \in BOOLEAN}
    \cup {Eq(x, v, neg) : v \in V, neg \in BOOLEAN}

(* One clause of three literals of one variable.                           *)
OneVariable ==
    {Full({1}, {}, ints, <<>>, <<SetToSeq(S)>>, HalfSteps) :
        S \in kSubset(3, Atoms(1, {Zero, Half})), ints \in SUBSET {1}}

(* Pairs of clauses one of which may imply the other; the Boolean variable *)
(* is the last or the first.                                               *)
Dominated ==
    {Full({1, 2, 3}, {3}, {}, <<>>,
          <<<<a, Ineq(2, Zero, TRUE, FALSE)>>,
            <<b, Ineq(2, Zero, TRUE, open), Bool(3, FALSE)>>>>, HalfSteps) :
        a \in {c \in Atoms(1, {Zero}) : c.lower}, b \in Atoms(1, {Zero, One}), open \in BOOLEAN}
    \cup {Full({1, 2, 3}, {1}, ints, <<>>,
          <<<<Bool(1, TRUE), b, Ineq(2, Half, TRUE, FALSE)>>, <<b, a, Bool(1, TRUE)>>>>, HalfSteps) :
        a \in Atoms(2, {Zero}), b \in {Eq(3, One, TRUE), Ineq(3, One, FALSE, TRUE)},
        ints \in {{}, {2, 3}}}

(* Units, chains of clauses and equations.                                 *)
Chains ==
    {Full({1, 2, 3}, {1}, ints, <<>>,
          units \o <<<<Bool(1, TRUE), Eq(2, One, FALSE)>>,
                     <<Eq(2, One, TRUE), Ineq(3, Zero, FALSE, TRUE), Eq(3, One, FALSE)>>,
                     <<Eq(3, One, TRUE), Bool(1, FALSE)>>,
                     <<Ineq(2, One, FALSE, FALSE), Eq(3, Half, TRUE), Eq(3, Zero, TRUE)>>>>,
          HalfSteps) :
        ints \in {{}, {2, 3}},
        units \in {<<>>, <<<<Bool(1, FALSE)>>>>,
                   <<<<Eq(2, One, FALSE)>>, <<Ineq(3, Zero, TRUE, FALSE)>>>>,
                   <<<<Ineq(3, Zero, TRUE, TRUE)>>, <<Ineq(2, Half, TRUE, FALSE)>>>>,
                   <<<<Eq(3, One, TRUE)>>, <<Ineq(2, One, TRUE, FALSE)>>>>}}

(* Definitions: 3 is a sum or a product of 1 and 2.                        *)
Definitions ==
    {Polynomial(<<1, 2>>, <<One, One>>), Polynomial(<<1, 2>>, <<Whole(2), Whole(-1)>>),
     Monomial(<<1, 2>>, <<1, 1>>), Monomial(<<1>>, <<2>>), Monomial(<<1, 2>>, <<2, 1>>)}
WithDefinition ==
    {Full({1, 2, 3}, {}, ints, (3 :> d),
          <<<<Ineq(1, Whole(-1), TRUE, FALSE)>>, <<Ineq(1, v, FALSE, FALSE)>>,
            <<Ineq(2, One, TRUE, FALSE), Ineq(2, Whole(-1), FALSE, open)>>>> \o units, WholeSteps) :
        d \in Definitions, v \in {Whole(2), Zero}, open \in BOOLEAN, ints \in {{}, {1, 2}},
        units \in {<<<<Ineq(3, One, TRUE, FALSE)>>, <<Ineq(3, Whole(2), FALSE, FALSE)>>>>,
                   <<<<Ineq(3, One, FALSE, TRUE)>>, <<Ineq(2, Zero, TRUE, FALSE)>>>>}}

(* A half whose bound is relaxed for its denominator is wider than its     *)
(* parent, but keeps the atoms that were derived there.                    *)
ThirdSteps == {Zero, Ratio(1, 4), Ratio(1, 3), Ratio(2, 5)}
Widened ==
    {Full({1, 2, 3, 4}, {}, {}, (4 :> Polynomial(<<1, 3>>, <<One, One>>)),
          <<<<Ineq(1, Ratio(1, 3), FALSE, TRUE), Ineq(4, Ratio(2, 5), TRUE, FALSE)>>,
            <<Ineq(1, Ratio(2, 5), TRUE, FALSE), Ineq(2, Zero, TRUE, FALSE)>>>>, ThirdSteps)}

MCProblems == OneVariable \cup Dominated \cup Chains \cup WithDefinition \cup Widened

(* A unit whose denominator is above the limit.                            *)
MCFineProblems ==
    {Full({1, 2}, {}, {}, <<>>,
          <<<<Ineq(1, Ratio(1, 5), TRUE, FALSE)>>,
            <<Ineq(2, Zero, TRUE, FALSE), Ineq(1, One, TRUE, FALSE)>>>>,
          {Zero, Ratio(1, 10), Ratio(1, 5), One})}

(* Two levels of splits where the clauses make propagation busy, or one    *)
(* variable makes it cheap, or a half is widened; one level elsewhere.     *)
MCMaxNodes(p) == IF Cardinality(p.vars) \in {1, 4} \/ Len(p.clauses) > 3 THEN 5 ELSE 3

MCEpsilon == <<1, 20>>
MCMaxBound == Whole(4)
=============================================================================
