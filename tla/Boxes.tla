------------------------------- MODULE Boxes --------------------------------
(***************************************************************************)
(* What a node of the partition tree knows (subpaving_t_def.h): bounds of  *)
(* the arithmetic variables, values of the Boolean ones; what an atom is   *)
(* worth there; and how the clauses are made smaller for the task of the   *)
(* node (simplify_ineqs_in_clause, test_dominated, convert_node_to_task).  *)
(*                                                                         *)
(* A problem p has the variables p.vars (numbers), of which p.bool are     *)
(* Boolean and p.int integer, the definitions p.defs of some of them, the  *)
(* unit atoms p.units and the clauses p.clauses.  An atom is a literal of  *)
(* kind "bool" (x, or not x when lower), "eq" (x = val, or # when lower)   *)
(* or "ineq" (x >= val when lower, x <= val otherwise, strict when open).  *)
(***************************************************************************)
EXTENDS Intervals, Sequences, SequencesExt

CONSTANTS
    Null,               \* nullptr: no bound
    MaxDenominator,     \* 10^9
    AdjustDenominator,  \* 10^6
    Epsilon,            \* 1/20
    MaxBound            \* 10^10

ASSUME BoxConstants ==
    /\ MaxDenominator \in Nat \ {0} /\ AdjustDenominator \in Nat \ {0}
    /\ Null \notin Nat /\ Null \notin [val : Int \X Int, open : BOOLEAN, ts : Nat]

Bool(x, neg) == [kind |-> "bool", x |-> x, lower |-> neg, val |-> Zero, open |-> FALSE]
Eq(x, val, neg) == [kind |-> "eq", x |-> x, lower |-> neg, val |-> val, open |-> FALSE]
Ineq(x, val, lower, open) == [kind |-> "ineq", x |-> x, lower |-> lower, val |-> val, open |-> open]

(* A definition: the product of powers, or the sum of multiples, of the    *)
(* variables xs.                                                           *)
Monomial(xs, degs) == [kind |-> "monomial", xs |-> xs, degs |-> degs]
Polynomial(xs, as) == [kind |-> "polynomial", xs |-> xs, as |-> as]

IsIntMonomial(d, int) == \E i \in DOMAIN d.xs : d.xs[i] \in int
IsIntPolynomial(d, int) == \A i \in DOMAIN d.xs : d.xs[i] \in int /\ IsWhole(d.as[i])

Round(val, down) == IF down THEN Floor(val) ELSE Ceil(val)

AdjustIntegerBound(val, lower, open) ==
    IF ~ IsWhole(val) THEN [val |-> Round(val, ~ lower), open |-> FALSE]
    ELSE [val |-> IF open THEN Plus(val, Whole(IF lower THEN 1 ELSE -1)) ELSE val,
          open |-> FALSE]

(* mk_atom: a literal as atoms.  Eq(x, val, TRUE) becomes two strict        *)
(* inequalities, so that no atom is a #; on an integer, an equation with a *)
(* fraction is dropped, its negation makes the clause a tautology.         *)
Strange(l, int) == l.kind = "eq" /\ l.x \in int /\ ~ IsWhole(l.val)

MkAtom(l, int) ==
    IF Strange(l, int) THEN <<>>
    ELSE IF l.kind = "eq" /\ l.lower
    THEN <<Ineq(l.x, l.val, FALSE, TRUE), Ineq(l.x, l.val, TRUE, TRUE)>>
    ELSE IF l.kind = "ineq" /\ l.x \in int
    THEN LET b == AdjustIntegerBound(l.val, l.lower, l.open)
         IN  <<Ineq(l.x, b.val, l.lower, b.open)>>
    ELSE <<l>>

(* The problem of a goal: mk_var, mk_monomial and mk_sum decide which       *)
(* definitions are integers; process_clause turns each clause of literals  *)
(* into a unit or a clause, whose atoms are in the order of their          *)
(* variables (add_clause_core).  A clause without atoms is an exception.   *)
Problem(vars, bools, ints, defs, goal) ==
    LET isInt[x \in vars] ==
            IF x \notin DOMAIN defs THEN x \in ints
            ELSE LET known == {y \in vars : y < x /\ isInt[y]}
                 IN  IF defs[x].kind = "monomial" THEN IsIntMonomial(defs[x], known)
                     ELSE IsIntPolynomial(defs[x], known)
        int == {x \in vars : isInt[x]}
        sorted(c) == LET before(i, j) == c[i].x < c[j].x \/ (c[i].x = c[j].x /\ i < j)
                         order == SetToSortSeq(DOMAIN c, before)
                     IN  [i \in DOMAIN c |-> c[order[i]]]
        open == SelectSeq(goal, LAMBDA c : \A l \in ToSet(c) : ~ (Strange(l, int) /\ l.lower))
        made == [i \in DOMAIN open |-> FlattenSeq([j \in DOMAIN open[i] |-> MkAtom(open[i][j], int)])]
        long == SelectSeq(made, LAMBDA c : Len(c) > 1)
    IN  [vars |-> vars, bool |-> bools, int |-> int, defs |-> defs,
         units |-> FlattenSeq(SelectSeq(made, LAMBDA c : Len(c) = 1)),
         clauses |-> [i \in DOMAIN long |-> sorted(long[i])]]

-----------------------------------------------------------------------------
(* A node.  A bound is [val, open, ts].                                    *)
EmptyNode(p) ==
    [low |-> [x \in p.vars |-> Null], upp |-> [x \in p.vars |-> Null],
     bval |-> [x \in p.bool |-> "undef"], up |-> <<>>, conflict |-> FALSE]

Own(n, x, lower) == IF lower THEN n.low[x] ELSE n.upp[x]

(* The bound b of the direction lower leaves only numbers beyond v; ties   *)
(* says that v itself is beyond v.                                         *)
Past(b, v, lower, ties) ==
    /\ b # Null
    /\ Less(v, b.val, lower) \/ (b.val = v /\ (b.open \/ ties))

Fixed(n, x) == n.low[x] # Null /\ n.upp[x] # Null /\ n.low[x].val = n.upp[x].val

IneqValue(n, a) ==
    IF Past(Own(n, a.x, ~ a.lower), a.val, ~ a.lower, a.open) THEN "false"
    ELSE IF Past(Own(n, a.x, a.lower), a.val, a.lower, ~ a.open) THEN "true"
    ELSE "undef"

EqValue(p, n, a) ==
    LET apart == IF a.lower THEN "true" ELSE "false"
    IN  IF a.x \in p.int /\ ~ IsWhole(a.val) THEN apart
        ELSE IF Fixed(n, a.x) /\ n.low[a.x].val = a.val
             THEN IF a.lower THEN "false" ELSE "true"
        ELSE IF \/ Past(n.upp[a.x], a.val, FALSE, FALSE)
                \/ Past(n.low[a.x], a.val, TRUE, FALSE) THEN apart
        ELSE "undef"

BoolValue(n, a) ==
    IF n.bval[a.x] = "undef" THEN "undef"
    ELSE IF n.bval[a.x] = (IF a.lower THEN "false" ELSE "true") THEN "true" ELSE "false"

Value(p, n, a) ==
    CASE a.kind = "bool" -> BoolValue(n, a)
      [] a.kind = "eq"   -> EqValue(p, n, a)
      [] a.kind = "ineq" -> IneqValue(n, a)

-----------------------------------------------------------------------------
(* New bounds.                                                             *)
AdjustRelaxedBound(val, lower, open) ==
    IF ~ IsWhole(val) THEN [val |-> Round(val, lower), open |-> TRUE]
    ELSE [val |-> val, open |-> open]

TooFine(p, x, val) == x \notin p.int /\ val[2] > MaxDenominator

Normalize(p, x, val, lower, open) ==
    IF x \in p.int THEN AdjustIntegerBound(val, lower, open)
    ELSE IF ~ TooFine(p, x, val) THEN [val |-> val, open |-> open]
    ELSE [AdjustRelaxedBound(Times(Whole(AdjustDenominator), val), lower, open)
            EXCEPT !.val = Times(Ratio(1, AdjustDenominator), @)]

Improves(n, x, val, lower, open) ==
    LET own == Own(n, x, lower)
    IN  \/ Past(Own(n, x, ~ lower), val, ~ lower, open)
        \/ own = Null
        \/ Less(own.val, val, lower)
        \/ own.val = val /\ open /\ ~ own.open

(* relevant_new_bound: worth a step of propagation.                        *)
Relevant(n, x, val, lower, open) ==
    LET own == Own(n, x, lower)
        other == Own(n, x, ~ lower)
        size(v) == IF Lt(v, Zero) THEN Opposite(v) ELSE v
        span == IF other = Null THEN size(own.val)
                ELSE Lesser(size(own.val), size(Minus(other.val, own.val)))
        delta == Times(Epsilon, Greater(One, span))
        limit == IF lower THEN MaxBound ELSE Opposite(MaxBound)
    IN  \/ Past(other, val, ~ lower, open)
        \/ /\ Epsilon = Zero => Improves(n, x, val, lower, open)
           /\ other = Null => ~ Less(limit, val, lower)
           /\ (Epsilon # Zero /\ own # Null) =>
                 Less(IF lower THEN Plus(own.val, delta) ELSE Minus(own.val, delta), val, lower)

(* mk_bound and node::push: the bound replaces the old one, whatever it is.*)
Pushed(n, x, b, lower) ==
    LET m == IF lower THEN [n EXCEPT !.low[x] = b] ELSE [n EXCEPT !.upp[x] = b]
    IN  [m EXCEPT !.conflict = m.low[x] # Null /\ Past(m.upp[x], m.low[x].val, FALSE, m.low[x].open)]

PushedBool(n, x, neg) ==
    LET v == IF neg THEN "false" ELSE "true"
        w == IF n.bval[x] \in {"undef", v} THEN v ELSE "conflict"
    IN  [n EXCEPT !.bval[x] = w, !.conflict = w = "conflict"]

-----------------------------------------------------------------------------
(* ineq_lit_cmp: a is tighter than b, an atom of the same variable and     *)
(* direction.                                                              *)
Tighter(a, b) == Less(b.val, a.val, a.lower) \/ (a.val = b.val /\ a.open /\ ~ b.open)

(* The tightest and the loosest of some inequalities: none of none, else   *)
(* one.                                                                    *)
Tightest(S) == {a \in S : \A b \in S : ~ Tighter(b, a)}
Loosest(S) == {a \in S : \A b \in S : ~ Tighter(a, b)}

(* The number v satisfies the inequality a.                                *)
Meets(a, v) == Less(a.val, v, a.lower) \/ (a.val = v /\ ~ a.open)

(* simplify_ineqs_in_clause, for the atoms S of one variable: in a         *)
(* conjunction they may contradict each other, in a disjunction exhaust    *)
(* the numbers; otherwise, what is left of them.                           *)
Bools(S) == {a \in S : a.kind = "bool"}
Eqs(S) == {a \in S : a.kind = "eq"}
Lows(S) == {a \in S : a.kind = "ineq" /\ a.lower}
Upps(S) == {a \in S : a.kind = "ineq" /\ ~ a.lower}

Inner(S) == Tightest(Lows(S)) \cup Tightest(Upps(S))
Within(S) == {a \in Eqs(S) : \A b \in Inner(S) : Meets(b, a.val)}
Contradiction(S) ==
    \/ \E a \in Eqs(S) \ Within(S) : ~ a.lower
    \/ \E l \in Tightest(Lows(S)), u \in Tightest(Upps(S)) :
          Lt(u.val, l.val) \/ (u.val = l.val /\ (u.open \/ l.open))
AllOf(S) ==
    Bools(S) \cup Within(S) \cup (IF \E a \in Within(S) : ~ a.lower THEN {} ELSE Inner(S))

Outer(S) == Loosest(Lows(S)) \cup Loosest(Upps(S))
Without(S) == {a \in Eqs(S) : \A b \in Outer(S) : ~ Meets(b, a.val)}
Tautology(S) ==
    \/ \E a \in Eqs(S) \ Without(S) : a.lower
    \/ \E l \in Loosest(Lows(S)), u \in Loosest(Upps(S)) :
          Lt(l.val, u.val) \/ (u.val = l.val /\ ~ (u.open /\ l.open))

(* Fault: an equation that is not covered hides the bounds.                *)
AnyOfHiding(S) ==
    Bools(S) \cup Without(S) \cup (IF Without(S) # {} THEN {} ELSE Outer(S))

AnyOf(S) ==
    Bools(S) \cup Without(S) \cup (IF \E a \in Without(S) : a.lower THEN {} ELSE Outer(S))

(* Variable by variable.                                                   *)
OfVar(S, x) == {a \in S : a.x = x}
Contradictory(S) == \E a \in S : Contradiction(OfVar(S, a.x))
Conjoined(S) == UNION {AllOf(OfVar(S, a.x)) : a \in S}
Exhaustive(S) == \E a \in S : Tautology(OfVar(S, a.x))
Disjoined(S) == UNION {AnyOf(OfVar(S, a.x)) : a \in S}

-----------------------------------------------------------------------------
Rank(a) == CASE a.kind = "bool" -> 0 [] a.kind = "eq" -> 1 [] a.kind = "ineq" -> 2

(* Those of a sequence that are in S, each once; and those in some sets,   *)
(* set by set.                                                             *)
AddIn(S, s, e) == IF e \in S \ ToSet(s) THEN Append(s, e) ELSE s
Those(seq, S) == FoldLeft(LAMBDA s, e : AddIn(S, s, e), <<>>, seq)
AddThose(seq, s, S) == s \o Those(seq, S)
Arranged(seq, sets) == FoldLeft(LAMBDA s, S : AddThose(seq, s, S), <<>>, sets)

Positions(s) == [i \in DOMAIN s |-> i]

(* The literals S of the clause c in the order in which                    *)
(* simplify_ineqs_in_clause puts them out: variable by variable, its       *)
(* Boolean literals, equations, lower and upper bound.                     *)
Place(a) == 4 * a.x - (CASE a.kind = "bool" -> 3 [] a.kind = "eq" -> 2 [] a.kind = "ineq" -> IF a.lower THEN 1 ELSE 0)
Ordered(p, c, S) == Arranged(c, [k \in 1 .. 4 * Cardinality(p.vars) |-> {a \in S : Place(a) = k}])

(* Fault: the comparison is turned round.                                  *)
ImpliedBackwards(a, b) ==
    /\ a.lower = b.lower
    /\ a.kind = "eq" => a.val = b.val
    /\ a.kind = "ineq" => ~ Tighter(b, a)

(* The literal b of the shorter clause implies a.                          *)
Implied(a, b) ==
    /\ a.lower = b.lower
    /\ a.kind = "eq" => a.val = b.val
    /\ a.kind = "ineq" => ~ Tighter(a, b)

(* test_dominated: one pass over both clauses.                             *)
TestDominated(longer, shorter) ==
    LET from[at \in Nat \X Nat] ==
            LET s == at[1]
                l == at[2]
            IN  IF s > Len(shorter) THEN TRUE
                ELSE IF l > Len(longer) THEN FALSE
                ELSE LET a == longer[l]
                         b == shorter[s]
                     IN  CASE Rank(a) < Rank(b) -> from[<<s, l + 1>>]
                           [] Rank(a) > Rank(b) -> FALSE
                           [] Rank(a) = Rank(b) /\ a.x < b.x -> from[<<s, l + 1>>]
                           [] Rank(a) = Rank(b) /\ a.x > b.x -> FALSE
                           [] OTHER -> IF Implied(a, b) THEN from[<<s + 1, l + 1>>] ELSE from[<<s, l + 1>>]
    IN  from[<<1, 1>>]

(* Short clauses first.                                                    *)
ShortFirst(clauses) ==
    LET longest == Cardinality(UNION {DOMAIN c : c \in ToSet(clauses)})
    IN  Arranged(Positions(clauses), [k \in 1 .. longest |-> {i \in DOMAIN clauses : Len(clauses[i]) = k}])

KeepIn(clauses, out, i) ==
    IF \E j \in DOMAIN out : TestDominated(clauses[i], out[j]) THEN out ELSE Append(out, clauses[i])

RemoveDominated(clauses) ==
    FoldLeft(LAMBDA out, i : KeepIn(clauses, out, i), <<>>, ShortFirst(clauses))

(* The clauses that are not satisfied at a node, and the atoms of a clause *)
(* that are not decided there.                                             *)
OpenClauses(p, n) == {i \in DOMAIN p.clauses : \A a \in ToSet(p.clauses[i]) : Value(p, n, a) # "true"}
OpenAtoms(p, n, i) == {a \in ToSet(p.clauses[i]) : Value(p, n, a) = "undef"}

BoundLits(p, n, x) ==
    IF x \in p.bool THEN {Bool(x, v = "false") : v \in {n.bval[x]} \ {"undef"}}
    ELSE IF Fixed(n, x) THEN {Eq(x, n.low[x].val, FALSE)}
    ELSE {Ineq(x, Own(n, x, lower).val, lower, Own(n, x, lower).open) :
             lower \in {l \in BOOLEAN : Own(n, x, l) # Null}}

Plain(p) == p.vars \ DOMAIN p.defs

(* convert_node_to_task.  What is a unit at the node: clauses with one     *)
(* atom left, units and derived units of defined variables, and the bounds *)
(* of plain variables, on which a unit of one of these counts.             *)
Left(p, n) == {i \in OpenClauses(p, n) : ~ Exhaustive(OpenAtoms(p, n, i))}
Small(p, n, i) == Disjoined(OpenAtoms(p, n, i))
Units(p, n) ==
    (UNION {Small(p, n, i) : i \in {k \in Left(p, n) : Cardinality(Small(p, n, k)) = 1}})
    \cup {a \in ToSet(p.units) \cup ToSet(n.up) : a.x \in DOMAIN p.defs}
    \cup (UNION {BoundLits(p, n, x) : x \in Plain(p)})

(* It returns true: the node is refuted.                                   *)
Refuted(p, n) ==
    \/ \E i \in OpenClauses(p, n) : OpenAtoms(p, n, i) = {}
    \/ Contradictory(Units(p, n))

ToTask(p, n) ==
    LET long == Those(Positions(p.clauses), {i \in Left(p, n) : Cardinality(Small(p, n, i)) > 1})
        ordered == [k \in DOMAIN long |-> Ordered(p, p.clauses[long[k]], Small(p, n, long[k]))]
    IN  [clauses |-> RemoveDominated(ordered), bounds |-> Conjoined(Units(p, n))]

-----------------------------------------------------------------------------
(* What a problem means (for the properties).  A point gives every         *)
(* variable a number, 1 to a Boolean one that is true; it lies in the box  *)
(* of a node when it is within the bounds; a model satisfies the units,    *)
(* the clauses and the definitions.                                        *)
Holds(m, a) ==
    CASE a.kind = "bool" -> (m[a.x] = One) # a.lower
      [] a.kind = "eq"   -> (m[a.x] = a.val) # a.lower
      [] a.kind = "ineq" -> Meets(a, m[a.x])

InBox(p, m, n) ==
    \A x \in p.vars :
        IF x \in p.bool THEN n.bval[x] \in {"undef", IF m[x] = One THEN "true" ELSE "false"}
        ELSE \A lower \in BOOLEAN : LET b == Own(n, x, lower) IN
                b # Null => Meets([val |-> b.val, lower |-> lower, open |-> b.open], m[x])

AddTerm(d, m, r, i) == Plus(r, Times(d.as[i], m[d.xs[i]]))
MultiplyTerm(d, m, r, i) == Times(r, Power(m[d.xs[i]], d.degs[i]))
DefValue(d, m) ==
    IF d.kind = "polynomial" THEN FoldLeftDomain(LAMBDA r, i : AddTerm(d, m, r, i), Zero, d.xs)
    ELSE FoldLeftDomain(LAMBDA r, i : MultiplyTerm(d, m, r, i), One, d.xs)

IsPoint(p, m) ==
    /\ \A x \in p.vars : IsNumber(m[x]) /\ (x \in p.int => IsWhole(m[x]))
    /\ \A x \in DOMAIN p.defs : m[x] = DefValue(p.defs[x], m)

IsModel(p, m) ==
    /\ IsPoint(p, m)
    /\ \A a \in ToSet(p.units) : Holds(m, a)
    /\ \A c \in ToSet(p.clauses) : \E a \in ToSet(c) : Holds(m, a)

(* A well-formed problem: an atom, a definition.                           *)
IsAtom(p, a) ==
    /\ a.kind \in {"bool", "eq", "ineq"} /\ a.lower \in BOOLEAN /\ a.open \in BOOLEAN
    /\ a.x \in p.vars /\ (a.x \in p.bool <=> a.kind = "bool")
    /\ IsNumber(a.val)
    /\ a.kind = "eq" => ~ a.lower /\ (a.x \in p.int => IsWhole(a.val))

IsDefinition(p, d) ==
    /\ d.xs \in Seq(p.vars \ p.bool)
    /\ \/ d.kind = "monomial" /\ d.degs \in [DOMAIN d.xs -> Nat \ {0}]
       \/ /\ d.kind = "polynomial"
          /\ \A i \in DOMAIN d.xs : IsNumber(d.as[i]) /\ d.as[i] # Zero

IsProblem(p) ==
    /\ IsFiniteSet(p.vars) /\ p.vars = 1 .. Cardinality(p.vars)
    /\ p.bool \subseteq p.vars /\ p.int \subseteq p.vars \ p.bool
    /\ DOMAIN p.defs \subseteq p.vars \ p.bool
    /\ \A x \in DOMAIN p.defs : IsDefinition(p, p.defs[x])
    /\ p.units \in Seq(ToSet(p.units)) /\ \A a \in ToSet(p.units) : IsAtom(p, a)
    /\ p.clauses \in Seq(ToSet(p.clauses))
    /\ \A c \in ToSet(p.clauses) : c \in Seq(ToSet(c)) /\ Len(c) > 1 /\ \A a \in ToSet(c) : IsAtom(p, a)
=============================================================================
