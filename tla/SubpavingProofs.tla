-------------------------- MODULE SubpavingProofs ---------------------------
(***************************************************************************)
(* Proofs about the tree of the partitioner (Subpaving), for every set of  *)
(* problems whose definitions are sums.  What create_new_task makes of a   *)
(* node has every model of the node, and nothing satisfies it but models   *)
(* of the problem in the box of the node; a node is cut strictly inside    *)
(* its bounds.                                                             *)
(*                                                                         *)
(* Two inductive invariants follow.  Inv says which models are in which    *)
(* node, and with TasksKept gives NoModelLost.  ExactInv, on top of it,    *)
(* says what a node knows exactly while no bound was relaxed: which points *)
(* its bounds let in, which clauses it has missed, and that a half is      *)
(* stricter than its parent.  It gives TaskHasOnlyModelsUnlessRelaxed,     *)
(* PropagationComplete and SplitNarrows.                                   *)
(***************************************************************************)
EXTENDS PropagationProofs

-----------------------------------------------------------------------------
(* The task of a node: its literals are atoms of the problem.              *)

LEMMA PositionsType ==
    ASSUME NEW s, Len(s) \in Nat, DOMAIN s = 1 .. Len(s)
    PROVE  /\ Len(Positions(s)) = Len(s) /\ DOMAIN Positions(s) = DOMAIN s
           /\ ToSet(Positions(s)) = DOMAIN s
<1>1. Positions(s) = [i \in 1 .. Len(s) |-> i]
    BY DEF Positions
<1>2. Len(Positions(s)) = Len(s) /\ DOMAIN Positions(s) = DOMAIN s /\ \A i \in DOMAIN s : Positions(s)[i] = i
    BY <1>1
<1>3. ToSet(Positions(s)) = DOMAIN s
    BY <1>2 DEF ToSet
<1> QED
    BY <1>2, <1>3

LEMMA LongestType ==
    ASSUME NEW s, Len(s) \in Nat, DOMAIN s = 1 .. Len(s), NEW T, \A i \in DOMAIN s : s[i] \in Seq(T)
    PROVE  Cardinality(UNION {DOMAIN c : c \in ToSet(s)}) \in Nat
<1> DEFINE D == {DOMAIN c : c \in ToSet(s)}
           f == [i \in 1 .. Len(s) |-> DOMAIN s[i]]
<1>1. f \in Surjection(1 .. Len(s), D)
    <2>1. f \in [1 .. Len(s) -> D]
        BY DEF ToSet
    <2>2. \A d \in D : \E i \in 1 .. Len(s) : f[i] = d
        BY DEF ToSet
    <2> HIDE DEF f, D
    <2> QED
        BY <2>1, <2>2 DEF Surjection
<1>2. \A d \in D : IsFiniteSet(d)
    <2> SUFFICES ASSUME NEW i \in DOMAIN s PROVE IsFiniteSet(DOMAIN s[i])
        BY DEF ToSet
    <2>1. Len(s[i]) \in Nat /\ DOMAIN s[i] = 1 .. Len(s[i])
        OBVIOUS
    <2>2. IsFiniteSet(1 .. Len(s[i]))
        BY <2>1, FS_Interval
    <2> QED
        BY <2>1, <2>2
<1> HIDE DEF D, f
<1>3. IsFiniteSet(D)
    <2>1. ExistsSurjection(1 .. Len(s), D)
        BY <1>1 DEF ExistsSurjection
    <2> QED
        BY <2>1, FS_NatSurjection
<1>4. IsFiniteSet(UNION D)
    BY <1>2, <1>3, FS_UNION
<1>5. Cardinality(UNION D) \in Nat
    BY <1>4, FS_CardinalityType
<1> QED
    BY <1>5 DEF D

LEMMA KeepRuns ==
    ASSUME NEW s, Len(ShortFirst(s)) \in Nat, DOMAIN ShortFirst(s) = 1 .. Len(ShortFirst(s))
    PROVE  \E g : /\ g[0] = <<>>
                  /\ \A k \in 0 .. Len(ShortFirst(s)) - 1 : g[k + 1] = KeepStep(s, 0, 0, g[k], ShortFirst(s)[k + 1])
                  /\ RemoveDominated(s) = g[Len(ShortFirst(s))]
<1> DEFINE seq == ShortFirst(s)
<1>1. RemoveDominated(s) = K1!Folded(s, 0, 0, <<>>, seq)
    BY DEF RemoveDominated, seq, K1!Folded, K1!Greatest, KeepStep, FoldLeft, MapThenFoldSet, Max
<1> HIDE DEF seq
<1>2. Len(seq) \in Nat /\ DOMAIN seq = 1 .. Len(seq)
    BY DEF seq
<1>3. \E g : /\ g[0] = <<>>
             /\ \A k \in 0 .. Len(seq) - 1 : g[k + 1] = KeepStep(s, 0, 0, g[k], seq[k + 1])
             /\ RemoveDominated(s) = g[Len(seq)]
    BY ONLY <1>1, <1>2, K1!FoldRuns
<1> QED
    BY <1>3 DEF seq

LEMMA RemoveDominatedType ==
    ASSUME NEW s, Len(s) \in Nat, DOMAIN s = 1 .. Len(s), NEW T, \A i \in DOMAIN s : s[i] \in Seq(T)
    PROVE  RemoveDominated(s) \in Seq(ToSet(s))
<1> DEFINE longest == Cardinality(UNION {DOMAIN c : c \in ToSet(s)})
           sets == [k \in 1 .. longest |-> {i \in DOMAIN s : Len(s[i]) = k}]
           seq == ShortFirst(s)
<1>1. longest \in Nat
    BY LongestType
<1>2. seq = Arranged(Positions(s), sets)
    BY DEF ShortFirst
<1> HIDE DEF longest
<1>3. Len(sets) = longest /\ DOMAIN sets = 1 .. Len(sets) /\ \A k \in DOMAIN sets : sets[k] \subseteq DOMAIN s
    BY <1>1
<1> HIDE DEF sets, seq
<1>4. Len(Positions(s)) = Len(s) /\ DOMAIN Positions(s) = DOMAIN s
    BY PositionsType
<1>5. Arranged(Positions(s), sets) \in Seq(DOMAIN s \cap ToSet(Positions(s)))
    BY <1>1, <1>3, <1>4, ArrangedType
<1>6. DOMAIN s \cap ToSet(Positions(s)) \subseteq DOMAIN s
    OBVIOUS
<1>7. seq \in Seq(DOMAIN s)
    BY <1>2, <1>5, <1>6
<1>8. Len(seq) \in Nat /\ DOMAIN seq = 1 .. Len(seq) /\ \A k \in DOMAIN seq : seq[k] \in DOMAIN s
    BY <1>7
<1>10. PICK g : /\ g[0] = <<>>
                /\ \A k \in 0 .. Len(seq) - 1 : g[k + 1] = KeepStep(s, 0, 0, g[k], seq[k + 1])
                /\ RemoveDominated(s) = g[Len(seq)]
    BY <1>8, KeepRuns DEF seq
<1> DEFINE D == {k \in Nat : g[k] \in Seq(ToSet(s))}
<1>11. 0 \in D
    <2>1. <<>> \in Seq(ToSet(s))
        OBVIOUS
    <2> QED
        BY <1>10, <2>1
<1>12. ASSUME NEW k \in 0 .. Len(seq) - 1, k \in D PROVE k + 1 \in D
    <2>1. k + 1 \in DOMAIN seq /\ k + 1 \in Nat
        BY <1>8
    <2>2. s[seq[k + 1]] \in ToSet(s)
        BY <1>8, <2>1 DEF ToSet
    <2>3. g[k] \in Seq(ToSet(s))
        BY <1>12
    <2>4. g[k + 1] = g[k] \/ g[k + 1] = Append(g[k], s[seq[k + 1]])
        BY <1>10, <1>12 DEF KeepStep, KeepIn
    <2> DEFINE e == s[seq[k + 1]]
               U == ToSet(s)
    <2> HIDE DEF e, U
    <2>5. Append(g[k], e) \in Seq(U)
        BY <2>2, <2>3 DEF e, U
    <2>6. g[k + 1] \in Seq(ToSet(s))
        BY <2>3, <2>4, <2>5 DEF e, U
    <2> QED
        BY <2>1, <2>6
<1> HIDE DEF D
<1>13. \A k \in 0 .. Len(seq) : k \in D
    BY <1>8, <1>11, <1>12, S1!UpTo
<1>14. Len(seq) \in D
    BY <1>8, <1>13
<1> QED
    BY <1>10, <1>14 DEF D

LEMMA DisjoinedSmaller ==
    ASSUME NEW S
    PROVE  Disjoined(S) \subseteq S
<1>1. \A T : AnyOf(T) \subseteq T
    BY DEF AnyOf, Bools, Eqs, Without, Outer, Loosest, Lows, Upps
<1>2. \A x : OfVar(S, x) \subseteq S
    BY DEF OfVar
<1> QED
    BY <1>1, <1>2 DEF Disjoined

-----------------------------------------------------------------------------
(* The refutation that create_new_task does on the task: it excludes no    *)
(* point of the box.                                                       *)
(* Inequalities of one direction.                                          *)
AreBounds(S, lower) == \A a \in S : IsNumber(a.val) /\ a.open \in BOOLEAN /\ a.lower = lower

LEMMA TighterOrder ==
    ASSUME NEW lower \in BOOLEAN, NEW S, AreBounds(S, lower), NEW a \in S, NEW b \in S, NEW c \in S
    PROVE  /\ ~ Tighter(a, a)
           /\ Tighter(a, b) /\ Tighter(b, c) => Tighter(a, c)
           /\ \A v : IsNumber(v) /\ Meets(a, v) /\ Tighter(a, b) => Meets(b, v)
<1>1. /\ IsNumber(a.val) /\ a.open \in BOOLEAN /\ a.lower = lower
      /\ IsNumber(b.val) /\ b.open \in BOOLEAN /\ b.lower = lower
      /\ IsNumber(c.val) /\ c.open \in BOOLEAN /\ c.lower = lower
    BY DEF AreBounds
<1>2. \A x, y, z : IsNumber(x) /\ IsNumber(y) /\ IsNumber(z) =>
          ~ Less(x, x, lower) /\ (Less(x, y, lower) /\ Less(y, z, lower) => Less(x, z, lower))
    BY LessOrder
<1>3. ~ Tighter(a, a)
    BY <1>1, <1>2 DEF Tighter
<1>4. Tighter(a, b) /\ Tighter(b, c) => Tighter(a, c)
    BY <1>1, <1>2 DEF Tighter
<1>5. ASSUME NEW v, IsNumber(v), Meets(a, v), Tighter(a, b) PROVE Meets(b, v)
    BY <1>1, <1>2, <1>5 DEF Tighter, Meets
<1> QED
    BY <1>3, <1>4, <1>5

LEMMA LoosestExists ==
    ASSUME NEW lower \in BOOLEAN, NEW S, AreBounds(S, lower), IsFiniteSet(S),
           NEW a \in S, NEW v, IsNumber(v), Meets(a, v)
    PROVE  \E b \in Loosest(S) : Meets(b, v)
<1> DEFINE looser(b) == {c \in S : Tighter(b, c)}
           good == {b \in S : Meets(b, v)}
           D == {Cardinality(looser(b)) : b \in good}
<1>1. \A b \in S : IsFiniteSet(looser(b)) /\ Cardinality(looser(b)) \in Nat
    BY FS_Subset, FS_CardinalityType
<1>2. PICK k \in D : \A d \in D : k <= d
    <2>1. D \subseteq Nat /\ D # {}
        BY <1>1
    <2> HIDE DEF D
    <2> QED
        BY <2>1, S1!Least
<1>3. PICK b \in good : k = Cardinality(looser(b))
    OBVIOUS
<1>4. ASSUME NEW c \in S, Tighter(b, c) PROVE FALSE
    <2>1. c \in good
        BY <1>3, <1>4, TighterOrder
    <2>2. looser(c) \subseteq looser(b)
        <3> SUFFICES ASSUME NEW d \in S, Tighter(c, d) PROVE Tighter(b, d)
            OBVIOUS
        <3>1. b \in S
            BY <1>3
        <3> QED
            BY <1>4, <3>1, TighterOrder
    <2>3. c \in looser(b) /\ c \notin looser(c)
        BY <1>4, TighterOrder
    <2>4. Cardinality(looser(c)) \in D
        BY <2>1
    <2>5. Cardinality(looser(c)) >= Cardinality(looser(b))
        BY <1>2, <1>3, <2>4
    <2>6. IsFiniteSet(looser(b)) /\ Cardinality(looser(b)) \in Nat /\ Cardinality(looser(c)) \in Nat
        BY <1>1, <1>3
    <2> HIDE DEF looser
    <2>7. Cardinality(looser(b)) = Cardinality(looser(c))
        BY <2>2, <2>5, <2>6, FS_Subset
    <2>8. looser(b) = looser(c)
        BY <2>2, <2>6, <2>7, FS_Subset
    <2> QED
        BY <2>3, <2>8
<1>5. b \in Loosest(S)
    BY <1>3, <1>4 DEF Loosest
<1> QED
    BY <1>3, <1>5

(* What is left of a disjunction that is not exhausted: of the atoms S of  *)
(* one variable, when one holds then one of AnyOf(S) holds.                *)
LEMMA AnyOfHolds ==
    ASSUME NEW p, NEW m, IsPoint(p, m), NEW x \in p.vars, NEW S, IsFiniteSet(S),
           \A a \in S : IsAtom(p, a) /\ a.x = x, ~ Tautology(S), NEW a \in S, Holds(m, a)
    PROVE  \E b \in AnyOf(S) : Holds(m, b)
<1> DEFINE v == m[x]
<1>0. IsNumber(v)
    BY DEF IsPoint
<1>1. /\ \A b \in S : b.x = x /\ b.kind \in {"bool", "eq", "ineq"} /\ b.lower \in BOOLEAN /\ b.open \in BOOLEAN /\ IsNumber(b.val)
    BY DEF IsAtom
<1> HIDE DEF v
<1>2. \A b \in S : b.kind = "eq" => (Holds(m, b) <=> ((v = b.val) # b.lower))
    BY <1>1 DEF Holds, v
<1>3. \A b \in S : b.kind = "ineq" => (Holds(m, b) <=> Meets(b, v))
    BY <1>1 DEF Holds, v
<1>4. \A b \in Outer(S) : b \in S /\ b.kind = "ineq"
    BY DEF Outer, Loosest, Lows, Upps
<1>5. ASSUME NEW b \in Outer(S), Meets(b, v) PROVE \E c \in AnyOf(S) : Holds(m, c)
    <2>1. CASE \E e \in Without(S) : e.lower
        <3>1. PICK e \in Without(S) : e.lower
            BY <2>1
        <3>2. e \in S /\ e.kind = "eq" /\ ~ Meets(b, e.val)
            BY <3>1 DEF Without, Eqs
        <3>3. v # e.val
            BY <1>5, <3>2
        <3>4. Holds(m, e)
            BY <1>2, <3>1, <3>2, <3>3
        <3> QED
            BY <3>4 DEF AnyOf
    <2>2. CASE ~ \E e \in Without(S) : e.lower
        BY <1>3, <1>4, <1>5, <2>2 DEF AnyOf
    <2> QED
        BY <2>1, <2>2
<1>6. CASE a.kind = "bool"
    BY <1>6 DEF AnyOf, Bools
<1>7. CASE a.kind = "eq"
    <2>1. CASE a \in Without(S)
        BY <2>1 DEF AnyOf
    <2>2. CASE a \notin Without(S)
        <3>1. ~ a.lower /\ \E b \in Outer(S) : Meets(b, a.val)
            BY <1>7, <2>2 DEF Tautology, Eqs, Without
        <3>2. v = a.val
            BY <1>1, <1>2, <1>7, <3>1
        <3> QED
            BY <1>5, <3>1, <3>2
    <2> QED
        BY <2>1, <2>2
<1>8. CASE a.kind = "ineq"
    <2>1. Meets(a, v)
        BY <1>3, <1>8
    <2>2. CASE a.lower = TRUE
        <3>1. AreBounds(Lows(S), TRUE) /\ IsFiniteSet(Lows(S)) /\ a \in Lows(S)
            BY <1>1, <1>8, <2>2, FS_Subset DEF AreBounds, Lows
        <3>2. PICK b \in Loosest(Lows(S)) : Meets(b, v)
            BY <1>0, <2>1, <3>1, LoosestExists
        <3> QED
            BY <1>5, <3>2 DEF Outer
    <2>3. CASE a.lower = FALSE
        <3>1. AreBounds(Upps(S), FALSE) /\ IsFiniteSet(Upps(S)) /\ a \in Upps(S)
            BY <1>1, <1>8, <2>3, FS_Subset DEF AreBounds, Upps
        <3>2. PICK b \in Loosest(Upps(S)) : Meets(b, v)
            BY <1>0, <2>1, <3>1, LoosestExists
        <3> QED
            BY <1>5, <3>2 DEF Outer
    <2> QED
        BY <1>1, <2>2, <2>3
<1> QED
    BY <1>1, <1>6, <1>7, <1>8

LEMMA DisjoinedHolds ==
    ASSUME NEW p, NEW m, IsPoint(p, m), NEW S, IsFiniteSet(S), \A a \in S : IsAtom(p, a),
           ~ Exhaustive(S), NEW a \in S, Holds(m, a)
    PROVE  \E b \in Disjoined(S) : Holds(m, b)
<1> DEFINE T == OfVar(S, a.x)
<1>1. IsFiniteSet(T) /\ a \in T /\ a.x \in p.vars /\ \A b \in T : IsAtom(p, b) /\ b.x = a.x
    BY FS_Subset DEF OfVar, IsAtom
<1>2. ~ Tautology(T)
    BY DEF Exhaustive
<1> HIDE DEF T
<1>3. \E b \in AnyOf(T) : Holds(m, b)
    BY <1>1, <1>2, AnyOfHolds
<1> QED
    BY <1>3 DEF Disjoined, T

(* A conjunction that a point satisfies does not contradict itself.        *)
LEMMA NotContradictory ==
    ASSUME NEW p, NEW m, IsPoint(p, m), NEW S, \A a \in S : IsAtom(p, a) /\ Holds(m, a)
    PROVE  ~ Contradictory(S)
<1> SUFFICES ASSUME NEW c \in S, Contradiction(OfVar(S, c.x)) PROVE FALSE
    BY DEF Contradictory
<1> DEFINE x == c.x
           v == m[x]
           T == OfVar(S, x)
<1>1. IsNumber(v)
    BY DEF IsPoint, IsAtom
<1>2. \A a \in T : a \in S /\ a.x = x /\ a.kind \in {"bool", "eq", "ineq"} /\ a.lower \in BOOLEAN /\ a.open \in BOOLEAN /\ IsNumber(a.val) /\ Holds(m, a)
    BY DEF OfVar, IsAtom
<1> HIDE DEF T, v, x
<1>3. \A a \in T : (a.kind = "eq" => ((v = a.val) # a.lower)) /\ (a.kind = "ineq" => Meets(a, v))
    BY <1>2 DEF Holds, v
<1>4. ASSUME NEW a \in Eqs(T) \ Within(T), ~ a.lower PROVE FALSE
    <2>1. a \in T /\ a.kind = "eq" /\ \E b \in Inner(T) : ~ Meets(b, a.val)
        BY <1>4 DEF Eqs, Within
    <2>2. v = a.val
        BY <1>2, <1>3, <1>4, <2>1
    <2>3. PICK b \in Inner(T) : ~ Meets(b, v)
        BY <2>1, <2>2
    <2>4. b \in T /\ b.kind = "ineq"
        BY DEF Inner, Tightest, Lows, Upps
    <2> QED
        BY <1>3, <2>3, <2>4
<1>5. ASSUME NEW l \in Tightest(Lows(T)), NEW u \in Tightest(Upps(T)),
             Lt(u.val, l.val) \/ (u.val = l.val /\ (u.open \/ l.open))
      PROVE  FALSE
    <2>1. l \in T /\ l.kind = "ineq" /\ l.lower = TRUE /\ u \in T /\ u.kind = "ineq" /\ u.lower = FALSE
        BY <1>2 DEF Tightest, Lows, Upps
    <2>2. IsNumber(l.val) /\ IsNumber(u.val)
        BY <1>2, <2>1
    <2>3. Lt(l.val, v) \/ (l.val = v /\ ~ l.open)
        BY <1>3, <2>1 DEF Meets, Less
    <2>4. Lt(v, u.val) \/ (u.val = v /\ ~ u.open)
        BY <1>3, <2>1 DEF Meets, Less
    <2>5. \A a, b, d : IsNumber(a) /\ IsNumber(b) /\ IsNumber(d) => ~ Lt(a, a) /\ (Lt(a, b) /\ Lt(b, d) => Lt(a, d))
        BY LtOrder, LtTransitive
    <2> QED
        BY <1>1, <1>5, <2>2, <2>3, <2>4, <2>5
<1> QED
    BY <1>4, <1>5 DEF Contradiction, T, x

LEMMA BoundLitsHold ==
    ASSUME NEW p, IsProblem(p), NEW m, IsPoint(p, m), NEW n \in Nodes(p), InBox(p, m, n), NEW x \in p.vars
    PROVE  \A a \in BoundLits(p, n, x) : IsAtom(p, a) /\ Holds(m, a)
<1>1. CASE x \in p.bool
    <2> SUFFICES ASSUME NEW v \in {n.bval[x]} \ {"undef"}
                 PROVE  IsAtom(p, Bool(x, v = "false")) /\ Holds(m, Bool(x, v = "false"))
        BY <1>1 DEF BoundLits
    <2> DEFINE neg == v = "false"
               a == Bool(x, neg)
    <2>1. v = IF m[x] = One THEN "true" ELSE "false"
        BY <1>1 DEF InBox
    <2>2. a.kind = "bool" /\ a.x = x /\ a.lower = neg /\ a.val = Zero /\ a.open = FALSE /\ neg \in BOOLEAN
        BY DEF Bool
    <2>3. (m[x] = One) # neg
        BY <2>1
    <2> HIDE DEF a, neg
    <2>4. IsAtom(p, a)
        BY <1>1, <2>2, ZeroOne DEF IsAtom
    <2>5. Holds(m, a)
        BY <2>2, <2>3 DEF Holds
    <2> QED
        BY <2>4, <2>5 DEF a, neg
<1>2. CASE x \notin p.bool /\ Fixed(n, x)
    <2> DEFINE l == n.low[x]
               u == n.upp[x]
               a == Eq(x, l.val, FALSE)
    <2>1. l # Null /\ u # Null /\ l.val = u.val /\ Own(n, x, TRUE) = l /\ Own(n, x, FALSE) = u
        BY <1>2 DEF Fixed, Own
    <2>2. IsNumber(l.val) /\ LetsIn(l, TRUE, m[x]) /\ LetsIn(u, FALSE, m[x])
        BY <1>2, <2>1, OwnBound, BoxBound
    <2>3. IsNumber(m[x])
        BY DEF IsPoint
    <2>4. BoundLits(p, n, x) = {a}
        BY <1>2 DEF BoundLits
    <2>5. a.kind = "eq" /\ a.x = x /\ a.lower = FALSE /\ a.val = l.val /\ a.open = FALSE
        BY DEF Eq
    <2> HIDE DEF l, u, a
    <2>6. Lt(l.val, m[x]) \/ l.val = m[x]
        BY <2>2 DEF LetsIn, Meets, Less
    <2>7. Lt(m[x], l.val) \/ l.val = m[x]
        BY <2>1, <2>2 DEF LetsIn, Meets, Less
    <2>8. m[x] = l.val
        BY <2>2, <2>3, <2>6, <2>7, LtOrder
    <2>9. IsAtom(p, a) /\ Holds(m, a)
        BY <1>2, <2>2, <2>5, <2>8 DEF IsAtom, Holds, IsPoint
    <2> QED
        BY <2>4, <2>9
<1>3. CASE x \notin p.bool /\ ~ Fixed(n, x)
    <2> SUFFICES ASSUME NEW l \in BOOLEAN, Own(n, x, l) # Null
                 PROVE  LET a == Ineq(x, Own(n, x, l).val, l, Own(n, x, l).open) IN IsAtom(p, a) /\ Holds(m, a)
        BY <1>3 DEF BoundLits
    <2> DEFINE b == Own(n, x, l)
               a == Ineq(x, b.val, l, b.open)
    <2>1. b \in Bounds /\ IsNumber(b.val) /\ b.open \in BOOLEAN /\ LetsIn(b, l, m[x])
        BY <1>3, OwnBound, BoxBound DEF Bounds
    <2> HIDE DEF b
    <2>2. a.kind = "ineq" /\ a.x = x /\ a.lower = l /\ a.val = b.val /\ a.open = b.open
        BY DEF Ineq
    <2> HIDE DEF a
    <2>3. IsAtom(p, a) /\ Holds(m, a)
        BY <1>3, <2>1, <2>2 DEF IsAtom, Holds, LetsIn, Meets
    <2> QED
        BY <2>3 DEF a, b
<1> QED
    BY <1>1, <1>2, <1>3

(* The atoms of a clause that are not decided at a node; what they are     *)
(* reduced to.                                                             *)
LEMMA SeqFinite ==
    ASSUME NEW T, NEW c \in Seq(T)
    PROVE  IsFiniteSet(ToSet(c))
<1>1. Len(c) \in Nat /\ DOMAIN c = 1 .. Len(c)
    OBVIOUS
<1>2. c \in Surjection(1 .. Len(c), ToSet(c))
    <2>1. c \in [1 .. Len(c) -> ToSet(c)]
        BY <1>1 DEF ToSet
    <2>2. \A e \in ToSet(c) : \E k \in 1 .. Len(c) : c[k] = e
        BY <1>1 DEF ToSet
    <2> QED
        BY <2>1, <2>2 DEF Surjection
<1>3. ExistsSurjection(1 .. Len(c), ToSet(c))
    BY <1>2 DEF ExistsSurjection
<1> QED
    BY <1>1, <1>3, FS_NatSurjection

LEMMA OpenAtomsType ==
    ASSUME NEW p, IsProblem(p), NEW n, NEW i \in DOMAIN p.clauses
    PROVE  /\ IsFiniteSet(OpenAtoms(p, n, i)) /\ OpenAtoms(p, n, i) \subseteq ToSet(p.clauses[i])
           /\ \A a \in OpenAtoms(p, n, i) : IsAtom(p, a) /\ Value(p, n, a) = "undef"
           /\ Small(p, n, i) \subseteq OpenAtoms(p, n, i) /\ IsFiniteSet(Small(p, n, i))
<1> DEFINE c == p.clauses[i]
<1>1. c \in ToSet(p.clauses)
    BY DEF ToSet
<1>2. c \in Seq(ToSet(c)) /\ \A a \in ToSet(c) : IsAtom(p, a)
    BY <1>1 DEF IsProblem
<1>3. OpenAtoms(p, n, i) \subseteq ToSet(c) /\ \A a \in OpenAtoms(p, n, i) : Value(p, n, a) = "undef"
    BY DEF OpenAtoms
<1> HIDE DEF c
<1>4. IsFiniteSet(OpenAtoms(p, n, i))
    BY <1>2, <1>3, SeqFinite, FS_Subset
<1>5. Small(p, n, i) \subseteq OpenAtoms(p, n, i)
    BY DisjoinedSmaller DEF Small
<1>6. IsFiniteSet(Small(p, n, i))
    BY <1>4, <1>5, FS_Subset
<1> QED
    BY <1>2, <1>3, <1>4, <1>5, <1>6 DEF c

LEMMA OpenAtomHolds ==
    ASSUME NEW p, IsProblem(p), NEW m, IsModel(p, m), NEW n \in Nodes(p), InBox(p, m, n), NEW i \in OpenClauses(p, n)
    PROVE  /\ \E a \in OpenAtoms(p, n, i) : Holds(m, a)
           /\ i \in Left(p, n) => \E a \in Small(p, n, i) : Holds(m, a)
<1>0. IsPoint(p, m) /\ i \in DOMAIN p.clauses
    BY DEF IsModel, OpenClauses
<1> DEFINE c == p.clauses[i]
           S == OpenAtoms(p, n, i)
<1>1. c \in ToSet(p.clauses) /\ \A a \in ToSet(c) : Value(p, n, a) # "true"
    BY DEF OpenClauses, ToSet
<1>2. \A a \in ToSet(c) : IsAtom(p, a)
    BY <1>1 DEF IsProblem
<1>3. PICK a \in ToSet(c) : Holds(m, a)
    BY <1>1 DEF IsModel
<1>4. Value(p, n, a) = "undef"
    BY <1>0, <1>1, <1>2, <1>3, ValueSound
<1>5. a \in S
    BY <1>4 DEF OpenAtoms
<1>6. IsFiniteSet(S) /\ \A b \in S : IsAtom(p, b)
    BY <1>0, OpenAtomsType
<1>7. i \in Left(p, n) => ~ Exhaustive(S) /\ Small(p, n, i) = Disjoined(S)
    BY DEF Left, Small
<1> HIDE DEF S, c
<1>8. i \in Left(p, n) => \E b \in Small(p, n, i) : Holds(m, b)
    BY <1>0, <1>3, <1>5, <1>6, <1>7, DisjoinedHolds
<1> QED
    BY <1>3, <1>5, <1>8 DEF S

(* The units of a node: where they come from, and that a model of the node *)
(* satisfies them.                                                         *)
LEMMA UnitsParts ==
    ASSUME NEW p, NEW n, NEW a
    PROVE  a \in Units(p, n) <=>
              \/ \E i \in Left(p, n) : Cardinality(Small(p, n, i)) = 1 /\ a \in Small(p, n, i)
              \/ a \in ToSet(p.units) \cup ToSet(n.up) /\ a.x \in DOMAIN p.defs
              \/ \E x \in Plain(p) : a \in BoundLits(p, n, x)
<1> DEFINE A == UNION {Small(p, n, i) : i \in {k \in Left(p, n) : Cardinality(Small(p, n, k)) = 1}}
           B == {b \in ToSet(p.units) \cup ToSet(n.up) : b.x \in DOMAIN p.defs}
           C == UNION {BoundLits(p, n, x) : x \in Plain(p)}
<1>1. Units(p, n) = A \cup B \cup C
    BY DEF Units
<1>2. a \in A <=> \E i \in Left(p, n) : Cardinality(Small(p, n, i)) = 1 /\ a \in Small(p, n, i)
    OBVIOUS
<1>3. a \in B <=> a \in ToSet(p.units) \cup ToSet(n.up) /\ a.x \in DOMAIN p.defs
    OBVIOUS
<1>4. a \in C <=> \E x \in Plain(p) : a \in BoundLits(p, n, x)
    OBVIOUS
<1> HIDE DEF A, B, C
<1> QED
    BY <1>1, <1>2, <1>3, <1>4

LEMMA UpAtoms ==
    ASSUME NEW p, IsProblem(p), NEW n \in Nodes(p)
    PROVE  \A a \in ToSet(p.units) \cup ToSet(n.up) : IsAtom(p, a)
<1> DEFINE S == UNION {ToSet(c) : c \in ToSet(p.clauses)}
<1>1. n.up \in Seq(S) /\ \A a \in S : IsAtom(p, a)
    BY DEF Nodes, IsProblem
<1> HIDE DEF S
<1>2. \A a \in ToSet(n.up) : IsAtom(p, a)
    BY <1>1 DEF ToSet
<1> QED
    BY <1>2 DEF IsProblem

LEMMA UnitsHold ==
    ASSUME NEW p, IsProblem(p), NEW m, IsModel(p, m), NEW n \in Nodes(p), InBox(p, m, n),
           \A a \in ToSet(n.up) : Holds(m, a)
    PROVE  \A a \in Units(p, n) : IsAtom(p, a) /\ Holds(m, a)
<1>0. IsPoint(p, m)
    BY DEF IsModel
<1>1. ASSUME NEW i \in Left(p, n), Cardinality(Small(p, n, i)) = 1, NEW a \in Small(p, n, i)
      PROVE  IsAtom(p, a) /\ Holds(m, a)
    <2>1. i \in OpenClauses(p, n) /\ i \in DOMAIN p.clauses
        BY DEF Left, OpenClauses
    <2>2. IsFiniteSet(Small(p, n, i)) /\ \A b \in Small(p, n, i) : IsAtom(p, b)
        BY <2>1, OpenAtomsType
    <2>3. PICK b \in Small(p, n, i) : Holds(m, b)
        BY <2>1, OpenAtomHolds
    <2>4. PICK e : Small(p, n, i) = {e}
        BY <1>1, <2>2, FS_Singleton
    <2> QED
        BY <2>2, <2>3, <2>4
<1>2. \A a \in ToSet(p.units) \cup ToSet(n.up) : IsAtom(p, a) /\ Holds(m, a)
    BY UpAtoms DEF IsModel
<1>3. ASSUME NEW x \in Plain(p), NEW a \in BoundLits(p, n, x) PROVE IsAtom(p, a) /\ Holds(m, a)
    BY <1>0, BoundLitsHold DEF Plain
<1> QED
    BY <1>1, <1>2, <1>3, UnitsParts

(* A node that is refuted has no model.                                    *)
THEOREM RefutedSound ==
    ASSUME NEW p, IsProblem(p), NEW m, IsModel(p, m), NEW n \in Nodes(p), InBox(p, m, n),
           \A a \in ToSet(n.up) : Holds(m, a)
    PROVE  ~ Refuted(p, n)
<1>1. IsPoint(p, m)
    BY DEF IsModel
<1>2. ~ Contradictory(Units(p, n))
    BY <1>1, UnitsHold, NotContradictory
<1>3. \A i \in OpenClauses(p, n) : OpenAtoms(p, n, i) # {}
    BY OpenAtomHolds
<1> QED
    BY <1>2, <1>3 DEF Refuted

-----------------------------------------------------------------------------
(* The two halves of a node, and where it is cut.                          *)
LEMMA HalvesCover ==
    ASSUME NEW a, a.lower \in BOOLEAN, a.open \in BOOLEAN, IsNumber(a.val), NEW v, IsNumber(v)
    PROVE  /\ Meets(a, v) \/ Meets(OtherHalf(a), v)
           /\ OtherHalf(a).kind = "ineq" /\ OtherHalf(a).x = a.x /\ OtherHalf(a).val = a.val
           /\ OtherHalf(a).lower = ~ a.lower /\ OtherHalf(a).open = ~ a.open
<1> DEFINE b == OtherHalf(a)
<1>1. b.kind = "ineq" /\ b.x = a.x /\ b.val = a.val /\ b.lower = ~ a.lower /\ b.open = ~ a.open
    BY DEF OtherHalf, Ineq
<1> HIDE DEF b
<1>2. Less(a.val, v, a.lower) \/ a.val = v \/ Less(a.val, v, ~ a.lower)
    BY LtOrder DEF Less
<1>3. Meets(a, v) \/ Meets(b, v)
    BY <1>1, <1>2 DEF Meets
<1> QED
    BY <1>1, <1>3 DEF b

LEMMA MiddleNumber ==
    ASSUME NEW n \in Nodes(problem), NEW x \in problem.vars
    PROVE  IsNumber(Middle(n, x))
<1> DEFINE l == n.low[x]
           u == n.upp[x]
<1>1. (l # Null => IsNumber(l.val)) /\ (u # Null => IsNumber(u.val))
    BY DEF Nodes, Bounds, Numbers
<1>2. \A a : IsNumber(a) => IsNumber(Floor(a)) /\ IsNumber(Ceil(a))
    <2> SUFFICES ASSUME NEW a, IsNumber(a) PROVE IsNumber(Floor(a)) /\ IsNumber(Ceil(a))
        OBVIOUS
    <2>1. a[1] \in Int /\ a[2] \in Nat \ {0}
        BY Parts
    <2> DEFINE i == a[1]
               j == -a[1]
               d == a[2]
    <2>5. i \in Int /\ j \in Int /\ d \in Nat \ {0}
        BY <2>1
    <2> HIDE DEF i, j, d
    <2>6. i \div d \in Int /\ j \div d \in Int
        BY <2>5, WholePart
    <2>2. a[1] \div a[2] \in Int /\ (-a[1]) \div a[2] \in Int
        BY <2>6 DEF i, j, d
    <2>3. -((-a[1]) \div a[2]) \in Int
        BY <2>2
    <2> QED
        BY <2>2, <2>3, WholeNumber DEF Floor, Ceil
<1>3. IsNumber(Whole(SplitDelta)) /\ IsNumber(Ratio(1, 2)) /\ IsNumber(Zero)
    <2>1. SplitDelta \in Int
        BY SubpavingConstants
    <2> QED
        BY <2>1, WholeNumber, RatioIs, ZeroOne
<1>4. \A a, b : IsNumber(a) /\ IsNumber(b) => IsNumber(Plus(a, b)) /\ IsNumber(Minus(a, b)) /\ IsNumber(Times(a, b))
    BY MinusPlus, TimesLess
<1>5. l = Null /\ u = Null => AcrossZero(n, x)
    BY DEF AcrossZero
<1> QED
    BY <1>1, <1>2, <1>3, <1>4, <1>5 DEF Middle

Lits(t) == UNION {ToSet(c) : c \in ToSet(t.clauses)}

LEMMA CutType ==
    ASSUME IsProblem(problem), \A a \in Lits(task) : IsAtom(problem, a),
           NEW n \in Nodes(problem), NEW x \in Eligible(n), NEW a \in Cuts(n, x)
    PROVE  IsAtom(problem, a) /\ a.kind = "ineq"
<1>1. x \in problem.vars \ problem.bool
    BY DEF Eligible, Plain
<1>2. TaskLits = Lits(task)
    BY DEF TaskLits, Lits
<1>3. \A val, lower, open : IsNumber(val) /\ lower \in BOOLEAN /\ open \in BOOLEAN =>
          IsAtom(problem, Ineq(x, val, lower, open)) /\ Ineq(x, val, lower, open).kind = "ineq"
    BY <1>1 DEF IsAtom, Ineq
<1> DEFINE lits == {b \in TaskLits : b.x = x /\ b.kind # "eq"}
<1>4. \A b \in lits : IsNumber(b.val) /\ b.lower \in BOOLEAN /\ b.open \in BOOLEAN
    BY <1>2 DEF IsAtom
<1>5. Cuts(n, x) = IF lits # {} THEN {Ineq(x, b.val, b.lower, b.open) : b \in lits} ELSE {Ineq(x, Middle(n, x), FALSE, FALSE)}
    BY DEF Cuts
<1>6. IsNumber(Middle(n, x))
    BY <1>1, MiddleNumber
<1> HIDE DEF lits
<1>7. CASE lits # {}
    <2>1. PICK b \in lits : a = Ineq(x, b.val, b.lower, b.open)
        BY <1>5, <1>7
    <2> QED
        BY <1>3, <1>4, <2>1
<1>8. CASE lits = {}
    <2>1. a = Ineq(x, Middle(n, x), FALSE, FALSE)
        BY <1>5, <1>8
    <2> QED
        BY <1>3, <1>6, <2>1
<1> QED
    BY <1>7, <1>8

-----------------------------------------------------------------------------
(* Nothing of what is asked for is left out of an arrangement.             *)
LEMMA ThoseAll ==
    ASSUME NEW seq, Len(seq) \in Nat, DOMAIN seq = 1 .. Len(seq), NEW S
    PROVE  S \cap ToSet(seq) \subseteq ToSet(Those(seq, S))
<1> DEFINE T == S \cap ToSet(seq)
<1>2. PICK g : /\ g[0] = <<>>
               /\ \A k \in 0 .. Len(seq) - 1 : g[k + 1] = ThoseStep(S, 0, 0, g[k], seq[k + 1])
               /\ Those(seq, S) = g[Len(seq)]
    BY ThoseRuns
<1> DEFINE D == {k \in Nat : g[k] \in Seq(T) /\ \A j \in 1 .. k : seq[j] \in S => seq[j] \in ToSet(g[k])}
<1> HIDE DEF T
<1>0. <<>> \in Seq(T)
    OBVIOUS
<1>3. 0 \in D
    <2>1. g[0] \in Seq(T) /\ 1 .. 0 = {}
        BY <1>0, <1>2
    <2> QED
        BY <2>1
<1>4. ASSUME NEW k \in 0 .. Len(seq) - 1, k \in D PROVE k + 1 \in D
    <2>1. k + 1 \in DOMAIN seq /\ k + 1 \in Nat
        OBVIOUS
    <2>2. g[k + 1] = IF seq[k + 1] \in S \ ToSet(g[k]) THEN Append(g[k], seq[k + 1]) ELSE g[k]
        BY <1>2, <1>4 DEF ThoseStep, AddIn
    <2>3. seq[k + 1] \in S => seq[k + 1] \in T
        BY <2>1 DEF ToSet, T
    <2>4. g[k] \in Seq(T) /\ \A j \in 1 .. k : seq[j] \in S => seq[j] \in ToSet(g[k])
        BY <1>4
    <2>5. g[k + 1] \in Seq(T) /\ ToSet(g[k]) \subseteq ToSet(g[k + 1]) /\ (seq[k + 1] \in S => seq[k + 1] \in ToSet(g[k + 1]))
        <3>1. CASE seq[k + 1] \in S \ ToSet(g[k])
            BY <2>2, <2>3, <2>4, <3>1, AppendSet
        <3>2. CASE seq[k + 1] \notin S \ ToSet(g[k])
            BY <2>2, <2>4, <3>2
        <3> QED
            BY <3>1, <3>2
    <2>6. ASSUME NEW j \in 1 .. k + 1, seq[j] \in S PROVE seq[j] \in ToSet(g[k + 1])
        <3>1. j = k + 1 \/ j \in 1 .. k
            OBVIOUS
        <3> QED
            BY <2>4, <2>5, <2>6, <3>1
    <2> QED
        BY <2>1, <2>5, <2>6
<1> HIDE DEF D
<1>5. \A k \in 0 .. Len(seq) : k \in D
    BY <1>3, <1>4, S1!UpTo
<1>6. Len(seq) \in D
    BY <1>5
<1>7. \A j \in 1 .. Len(seq) : seq[j] \in S => seq[j] \in ToSet(g[Len(seq)])
    BY <1>6 DEF D
<1> SUFFICES ASSUME NEW y \in S, y \in ToSet(seq) PROVE y \in ToSet(Those(seq, S))
    OBVIOUS
<1>8. PICK j \in 1 .. Len(seq) : y = seq[j]
    BY DEF ToSet
<1> QED
    BY <1>2, <1>7, <1>8

LEMMA ConcatSet ==
    ASSUME NEW T, NEW s \in Seq(T), NEW t \in Seq(T)
    PROVE  s \o t \in Seq(T) /\ ToSet(s \o t) = ToSet(s) \cup ToSet(t)
<1>1. s \o t \in Seq(T) /\ Len(s \o t) = Len(s) + Len(t) /\ Len(s) \in Nat /\ Len(t) \in Nat
    OBVIOUS
<1>2. \A i \in 1 .. Len(s) + Len(t) : (s \o t)[i] = IF i <= Len(s) THEN s[i] ELSE t[i - Len(s)]
    OBVIOUS
<1>3. ToSet(s) = {s[i] : i \in 1 .. Len(s)} /\ ToSet(t) = {t[i] : i \in 1 .. Len(t)}
      /\ ToSet(s \o t) = {(s \o t)[i] : i \in 1 .. Len(s) + Len(t)}
    BY <1>1 DEF ToSet
<1>4. ASSUME NEW y \in ToSet(s) PROVE y \in ToSet(s \o t)
    <2>1. PICK i \in 1 .. Len(s) : y = s[i]
        BY <1>3
    <2>2. i \in 1 .. Len(s) + Len(t) /\ (s \o t)[i] = y
        BY <1>1, <1>2, <2>1
    <2> QED
        BY <1>3, <2>2
<1>5. ASSUME NEW y \in ToSet(t) PROVE y \in ToSet(s \o t)
    <2>1. PICK i \in 1 .. Len(t) : y = t[i]
        BY <1>3
    <2>2. i + Len(s) \in 1 .. Len(s) + Len(t) /\ (s \o t)[i + Len(s)] = y
        BY <1>1, <1>2, <2>1
    <2> QED
        BY <1>3, <2>2
<1>6. ASSUME NEW y \in ToSet(s \o t) PROVE y \in ToSet(s) \cup ToSet(t)
    <2>1. PICK i \in 1 .. Len(s) + Len(t) : y = (s \o t)[i]
        BY <1>3
    <2>2. CASE i <= Len(s)
        <3>1. i \in 1 .. Len(s) /\ y = s[i]
            BY <1>2, <2>1, <2>2
        <3> QED
            BY <1>3, <3>1
    <2>3. CASE ~ (i <= Len(s))
        <3>1. i - Len(s) \in 1 .. Len(t) /\ y = t[i - Len(s)]
            BY <1>1, <1>2, <2>1, <2>3
        <3> QED
            BY <1>3, <3>1
    <2> QED
        BY <2>2, <2>3
<1> QED
    BY <1>1, <1>4, <1>5, <1>6

LEMMA ArrangedAll ==
    ASSUME NEW seq, Len(seq) \in Nat, DOMAIN seq = 1 .. Len(seq),
           NEW sets, Len(sets) \in Nat, DOMAIN sets = 1 .. Len(sets),
           NEW l \in DOMAIN sets, NEW y \in sets[l], y \in ToSet(seq)
    PROVE  y \in ToSet(Arranged(seq, sets))
<1> DEFINE T == ToSet(seq)
<1>2. PICK g : /\ g[0] = <<>>
               /\ \A k \in 0 .. Len(sets) - 1 : g[k + 1] = g[k] \o Those(seq, sets[k + 1])
               /\ Arranged(seq, sets) = g[Len(sets)]
    BY ArrangedRuns
<1> DEFINE D == {k \in Nat : g[k] \in Seq(T) /\ (l \in 1 .. k => y \in ToSet(g[k]))}
<1>0. <<>> \in Seq(T)
    OBVIOUS
<1> HIDE DEF T
<1>3. 0 \in D
    <2>1. g[0] \in Seq(T) /\ 1 .. 0 = {}
        BY <1>0, <1>2
    <2> QED
        BY <2>1
<1>4. ASSUME NEW k \in 0 .. Len(sets) - 1, k \in D PROVE k + 1 \in D
    <2>1. k + 1 \in DOMAIN sets /\ k + 1 \in Nat
        OBVIOUS
    <2> DEFINE t == Those(seq, sets[k + 1])
    <2>2. g[k + 1] = g[k] \o t
        BY <1>2, <1>4
    <2>3. t \in Seq(sets[k + 1] \cap ToSet(seq)) /\ sets[k + 1] \cap ToSet(seq) \subseteq ToSet(t)
        BY ThoseType, ThoseAll
    <2> HIDE DEF t, T
    <2>5. t \in Seq(T)
        BY <2>3 DEF T
    <2>6. g[k] \in Seq(T) /\ (l \in 1 .. k => y \in ToSet(g[k]))
        BY <1>4
    <2>7. g[k + 1] \in Seq(T) /\ ToSet(g[k + 1]) = ToSet(g[k]) \cup ToSet(t)
        BY <2>2, <2>5, <2>6, ConcatSet
    <2>8. ASSUME l \in 1 .. k + 1 PROVE y \in ToSet(g[k + 1])
        <3>1. l = k + 1 \/ l \in 1 .. k
            BY <2>8
        <3>2. l = k + 1 => y \in ToSet(t)
            BY <2>3
        <3> QED
            BY <2>6, <2>7, <3>1, <3>2
    <2> QED
        BY <2>1, <2>7, <2>8
<1> HIDE DEF D
<1>5. \A k \in 0 .. Len(sets) : k \in D
    BY <1>3, <1>4, S1!UpTo
<1>6. Len(sets) \in D
    BY <1>5
<1> QED
    BY <1>2, <1>6 DEF D

-----------------------------------------------------------------------------
(* The tightest atoms of a conjunction stand for all of one direction.     *)
LEMMA TightestExists ==
    ASSUME NEW lower \in BOOLEAN, NEW S, AreBounds(S, lower), IsFiniteSet(S), NEW a \in S
    PROVE  \E b \in Tightest(S) : b = a \/ Tighter(b, a)
<1> DEFINE tighter(b) == {c \in S : Tighter(c, b)}
           good == {b \in S : b = a \/ Tighter(b, a)}
           D == {Cardinality(tighter(b)) : b \in good}
<1>1. \A b \in S : IsFiniteSet(tighter(b)) /\ Cardinality(tighter(b)) \in Nat
    BY FS_Subset, FS_CardinalityType
<1>2. PICK k \in D : \A d \in D : k <= d
    <2>1. D \subseteq Nat /\ D # {}
        BY <1>1
    <2> HIDE DEF D
    <2> QED
        BY <2>1, S1!Least
<1>3. PICK b \in good : k = Cardinality(tighter(b))
    OBVIOUS
<1>4. ASSUME NEW c \in S, Tighter(c, b) PROVE FALSE
    <2>1. c \in good
        BY <1>3, <1>4, TighterOrder
    <2>2. tighter(c) \subseteq tighter(b)
        <3> SUFFICES ASSUME NEW d \in S, Tighter(d, c) PROVE Tighter(d, b)
            OBVIOUS
        <3>1. b \in S
            BY <1>3
        <3> QED
            BY <1>4, <3>1, TighterOrder
    <2>3. c \in tighter(b) /\ c \notin tighter(c)
        BY <1>4, TighterOrder
    <2>4. Cardinality(tighter(c)) \in D
        BY <2>1
    <2>5. Cardinality(tighter(c)) >= Cardinality(tighter(b))
        BY <1>2, <1>3, <2>4
    <2>6. IsFiniteSet(tighter(b)) /\ Cardinality(tighter(b)) \in Nat /\ Cardinality(tighter(c)) \in Nat
        BY <1>1, <1>3
    <2> HIDE DEF tighter
    <2>7. Cardinality(tighter(b)) = Cardinality(tighter(c))
        BY <2>2, <2>5, <2>6, FS_Subset
    <2>8. tighter(c) = tighter(b)
        BY <2>2, <2>6, <2>7, FS_Subset
    <2> QED
        BY <2>3, <2>8
<1>5. b \in Tightest(S)
    BY <1>3, <1>4 DEF Tightest
<1> QED
    BY <1>3, <1>5

(* What of an atom counts for the simplification of a conjunction.         *)
Literal(p, a) ==
    /\ a.kind \in {"bool", "eq", "ineq"} /\ a.lower \in BOOLEAN /\ a.open \in BOOLEAN
    /\ a.x \in p.vars /\ IsNumber(a.val) /\ (a.kind = "eq" => ~ a.lower)

(* A conjunction that does not contradict itself is made smaller without   *)
(* loss: a point that satisfies what is left of it satisfies it.           *)
LEMMA AllOfHolds ==
    ASSUME NEW p, NEW m, IsPoint(p, m), NEW x \in p.vars, NEW S, IsFiniteSet(S),
           \A a \in S : Literal(p, a) /\ a.x = x, ~ Contradiction(S), \A b \in AllOf(S) : Holds(m, b)
    PROVE  \A a \in S : Holds(m, a)
<1> DEFINE v == m[x]
<1>0. IsNumber(v)
    BY DEF IsPoint
<1>1. \A b \in S : /\ b.x = x /\ b.kind \in {"bool", "eq", "ineq"} /\ b.lower \in BOOLEAN /\ b.open \in BOOLEAN /\ IsNumber(b.val)
                   /\ b.kind = "eq" => ~ b.lower
    BY DEF Literal
<1> HIDE DEF v
<1>2. \A b \in S : b.kind = "eq" => (Holds(m, b) <=> v = b.val)
    BY <1>1 DEF Holds, v
<1>3. \A b \in S : b.kind = "ineq" => (Holds(m, b) <=> Meets(b, v))
    BY <1>1 DEF Holds, v
<1>4. Eqs(S) \subseteq Within(S)
    BY <1>1 DEF Contradiction, Eqs
<1>5. \A b \in Inner(S) : b \in S /\ b.kind = "ineq"
    BY DEF Inner, Tightest, Lows, Upps
<1>6. \A b \in Inner(S) : Holds(m, b)
    <2>1. CASE \E e \in Within(S) : ~ e.lower
        <3>1. PICK e \in Within(S) : ~ e.lower
            BY <2>1
        <3>2. e \in S /\ e.kind = "eq" /\ (\A b \in Inner(S) : Meets(b, e.val)) /\ e \in AllOf(S)
            BY <3>1 DEF Within, Eqs, AllOf
        <3>3. v = e.val
            BY <1>2, <3>2
        <3> QED
            BY <1>3, <1>5, <3>2, <3>3
    <2>2. CASE ~ \E e \in Within(S) : ~ e.lower
        BY <2>2 DEF AllOf
    <2> QED
        BY <2>1, <2>2
<1> SUFFICES ASSUME NEW a \in S PROVE Holds(m, a)
    OBVIOUS
<1>7. CASE a.kind = "bool"
    BY <1>7 DEF AllOf, Bools
<1>8. CASE a.kind = "eq"
    BY <1>4, <1>8 DEF AllOf, Eqs
<1>9. CASE a.kind = "ineq"
    <2>1. ASSUME NEW lower \in BOOLEAN, NEW B, B \subseteq S, AreBounds(B, lower), a \in B, Tightest(B) \subseteq Inner(S)
          PROVE  Holds(m, a)
        <3>1. IsFiniteSet(B)
            BY <2>1, FS_Subset
        <3>2. PICK b \in Tightest(B) : b = a \/ Tighter(b, a)
            BY <2>1, <3>1, TightestExists
        <3>3. b \in B /\ b \in Inner(S) /\ Meets(b, v)
            BY <1>3, <1>5, <1>6, <2>1, <3>2 DEF Tightest
        <3>4. Meets(a, v)
            BY <1>0, <2>1, <3>2, <3>3, TighterOrder
        <3> QED
            BY <1>3, <1>9, <3>4
    <2>2. CASE a.lower = TRUE
        <3>1. AreBounds(Lows(S), TRUE) /\ a \in Lows(S) /\ Lows(S) \subseteq S /\ Tightest(Lows(S)) \subseteq Inner(S)
            BY <1>1, <1>9, <2>2 DEF AreBounds, Lows, Inner
        <3> QED
            BY <2>1, <3>1
    <2>3. CASE a.lower = FALSE
        <3>1. AreBounds(Upps(S), FALSE) /\ a \in Upps(S) /\ Upps(S) \subseteq S /\ Tightest(Upps(S)) \subseteq Inner(S)
            BY <1>1, <1>9, <2>3 DEF AreBounds, Upps, Inner
        <3> QED
            BY <2>1, <3>1
    <2> QED
        BY <1>1, <2>2, <2>3
<1> QED
    BY <1>1, <1>7, <1>8, <1>9

LEMMA ConjoinedHolds ==
    ASSUME NEW p, NEW m, IsPoint(p, m), NEW S, IsFiniteSet(S), \A a \in S : Literal(p, a),
           ~ Contradictory(S), \A b \in Conjoined(S) : Holds(m, b)
    PROVE  \A a \in S : Holds(m, a)
<1> SUFFICES ASSUME NEW a \in S PROVE Holds(m, a)
    OBVIOUS
<1> DEFINE T == OfVar(S, a.x)
<1>1. IsFiniteSet(T) /\ a \in T /\ a.x \in p.vars /\ \A b \in T : Literal(p, b) /\ b.x = a.x
    BY FS_Subset DEF OfVar, Literal
<1>2. ~ Contradiction(T)
    BY DEF Contradictory
<1>3. \A b \in AllOf(T) : Holds(m, b)
    BY DEF Conjoined
<1> HIDE DEF T
<1> QED
    BY <1>1, <1>2, <1>3, AllOfHolds

LEMMA ConjoinedSmaller ==
    ASSUME NEW S
    PROVE  Conjoined(S) \subseteq S
<1>1. \A T : AllOf(T) \subseteq T
    BY DEF AllOf, Bools, Eqs, Within, Inner, Tightest, Lows, Upps
<1>2. \A x : OfVar(S, x) \subseteq S
    BY DEF OfVar
<1> QED
    BY <1>1, <1>2 DEF Conjoined

-----------------------------------------------------------------------------
(* A disjunction that exhausts the numbers holds at every point; one that  *)
(* is not empty is not made empty.                                         *)
LEMMA TautologyHolds ==
    ASSUME NEW p, NEW m, IsPoint(p, m), NEW x \in p.vars, NEW S,
           \A a \in S : IsAtom(p, a) /\ a.x = x, Tautology(S)
    PROVE  \E a \in S : Holds(m, a)
<1> DEFINE v == m[x]
<1>0. IsNumber(v)
    BY DEF IsPoint
<1>1. \A b \in S : /\ b.x = x /\ b.kind \in {"bool", "eq", "ineq"} /\ b.lower \in BOOLEAN /\ b.open \in BOOLEAN /\ IsNumber(b.val)
                   /\ b.kind = "eq" => ~ b.lower
    BY DEF IsAtom
<1> HIDE DEF v
<1>2. PICK l \in Loosest(Lows(S)), u \in Loosest(Upps(S)) :
          Lt(l.val, u.val) \/ (u.val = l.val /\ ~ (u.open /\ l.open))
    BY <1>1 DEF Tautology, Eqs
<1>3. l \in S /\ l.kind = "ineq" /\ l.lower = TRUE /\ u \in S /\ u.kind = "ineq" /\ u.lower = FALSE
    BY <1>1, <1>2 DEF Loosest, Lows, Upps
<1>4. Holds(m, l) <=> Meets(l, v)
    BY <1>1, <1>3 DEF Holds, v
<1>5. Holds(m, u) <=> Meets(u, v)
    BY <1>1, <1>3 DEF Holds, v
<1>6. IsNumber(l.val) /\ IsNumber(u.val)
    BY <1>1, <1>3
<1>7. Lt(l.val, v) \/ Lt(v, u.val) \/ (l.val = v /\ u.val = v /\ ~ (u.open /\ l.open)) \/ (l.val = v /\ Lt(v, u.val)) \/ (v = u.val /\ Lt(l.val, v))
    <2>1. \A a, b, d : IsNumber(a) /\ IsNumber(b) /\ IsNumber(d) => (Lt(a, b) /\ Lt(b, d) => Lt(a, d))
        BY LtTransitive
    <2>2. \A a, b : IsNumber(a) /\ IsNumber(b) => Lt(a, b) \/ a = b \/ Lt(b, a)
        BY LtOrder
    <2> QED
        BY <1>0, <1>2, <1>6, <2>1, <2>2
<1>8. Meets(l, v) \/ Meets(u, v)
    BY <1>3, <1>7 DEF Meets, Less
<1> QED
    BY <1>3, <1>4, <1>5, <1>8

LEMMA ExhaustiveHolds ==
    ASSUME NEW p, NEW m, IsPoint(p, m), NEW S, \A a \in S : IsAtom(p, a), Exhaustive(S)
    PROVE  \E a \in S : Holds(m, a)
<1>1. PICK a \in S : Tautology(OfVar(S, a.x))
    BY DEF Exhaustive
<1> DEFINE T == OfVar(S, a.x)
<1>2. a.x \in p.vars /\ (\A b \in T : IsAtom(p, b) /\ b.x = a.x) /\ Tautology(T) /\ T \subseteq S
    BY <1>1 DEF OfVar, IsAtom
<1> HIDE DEF T
<1>3. \E b \in T : Holds(m, b)
    BY <1>2, TautologyHolds
<1> QED
    BY <1>2, <1>3

LEMMA LoosestSome ==
    ASSUME NEW lower \in BOOLEAN, NEW S, AreBounds(S, lower), IsFiniteSet(S), NEW a \in S
    PROVE  Loosest(S) # {}
<1> DEFINE looser(b) == {c \in S : Tighter(b, c)}
           D == {Cardinality(looser(b)) : b \in S}
<1>1. \A b \in S : IsFiniteSet(looser(b)) /\ Cardinality(looser(b)) \in Nat
    BY FS_Subset, FS_CardinalityType
<1>2. PICK k \in D : \A d \in D : k <= d
    <2>1. D \subseteq Nat /\ D # {}
        BY <1>1
    <2> HIDE DEF D
    <2> QED
        BY <2>1, S1!Least
<1>3. PICK b \in S : k = Cardinality(looser(b))
    OBVIOUS
<1>4. ASSUME NEW c \in S, Tighter(b, c) PROVE FALSE
    <2>2. looser(c) \subseteq looser(b)
        BY <1>4, TighterOrder
    <2>3. c \in looser(b) /\ c \notin looser(c)
        BY <1>4, TighterOrder
    <2>5. Cardinality(looser(c)) >= Cardinality(looser(b))
        BY <1>2, <1>3
    <2>6. IsFiniteSet(looser(b)) /\ Cardinality(looser(b)) \in Nat /\ Cardinality(looser(c)) \in Nat
        BY <1>1, <1>3
    <2> HIDE DEF looser
    <2>7. Cardinality(looser(b)) = Cardinality(looser(c))
        BY <2>2, <2>5, <2>6, FS_Subset
    <2>8. looser(b) = looser(c)
        BY <2>2, <2>6, <2>7, FS_Subset
    <2> QED
        BY <2>3, <2>8
<1>5. b \in Loosest(S)
    BY <1>3, <1>4 DEF Loosest
<1> QED
    BY <1>5

LEMMA DisjoinedSome ==
    ASSUME NEW p, NEW S, IsFiniteSet(S), \A a \in S : IsAtom(p, a), S # {}, ~ Exhaustive(S)
    PROVE  Disjoined(S) # {}
<1>1. PICK a \in S : TRUE
    OBVIOUS
<1> DEFINE T == OfVar(S, a.x)
<1>2. IsFiniteSet(T) /\ a \in T /\ \A b \in T : IsAtom(p, b)
    BY FS_Subset DEF OfVar
<1>3. AnyOf(T) \subseteq Disjoined(S)
    BY <1>1 DEF Disjoined
<1> HIDE DEF T
<1>4. \A b \in T : /\ b.kind \in {"bool", "eq", "ineq"} /\ b.lower \in BOOLEAN /\ b.open \in BOOLEAN /\ IsNumber(b.val)
                   /\ b.kind = "eq" => ~ b.lower
    BY <1>2 DEF IsAtom
<1>5. ~ \E b \in Without(T) : b.lower
    BY <1>4 DEF Without, Eqs
<1>6. AnyOf(T) = Bools(T) \cup Without(T) \cup Outer(T)
    BY <1>5 DEF AnyOf
<1>7. CASE a.kind = "bool"
    BY <1>2, <1>3, <1>6, <1>7 DEF Bools
<1>8. CASE a.kind = "eq"
    <2>1. a \in Eqs(T)
        BY <1>2, <1>8 DEF Eqs
    <2>2. a \in Without(T) \/ \E b \in Outer(T) : TRUE
        BY <2>1 DEF Without
    <2> QED
        BY <1>3, <1>6, <2>2
<1>9. CASE a.kind = "ineq" /\ a.lower = TRUE
    <2>1. AreBounds(Lows(T), TRUE) /\ IsFiniteSet(Lows(T)) /\ a \in Lows(T)
        BY <1>2, <1>4, <1>9, FS_Subset DEF AreBounds, Lows
    <2>2. Loosest(Lows(T)) # {}
        BY <2>1, LoosestSome
    <2> QED
        BY <1>3, <1>6, <2>2 DEF Outer
<1>10. CASE a.kind = "ineq" /\ a.lower = FALSE
    <2>1. AreBounds(Upps(T), FALSE) /\ IsFiniteSet(Upps(T)) /\ a \in Upps(T)
        BY <1>2, <1>4, <1>10, FS_Subset DEF AreBounds, Upps
    <2>2. Loosest(Upps(T)) # {}
        BY <2>1, LoosestSome
    <2> QED
        BY <1>3, <1>6, <2>2 DEF Outer
<1> QED
    BY <1>2, <1>4, <1>7, <1>8, <1>9, <1>10

-----------------------------------------------------------------------------
(* Clauses that are dominated.                                             *)
(* One turn of test_dominated, when the turns after it give from.          *)
Turn(longer, shorter, from, s, l) ==
    IF s > Len(shorter) THEN TRUE
    ELSE IF l > Len(longer) THEN FALSE
    ELSE LET a == longer[l]
             b == shorter[s]
         IN  CASE Rank(a) < Rank(b) -> from[<<s, l + 1>>]
               [] Rank(a) > Rank(b) -> FALSE
               [] Rank(a) = Rank(b) /\ a.x < b.x -> from[<<s, l + 1>>]
               [] Rank(a) = Rank(b) /\ a.x > b.x -> FALSE
               [] OTHER -> IF Implied(a, b) THEN from[<<s + 1, l + 1>>] ELSE from[<<s, l + 1>>]
Turns(longer, shorter, f) == f = [p \in Nat \X Nat |-> Turn(longer, shorter, f, p[1], p[2])]

LEMMA DominatedIs ==
    ASSUME NEW longer, NEW shorter
    PROVE  TestDominated(longer, shorter) = (CHOOSE from : Turns(longer, shorter, from))[<<1, 1>>]
BY DEF TestDominated, Turn, Turns

LEMMA TurnIs ==
    ASSUME NEW longer, NEW shorter, NEW f, Turns(longer, shorter, f)
    PROVE  \A s \in Nat, l \in Nat : f[<<s, l>>] = Turn(longer, shorter, f, s, l)
<1> SUFFICES ASSUME NEW s \in Nat, NEW l \in Nat PROVE f[<<s, l>>] = Turn(longer, shorter, f, s, l)
    OBVIOUS
<1>1. <<s, l>> \in Nat \X Nat /\ <<s, l>>[1] = s /\ <<s, l>>[2] = l
    OBVIOUS
<1> QED
    BY <1>1 DEF Turns

(* The turns that end in TRUE: the least set closed under them.             *)
LEMMA TurnsExist ==
    ASSUME NEW longer, NEW shorter
    PROVE  \E f : Turns(longer, shorter, f)
<1> DEFINE fun(X) == [p \in Nat \X Nat |-> IF p \in X THEN TRUE ELSE FALSE]
           next(X) == {p \in Nat \X Nat : Turn(longer, shorter, fun(X), p[1], p[2])}
           closed == {X \in SUBSET (Nat \X Nat) : next(X) \subseteq X}
           least == {p \in Nat \X Nat : \A X \in closed : p \in X}
<1>0. \A X : \A q \in Nat \X Nat : fun(X)[q] = IF q \in X THEN TRUE ELSE FALSE
    OBVIOUS
<1>1. ASSUME NEW X \in SUBSET (Nat \X Nat), NEW Y \in SUBSET (Nat \X Nat), X \subseteq Y
      PROVE  next(X) \subseteq next(Y)
    <2> SUFFICES ASSUME NEW s \in Nat, NEW l \in Nat, Turn(longer, shorter, fun(X), s, l)
                 PROVE  Turn(longer, shorter, fun(Y), s, l)
        OBVIOUS
    <2>1. /\ fun(X)[<<s, l + 1>>] => fun(Y)[<<s, l + 1>>]
          /\ fun(X)[<<s + 1, l + 1>>] => fun(Y)[<<s + 1, l + 1>>]
        <3>1. <<s, l + 1>> \in Nat \X Nat /\ <<s + 1, l + 1>> \in Nat \X Nat
            OBVIOUS
        <3>2. \A q \in Nat \X Nat : fun(X)[q] => fun(Y)[q]
            BY <1>1
        <3> HIDE DEF fun
        <3> QED
            BY <3>1, <3>2
    <2> DEFINE g == fun(X)
               h == fun(Y)
    <2> HIDE DEF g, h
    <2>2. /\ g[<<s, l + 1>>] => h[<<s, l + 1>>]
          /\ g[<<s + 1, l + 1>>] => h[<<s + 1, l + 1>>]
        BY <2>1 DEF g, h
    <2>3. Turn(longer, shorter, g, s, l) => Turn(longer, shorter, h, s, l)
        BY <2>2 DEF Turn
    <2> QED
        BY <2>3 DEF g, h
<1>2. \A p \in Nat \X Nat, X \in SUBSET (Nat \X Nat) : Turn(longer, shorter, fun(X), p[1], p[2]) \in BOOLEAN
    <2> SUFFICES ASSUME NEW s \in Nat, NEW l \in Nat, NEW X \in SUBSET (Nat \X Nat)
                 PROVE  Turn(longer, shorter, fun(X), s, l) \in BOOLEAN
        OBVIOUS
    <2>1. fun(X)[<<s, l + 1>>] \in BOOLEAN /\ fun(X)[<<s + 1, l + 1>>] \in BOOLEAN
        <3>1. <<s, l + 1>> \in Nat \X Nat /\ <<s + 1, l + 1>> \in Nat \X Nat
            OBVIOUS
        <3> HIDE DEF fun
        <3> QED
            BY <1>0, <3>1
    <2> DEFINE g == fun(X)
    <2> HIDE DEF g
    <2>2. g[<<s, l + 1>>] \in BOOLEAN /\ g[<<s + 1, l + 1>>] \in BOOLEAN
        BY <2>1 DEF g
    <2>3. Turn(longer, shorter, g, s, l) \in BOOLEAN
        BY <2>2 DEF Turn
    <2> QED
        BY <2>3 DEF g
<1> HIDE DEF next
<1>3. least \in SUBSET (Nat \X Nat) /\ \A X \in closed : least \subseteq X
    OBVIOUS
<1>4. next(least) \subseteq least
    <2>1. next(least) \subseteq Nat \X Nat
        BY DEF next
    <2>2. ASSUME NEW X \in closed PROVE next(least) \subseteq X
        <3>1. next(least) \subseteq next(X) /\ next(X) \subseteq X
            BY <1>1, <1>3
        <3> QED
            BY <3>1
    <2> QED
        BY <2>1, <2>2
<1>5. next(least) \in closed
    <2>1. next(next(least)) \subseteq next(least)
        BY <1>1, <1>3, <1>4
    <2> QED
        BY <1>3, <1>4, <2>1
<1>6. next(least) = least
    BY <1>3, <1>4, <1>5
<1> HIDE DEF least
<1>7. fun(least) = [p \in Nat \X Nat |-> Turn(longer, shorter, fun(least), p[1], p[2])]
    <2>1. ASSUME NEW p \in Nat \X Nat PROVE (IF p \in least THEN TRUE ELSE FALSE) = Turn(longer, shorter, fun(least), p[1], p[2])
        <3> DEFINE b == Turn(longer, shorter, fun(least), p[1], p[2])
        <3>1. p \in least <=> b
            BY <1>6 DEF next
        <3>2. b \in BOOLEAN
            BY <1>2, <1>3
        <3> HIDE DEF b
        <3>3. (IF p \in least THEN TRUE ELSE FALSE) = b
            BY <3>1, <3>2
        <3> QED
            BY <3>3 DEF b
    <2> QED
        BY <2>1
<1> HIDE DEF fun
<1> QED
    BY <1>7 DEF Turns

LEMMA LongestFinite ==
    ASSUME NEW s, Len(s) \in Nat, DOMAIN s = 1 .. Len(s), NEW T, \A i \in DOMAIN s : s[i] \in Seq(T)
    PROVE  IsFiniteSet(UNION {DOMAIN c : c \in ToSet(s)})
<1> DEFINE D == {DOMAIN c : c \in ToSet(s)}
           f == [i \in 1 .. Len(s) |-> DOMAIN s[i]]
<1>1. f \in Surjection(1 .. Len(s), D)
    <2>1. f \in [1 .. Len(s) -> D]
        BY DEF ToSet
    <2>2. \A d \in D : \E i \in 1 .. Len(s) : f[i] = d
        BY DEF ToSet
    <2> HIDE DEF f, D
    <2> QED
        BY <2>1, <2>2 DEF Surjection
<1>2. \A d \in D : IsFiniteSet(d)
    <2> SUFFICES ASSUME NEW i \in DOMAIN s PROVE IsFiniteSet(DOMAIN s[i])
        BY DEF ToSet
    <2>1. Len(s[i]) \in Nat /\ DOMAIN s[i] = 1 .. Len(s[i])
        OBVIOUS
    <2>2. IsFiniteSet(1 .. Len(s[i]))
        BY <2>1, FS_Interval
    <2> QED
        BY <2>1, <2>2
<1> HIDE DEF D, f
<1>3. IsFiniteSet(D)
    <2>1. ExistsSurjection(1 .. Len(s), D)
        BY <1>1 DEF ExistsSurjection
    <2> QED
        BY <2>1, FS_NatSurjection
<1>4. IsFiniteSet(UNION D)
    BY <1>2, <1>3, FS_UNION
<1> QED
    BY <1>4 DEF D

(* What test_dominated finds: every literal of the shorter clause implies  *)
(* one of the longer.                                                      *)
Ranked(c) == Len(c) \in Nat /\ DOMAIN c = 1 .. Len(c) /\ \A i \in DOMAIN c : Rank(c[i]) \in Nat /\ c[i].x \in Nat

LEMMA DominatedSound ==
    ASSUME NEW longer, NEW shorter, Ranked(longer), Ranked(shorter), TestDominated(longer, shorter)
    PROVE  \A j \in DOMAIN shorter : \E i \in DOMAIN longer :
               /\ Rank(longer[i]) = Rank(shorter[j]) /\ longer[i].x = shorter[j].x
               /\ Implied(longer[i], shorter[j])
<1> DEFINE found(j) == \E i \in DOMAIN longer :
                           /\ Rank(longer[i]) = Rank(shorter[j]) /\ longer[i].x = shorter[j].x
                           /\ Implied(longer[i], shorter[j])
           L == Len(longer)
           S == Len(shorter)
<1>1. PICK f : Turns(longer, shorter, f) /\ f[<<1, 1>>]
    <2> DEFINE h == CHOOSE from : Turns(longer, shorter, from)
    <2>1. Turns(longer, shorter, h)
        BY TurnsExist
    <2>2. h[<<1, 1>>]
        BY DominatedIs
    <2> QED
        BY <2>1, <2>2
<1>2. \A s \in Nat, l \in Nat : f[<<s, l>>] = Turn(longer, shorter, f, s, l)
    BY <1>1, TurnIs
<1> DEFINE D == {k \in Nat : \A s \in Nat \ {0}, l \in Nat \ {0} :
                     l + k = L + 1 /\ f[<<s, l>>] => \A j \in s .. S : found(j)}
<1> HIDE DEF found
<1>3. L \in Nat /\ S \in Nat
    BY DEF Ranked
<1>4. 0 \in D
    <2> SUFFICES ASSUME NEW s \in Nat \ {0}, NEW l \in Nat \ {0}, l + 0 = L + 1, f[<<s, l>>]
                 PROVE  \A j \in s .. S : found(j)
        OBVIOUS
    <2>1. Turn(longer, shorter, f, s, l) /\ l > L
        BY <1>2, <1>3
    <2>2. s > S
        BY <2>1 DEF Turn
    <2> QED
        BY <1>3, <2>2
<1>5. ASSUME NEW k \in 0 .. L - 1, k \in D PROVE k + 1 \in D
    <2> SUFFICES ASSUME NEW s \in Nat \ {0}, NEW l \in Nat \ {0}, l + (k + 1) = L + 1, f[<<s, l>>],
                        NEW j \in s .. S
                 PROVE  found(j)
        OBVIOUS
    <2> DEFINE a == longer[l]
               b == shorter[s]
    <2>1. l \in 1 .. L /\ s \in 1 .. S /\ l + 1 \in Nat \ {0} /\ s + 1 \in Nat \ {0} /\ (l + 1) + k = L + 1
        BY <1>3
    <2>2. l \in DOMAIN longer /\ s \in DOMAIN shorter
        BY <2>1 DEF Ranked
    <2>3. Rank(a) \in Nat /\ Rank(b) \in Nat /\ a.x \in Nat /\ b.x \in Nat
        BY <2>2 DEF Ranked
    <2>4. Turn(longer, shorter, f, s, l) /\ ~ (s > S) /\ ~ (l > L)
        BY <1>2, <1>3, <2>1
    <2> DEFINE ra == Rank(a)
               rb == Rank(b)
               i == Implied(a, b)
    <2>5. (CASE ra < rb -> f[<<s, l + 1>>]
            [] ra > rb -> FALSE
            [] ra = rb /\ a.x < b.x -> f[<<s, l + 1>>]
            [] ra = rb /\ a.x > b.x -> FALSE
            [] OTHER -> IF i THEN f[<<s + 1, l + 1>>] ELSE f[<<s, l + 1>>])
        BY <2>4, Zenon DEF Turn
    <2>6. ra \in Nat /\ rb \in Nat
        BY <2>3
    <2> HIDE DEF ra, rb, a, b, i
    <2>7. f[<<s, l + 1>>] \/ (ra = rb /\ a.x = b.x /\ i /\ f[<<s + 1, l + 1>>])
        BY <2>3, <2>5, <2>6, SMTT(40)
    <2>8. CASE f[<<s, l + 1>>]
        BY <1>5, <2>1, <2>8
    <2>9. CASE ra = rb /\ a.x = b.x /\ i /\ f[<<s + 1, l + 1>>]
        <3>1. CASE j = s
            BY <2>2, <2>9, <3>1 DEF found, ra, rb, a, b, i
        <3>2. CASE j # s
            <4>1. j \in s + 1 .. S
                BY <1>3, <3>2
            <4> QED
                BY <1>5, <2>1, <2>9, <4>1
        <3> QED
            BY <3>1, <3>2
    <2> QED
        BY <2>7, <2>8, <2>9
<1> HIDE DEF D, L
<1>6. L \in D
    <2>1. \A k \in 0 .. L : k \in D
        BY <1>3, <1>4, <1>5, S1!UpTo
    <2> QED
        BY <1>3, <2>1
<1>7. \A j \in 1 .. S : found(j)
    BY <1>1, <1>3, <1>6 DEF D, L
<1> QED
    BY <1>7 DEF found, Ranked

(* A literal that implies another one.                                     *)
LEMMA ImpliedHolds ==
    ASSUME NEW p, NEW m, IsPoint(p, m), NEW a, NEW b, IsAtom(p, a), IsAtom(p, b),
           Rank(a) = Rank(b), a.x = b.x, Implied(a, b), Holds(m, b)
    PROVE  Holds(m, a)
<1>1. /\ a.kind \in {"bool", "eq", "ineq"} /\ a.lower \in BOOLEAN /\ a.open \in BOOLEAN /\ IsNumber(a.val)
      /\ b.kind \in {"bool", "eq", "ineq"} /\ b.lower \in BOOLEAN /\ b.open \in BOOLEAN /\ IsNumber(b.val)
      /\ a.x \in p.vars /\ IsNumber(m[a.x])
    BY DEF IsAtom, IsPoint
<1>2. a.kind = b.kind
    BY <1>1 DEF Rank
<1>3. CASE a.kind = "bool"
    BY <1>2, <1>3 DEF Holds, Implied
<1>4. CASE a.kind = "eq"
    BY <1>2, <1>4 DEF Holds, Implied
<1>5. CASE a.kind = "ineq"
    <2> DEFINE v == m[a.x]
               low == a.lower
    <2>1. Meets(b, v) /\ ~ Tighter(a, b) /\ b.lower = low /\ low \in BOOLEAN
        BY <1>1, <1>2, <1>5 DEF Holds, Implied
    <2> HIDE DEF v, low
    <2>2. Less(b.val, v, low) \/ (b.val = v /\ ~ b.open)
        BY <2>1 DEF Meets
    <2>3. ~ (Less(b.val, a.val, low) \/ (a.val = b.val /\ a.open /\ ~ b.open))
        BY <2>1 DEF Tighter, low
    <2>4. IsNumber(v)
        BY <1>1 DEF v
    <2>5. Less(a.val, v, low) \/ (a.val = v /\ ~ a.open)
        BY <1>1, <2>1, <2>2, <2>3, <2>4, LessOrder
    <2>6. Meets(a, v)
        BY <2>5 DEF Meets, low
    <2> QED
        BY <1>5, <2>6 DEF Holds, v
<1> QED
    BY <1>1, <1>3, <1>4, <1>5

(* Every clause is kept or dominated by one that is.                       *)
LEMMA RemoveDominatedCovers ==
    ASSUME NEW s, Len(s) \in Nat, DOMAIN s = 1 .. Len(s), NEW T, \A i \in DOMAIN s : s[i] \in Seq(T),
           NEW i \in DOMAIN s, Len(s[i]) > 0
    PROVE  \E c \in ToSet(RemoveDominated(s)) : c = s[i] \/ TestDominated(s[i], c)
<1> DEFINE longest == Cardinality(UNION {DOMAIN c : c \in ToSet(s)})
           sets == [k \in 1 .. longest |-> {j \in DOMAIN s : Len(s[j]) = k}]
           seq == ShortFirst(s)
<1>1. longest \in Nat
    BY LongestType
<1>0. Len(s[i]) \in 1 .. longest
    <2> DEFINE U == UNION {DOMAIN c : c \in ToSet(s)}
               n == Len(s[i])
    <2>1. n \in Nat /\ DOMAIN s[i] = 1 .. n /\ 1 .. n \subseteq U
        BY DEF ToSet
    <2>2. IsFiniteSet(U)
        BY LongestFinite
    <2> HIDE DEF U
    <2> HIDE DEF n
    <2>4. IsFiniteSet(1 .. n) /\ Cardinality(1 .. n) <= Cardinality(U)
        BY <2>1, <2>2, FS_Subset
    <2>5. Cardinality(1 .. n) = n
        BY <2>1, FS_Interval
    <2>3. n <= Cardinality(U) /\ n > 0 /\ n \in Nat
        BY <2>1, <2>4, <2>5 DEF n
    <2> QED
        BY <1>1, <2>3 DEF U, n
<1>2. seq = Arranged(Positions(s), sets)
    BY DEF ShortFirst
<1> HIDE DEF longest
<1>3. Len(sets) = longest /\ DOMAIN sets = 1 .. Len(sets) /\ (\A k \in DOMAIN sets : sets[k] \subseteq DOMAIN s)
      /\ i \in sets[Len(s[i])]
    BY <1>0, <1>1
<1> HIDE DEF sets, seq
<1>4. Len(Positions(s)) = Len(s) /\ DOMAIN Positions(s) = DOMAIN s /\ ToSet(Positions(s)) = DOMAIN s
    BY PositionsType
<1>5. Arranged(Positions(s), sets) \in Seq(DOMAIN s \cap ToSet(Positions(s)))
    BY <1>1, <1>3, <1>4, ArrangedType
<1>6. i \in ToSet(Arranged(Positions(s), sets))
    BY <1>0, <1>1, <1>3, <1>4, ArrangedAll
<1>7. seq \in Seq(DOMAIN s) /\ i \in ToSet(seq)
    <2>1. DOMAIN s \cap ToSet(Positions(s)) \subseteq DOMAIN s
        OBVIOUS
    <2> QED
        BY <1>2, <1>5, <1>6, <2>1
<1>8. Len(seq) \in Nat /\ DOMAIN seq = 1 .. Len(seq) /\ \A k \in DOMAIN seq : seq[k] \in DOMAIN s
    BY <1>7
<1>9. PICK q \in 1 .. Len(seq) : seq[q] = i
    BY <1>7, <1>8 DEF ToSet
<1>10. PICK g : /\ g[0] = <<>>
                /\ \A k \in 0 .. Len(seq) - 1 : g[k + 1] = KeepStep(s, 0, 0, g[k], seq[k + 1])
                /\ RemoveDominated(s) = g[Len(seq)]
    BY <1>8, KeepRuns DEF seq
<1> DEFINE kept(G) == \E c \in ToSet(G) : c = s[i] \/ TestDominated(s[i], c)
           D == {k \in Nat : g[k] \in Seq(ToSet(s)) /\ (q \in 1 .. k => kept(g[k]))}
<1>11. 0 \in D
    <2>1. <<>> \in Seq(ToSet(s)) /\ 1 .. 0 = {}
        OBVIOUS
    <2> QED
        BY <1>10, <2>1
<1>12. ASSUME NEW k \in 0 .. Len(seq) - 1, k \in D PROVE k + 1 \in D
    <2>1. k + 1 \in DOMAIN seq /\ k + 1 \in Nat
        BY <1>8
    <2> DEFINE e == s[seq[k + 1]]
               U == ToSet(s)
    <2>2. e \in U
        BY <1>8, <2>1 DEF ToSet
    <2>3. g[k] \in Seq(U) /\ (q \in 1 .. k => kept(g[k]))
        BY <1>12
    <2>4. IF \E j \in DOMAIN g[k] : TestDominated(e, g[k][j]) THEN g[k + 1] = g[k] ELSE g[k + 1] = Append(g[k], e)
        BY <1>10, <1>12 DEF KeepStep, KeepIn
    <2>5. k + 1 = q => e = s[i]
        BY <1>9
    <2> HIDE DEF e, U
    <2>6. g[k + 1] \in Seq(U) /\ ToSet(g[k]) \subseteq ToSet(g[k + 1])
        <3>1. Append(g[k], e) \in Seq(U) /\ ToSet(g[k]) \subseteq ToSet(Append(g[k], e))
            BY <2>2, <2>3, AppendSet
        <3>2. g[k + 1] = g[k] \/ g[k + 1] = Append(g[k], e)
            BY <2>4
        <3> QED
            BY <2>3, <3>1, <3>2
    <2>7. \E c \in ToSet(g[k + 1]) : c = e \/ TestDominated(e, c)
        <3>1. CASE \E j \in DOMAIN g[k] : TestDominated(e, g[k][j])
            BY <2>4, <3>1 DEF ToSet
        <3>2. CASE ~ \E j \in DOMAIN g[k] : TestDominated(e, g[k][j])
            <4>1. g[k + 1] = Append(g[k], e) /\ e \in ToSet(Append(g[k], e))
                BY <2>2, <2>3, <2>4, <3>2, AppendSet
            <4> QED
                BY <4>1
        <3> QED
            BY <3>1, <3>2
    <2>8. ASSUME q \in 1 .. k + 1 PROVE kept(g[k + 1])
        <3>1. q = k + 1 \/ q \in 1 .. k
            BY <2>8
        <3>2. CASE q = k + 1
            BY <2>5, <2>7, <3>2
        <3>3. CASE q \in 1 .. k
            BY <2>3, <2>6, <3>3
        <3> QED
            BY <3>1, <3>2, <3>3
    <2> QED
        BY <2>1, <2>6, <2>8 DEF U
<1> HIDE DEF D, kept
<1>13. \A k \in 0 .. Len(seq) : k \in D
    BY <1>8, <1>11, <1>12, S1!UpTo
<1>14. Len(seq) \in D
    BY <1>8, <1>13
<1> QED
    BY <1>9, <1>10, <1>14 DEF D, kept

-----------------------------------------------------------------------------
(* The clauses of a task are what is left of the clauses of the problem.   *)
LEMMA OrderedIs ==
    ASSUME NEW p, IsProblem(p), NEW i \in DOMAIN p.clauses, NEW S, S \subseteq ToSet(p.clauses[i])
    PROVE  Ordered(p, p.clauses[i], S) \in Seq(S) /\ ToSet(Ordered(p, p.clauses[i], S)) = S
<1> DEFINE c == p.clauses[i]
           N == 4 * Cardinality(p.vars)
           sets == [j \in 1 .. N |-> {a \in S : Place(a) = j}]
           o == Ordered(p, c, S)
<1>1. c \in ToSet(p.clauses)
    BY DEF ToSet
<1>2. c \in Seq(ToSet(c)) /\ \A a \in ToSet(c) : IsAtom(p, a)
    BY <1>1 DEF IsProblem
<1>3. o = Arranged(c, sets)
    BY DEF Ordered
<1>4. Cardinality(p.vars) \in Nat /\ p.vars = 1 .. Cardinality(p.vars)
    BY FS_CardinalityType DEF IsProblem
<1>5. N \in Nat
    BY <1>4
<1>6. ASSUME NEW a \in S PROVE Place(a) \in 1 .. N
    <2>1. a.kind \in {"bool", "eq", "ineq"} /\ a.x \in 1 .. Cardinality(p.vars)
        BY <1>2, <1>4 DEF IsAtom
    <2>2. \E d \in 0 .. 3 : Place(a) = 4 * a.x - d
        <3>1. CASE a.kind = "bool"
            BY <3>1 DEF Place
        <3>2. CASE a.kind = "eq"
            BY <3>2 DEF Place
        <3>3. CASE a.kind = "ineq"
            BY <3>3 DEF Place
        <3> QED
            BY <2>1, <3>1, <3>2, <3>3
    <2> QED
        BY <1>4, <2>1, <2>2
<1> HIDE DEF N, c
<1>7. Len(sets) = N /\ DOMAIN sets = 1 .. Len(sets) /\ (\A j \in DOMAIN sets : sets[j] \subseteq S)
      /\ \A a \in S : Place(a) \in DOMAIN sets /\ a \in sets[Place(a)]
    BY <1>5, <1>6
<1> HIDE DEF sets, o
<1>8. Len(c) \in Nat /\ DOMAIN c = 1 .. Len(c)
    BY <1>2
<1>9. o \in Seq(S \cap ToSet(c)) /\ S \cap ToSet(c) = S
    BY <1>3, <1>5, <1>7, <1>8, ArrangedType DEF c
<1>10. o \in Seq(S) /\ ToSet(o) \subseteq S
    BY <1>9 DEF ToSet
<1>11. ASSUME NEW a \in S PROVE a \in ToSet(o)
    <2>1. a \in ToSet(c) /\ Place(a) \in DOMAIN sets /\ a \in sets[Place(a)]
        BY <1>7 DEF c
    <2> QED
        BY <1>3, <1>5, <1>7, <1>8, <2>1, ArrangedAll
<1> QED
    BY <1>10, <1>11 DEF o, c

LEMMA TaskClauses ==
    ASSUME NEW p, IsProblem(p), NEW n
    PROVE  /\ \A c \in ToSet(ToTask(p, n).clauses) : \E i \in Left(p, n) :
                  c \in Seq(Small(p, n, i)) /\ ToSet(c) = Small(p, n, i)
           /\ \A i \in Left(p, n) : Cardinality(Small(p, n, i)) > 1 =>
                  \E c \in ToSet(ToTask(p, n).clauses), d \in Seq(Small(p, n, i)) :
                      ToSet(d) = Small(p, n, i) /\ (c = d \/ TestDominated(d, c))
<1> DEFINE I == {i \in Left(p, n) : Cardinality(Small(p, n, i)) > 1}
           long == Those(Positions(p.clauses), I)
           ordered == [k \in DOMAIN long |-> Ordered(p, p.clauses[long[k]], Small(p, n, long[k]))]
           T == UNION {ToSet(c) : c \in ToSet(p.clauses)}
           out == RemoveDominated(ordered)
<1>1. ToTask(p, n).clauses = out
    BY DEF ToTask
<1>2. Len(p.clauses) \in Nat /\ DOMAIN p.clauses = 1 .. Len(p.clauses)
    BY DEF IsProblem
<1>3. I \subseteq DOMAIN p.clauses
    BY DEF Left, OpenClauses
<1>4. I \subseteq Left(p, n) /\ \A i \in I : Cardinality(Small(p, n, i)) > 1
    OBVIOUS
<1>5. \A i \in Left(p, n) : Cardinality(Small(p, n, i)) > 1 => i \in I
    OBVIOUS
<1> HIDE DEF I
<1>6. long \in Seq(I) /\ ToSet(long) = I
    <2>1. Len(Positions(p.clauses)) \in Nat /\ DOMAIN Positions(p.clauses) = 1 .. Len(Positions(p.clauses))
          /\ ToSet(Positions(p.clauses)) = DOMAIN p.clauses
        BY <1>2, PositionsType
    <2>2. long \in Seq(I \cap ToSet(Positions(p.clauses))) /\ I \cap ToSet(Positions(p.clauses)) \subseteq ToSet(long)
        BY <2>1, ThoseType, ThoseAll
    <2>3. I \cap ToSet(Positions(p.clauses)) = I
        BY <1>3, <2>1
    <2> HIDE DEF long
    <2>4. ToSet(long) \subseteq I
        BY <2>2, <2>3 DEF ToSet
    <2> QED
        BY <2>2, <2>3, <2>4
<1> HIDE DEF long
<1>7. Len(long) \in Nat /\ DOMAIN long = 1 .. Len(long) /\ \A k \in DOMAIN long : long[k] \in I
    BY <1>6
<1>8. Len(ordered) = Len(long) /\ DOMAIN ordered = 1 .. Len(ordered) /\ DOMAIN ordered = DOMAIN long
    BY <1>7
<1>9. ASSUME NEW k \in DOMAIN ordered
      PROVE  /\ ordered[k] \in Seq(Small(p, n, long[k])) /\ ToSet(ordered[k]) = Small(p, n, long[k])
             /\ ordered[k] \in Seq(T) /\ Len(ordered[k]) > 0
    <2> DEFINE i == long[k]
               S == Small(p, n, i)
    <2>1. i \in I /\ i \in DOMAIN p.clauses /\ ordered[k] = Ordered(p, p.clauses[i], S)
        BY <1>3, <1>7
    <2>2. S \subseteq ToSet(p.clauses[i]) /\ p.clauses[i] \in ToSet(p.clauses) /\ IsFiniteSet(S)
        BY <2>1, OpenAtomsType DEF ToSet
    <2>3. S # {}
        BY <1>4, <2>1, FS_EmptySet
    <2> HIDE DEF S, i, ordered
    <2>4. ordered[k] \in Seq(S) /\ ToSet(ordered[k]) = S
        BY <2>1, <2>2, OrderedIs
    <2>5. S \subseteq T
        BY <2>2
    <2> HIDE DEF T
    <2>6. ordered[k] \in Seq(T)
        BY <2>4, <2>5
    <2>7. Len(ordered[k]) > 0
        <3>1. Len(ordered[k]) \in Nat /\ DOMAIN ordered[k] = 1 .. Len(ordered[k]) /\ \E a : a \in ToSet(ordered[k])
            BY <2>3, <2>4
        <3> QED
            BY <3>1 DEF ToSet
    <2> QED
        BY <2>4, <2>6, <2>7 DEF S, i
<1> HIDE DEF ordered, T
<1>10. out \in Seq(ToSet(ordered))
    BY <1>7, <1>8, <1>9, RemoveDominatedType
<1>11. ASSUME NEW i \in DOMAIN ordered PROVE \E c \in ToSet(out) : c = ordered[i] \/ TestDominated(ordered[i], c)
    BY <1>7, <1>8, <1>9, RemoveDominatedCovers
<1> HIDE DEF out
<1>12. ASSUME NEW c \in ToSet(out)
       PROVE  \E i \in Left(p, n) : c \in Seq(Small(p, n, i)) /\ ToSet(c) = Small(p, n, i)
    <2>1. c \in ToSet(ordered)
        BY <1>10 DEF ToSet
    <2>2. PICK k \in DOMAIN ordered : c = ordered[k]
        BY <2>1 DEF ToSet
    <2>3. long[k] \in Left(p, n)
        BY <1>4, <1>7, <1>8
    <2> QED
        BY <1>9, <2>2, <2>3
<1>13. ASSUME NEW i \in Left(p, n), Cardinality(Small(p, n, i)) > 1
       PROVE  \E c \in ToSet(out), d \in Seq(Small(p, n, i)) :
                  ToSet(d) = Small(p, n, i) /\ (c = d \/ TestDominated(d, c))
    <2>1. PICK k \in DOMAIN long : long[k] = i
        BY <1>5, <1>6, <1>13 DEF ToSet
    <2>2. k \in DOMAIN ordered
        BY <1>8
    <2>3. PICK c \in ToSet(out) : c = ordered[k] \/ TestDominated(ordered[k], c)
        BY <1>11, <2>2
    <2> QED
        BY <1>9, <2>1, <2>2, <2>3
<1> QED
    BY <1>1, <1>12, <1>13

(* The literals of a task are atoms of the problem that its node leaves    *)
(* undecided.                                                              *)
LEMMA TaskType ==
    ASSUME NEW p, IsProblem(p), NEW n
    PROVE  \A a \in Lits(ToTask(p, n)) : IsAtom(p, a) /\ Value(p, n, a) = "undef"
<1> SUFFICES ASSUME NEW c \in ToSet(ToTask(p, n).clauses), NEW a \in ToSet(c)
             PROVE  IsAtom(p, a) /\ Value(p, n, a) = "undef"
    BY DEF Lits
<1>1. PICK i \in Left(p, n) : ToSet(c) = Small(p, n, i)
    BY TaskClauses
<1>2. i \in DOMAIN p.clauses
    BY DEF Left, OpenClauses
<1>3. a \in OpenAtoms(p, n, i)
    BY <1>1, <1>2, OpenAtomsType
<1> QED
    BY <1>2, <1>3, OpenAtomsType

-----------------------------------------------------------------------------
(* The task of a node has every model of the node: one in the box that     *)
(* satisfies the derived atoms.                                            *)
THEOREM TaskSound ==
    ASSUME NEW p, IsProblem(p), NEW m, IsModel(p, m), NEW n \in Nodes(p), InBox(p, m, n),
           \A a \in ToSet(n.up) : Holds(m, a)
    PROVE  InTask(m, ToTask(p, n))
<1>1. \A a \in Units(p, n) : Holds(m, a)
    BY UnitsHold
<1>2. ToTask(p, n).bounds = Conjoined(Units(p, n))
    BY DEF ToTask
<1>3. \A a \in ToTask(p, n).bounds : Holds(m, a)
    BY <1>1, <1>2, ConjoinedSmaller
<1>4. ASSUME NEW c \in ToSet(ToTask(p, n).clauses) PROVE \E a \in ToSet(c) : Holds(m, a)
    <2>1. PICK i \in Left(p, n) : ToSet(c) = Small(p, n, i)
        BY TaskClauses
    <2>2. i \in OpenClauses(p, n)
        BY DEF Left
    <2> QED
        BY <2>1, <2>2, OpenAtomHolds
<1> QED
    BY <1>3, <1>4 DEF InTask

-----------------------------------------------------------------------------
(* What satisfies the task of a node satisfies the units of the node and   *)
(* the clauses of the problem.                                             *)
LEMMA UnionFinite ==
    ASSUME NEW S, IsFiniteSet(S), NEW F, \A x \in S : IsFiniteSet(F[x])
    PROVE  IsFiniteSet(UNION {F[x] : x \in S})
<1> DEFINE D == {F[x] : x \in S}
           f == [x \in S |-> F[x]]
<1>1. f \in Surjection(S, D)
    <2>1. f \in [S -> D]
        OBVIOUS
    <2>2. \A d \in D : \E x \in S : f[x] = d
        OBVIOUS
    <2> HIDE DEF f, D
    <2> QED
        BY <2>1, <2>2 DEF Surjection
<1>2. IsFiniteSet(D)
    BY <1>1, FS_Surjection
<1>3. \A d \in D : IsFiniteSet(d)
    OBVIOUS
<1> HIDE DEF D
<1>4. IsFiniteSet(UNION D)
    BY <1>2, <1>3, FS_UNION
<1> QED
    BY <1>4 DEF D

LEMMA UnitsFinite ==
    ASSUME NEW p, IsProblem(p), NEW n \in Nodes(p)
    PROVE  IsFiniteSet(Units(p, n)) /\ \A a \in Units(p, n) : IsAtom(p, a) \/ \E x \in Plain(p) : a \in BoundLits(p, n, x)
<1> DEFINE K == {k \in Left(p, n) : Cardinality(Small(p, n, k)) = 1}
           F == [i \in K |-> Small(p, n, i)]
           A == UNION {F[i] : i \in K}
           B == {b \in ToSet(p.units) \cup ToSet(n.up) : b.x \in DOMAIN p.defs}
           G == [x \in Plain(p) |-> BoundLits(p, n, x)]
           C == UNION {G[x] : x \in Plain(p)}
<1>1. Units(p, n) = A \cup B \cup C
    <2>1. A = UNION {Small(p, n, i) : i \in K} /\ C = UNION {BoundLits(p, n, x) : x \in Plain(p)}
        OBVIOUS
    <2> HIDE DEF A, C
    <2> QED
        BY <2>1 DEF Units
<1>2. IsFiniteSet(A)
    <2>1. K \subseteq DOMAIN p.clauses /\ DOMAIN p.clauses = 1 .. Len(p.clauses) /\ Len(p.clauses) \in Nat
        BY DEF Left, OpenClauses, IsProblem
    <2> HIDE DEF F
    <2>5. IsFiniteSet(1 .. Len(p.clauses))
        BY <2>1, FS_Interval
    <2>2. IsFiniteSet(K)
        <3> HIDE DEF K
        <3> QED
            BY <2>1, <2>5, FS_Subset
    <2>3. \A i \in K : F[i] = Small(p, n, i)
        BY DEF F
    <2> HIDE DEF K
    <2>4. \A i \in K : IsFiniteSet(F[i])
        BY <2>1, <2>3, OpenAtomsType
    <2> QED
        BY <2>2, <2>4, UnionFinite
<1>3. IsFiniteSet(B)
    <2> DEFINE S == UNION {ToSet(c) : c \in ToSet(p.clauses)}
    <2>1. n.up \in Seq(S) /\ p.units \in Seq(ToSet(p.units))
        BY DEF Nodes, IsProblem
    <2> HIDE DEF S
    <2>2. IsFiniteSet(ToSet(p.units)) /\ IsFiniteSet(ToSet(n.up))
        BY <2>1, SeqFinite
    <2>3. IsFiniteSet(ToSet(p.units) \cup ToSet(n.up))
        BY <2>2, FS_Union
    <2> QED
        BY <2>3, FS_Subset
<1>4. IsFiniteSet(C)
    <2>1. IsFiniteSet(Plain(p))
        BY FS_Subset DEF Plain, IsProblem
    <2>2. ASSUME NEW x \in Plain(p) PROVE IsFiniteSet(BoundLits(p, n, x))
        <3>1. \A a, b : IsFiniteSet({a, b})
            <4> SUFFICES ASSUME NEW a, NEW b PROVE IsFiniteSet({a, b})
                OBVIOUS
            <4>1. IsFiniteSet({a} \cup {b})
                BY FS_Singleton, FS_Union
            <4>2. {a, b} = {a} \cup {b}
                OBVIOUS
            <4> QED
                BY <4>1, <4>2
        <3>2. \E a, b : BoundLits(p, n, x) \subseteq {a, b}
            <4>1. CASE x \in p.bool
                <5>1. BoundLits(p, n, x) = {Bool(x, v = "false") : v \in {n.bval[x]} \ {"undef"}}
                    BY <4>1 DEF BoundLits
                <5>2. BoundLits(p, n, x) \subseteq {Bool(x, n.bval[x] = "false"), 0}
                    BY <5>1
                <5> QED
                    BY <5>2
            <4>2. CASE x \notin p.bool /\ Fixed(n, x)
                <5>1. BoundLits(p, n, x) \subseteq {Eq(x, n.low[x].val, FALSE), 0}
                    BY <4>2 DEF BoundLits
                <5> QED
                    BY <5>1
            <4>3. CASE x \notin p.bool /\ ~ Fixed(n, x)
                <5> DEFINE L(l) == Ineq(x, Own(n, x, l).val, l, Own(n, x, l).open)
                <5>1. BoundLits(p, n, x) = {L(l) : l \in {d \in BOOLEAN : Own(n, x, d) # Null}}
                    BY <4>3 DEF BoundLits
                <5>2. \A a \in BoundLits(p, n, x) : a \in {L(TRUE), L(FALSE)}
                    BY <5>1
                <5> QED
                    BY <5>2
            <4> QED
                BY <4>1, <4>2, <4>3
        <3>3. PICK a, b : BoundLits(p, n, x) \subseteq {a, b}
            BY <3>2
        <3> QED
            BY <3>1, <3>3, FS_Subset
    <2>3. \A x \in Plain(p) : G[x] = BoundLits(p, n, x)
        OBVIOUS
    <2> HIDE DEF G
    <2> QED
        BY <2>1, <2>2, <2>3, UnionFinite
<1> HIDE DEF A, B, C
<1>5. IsFiniteSet(Units(p, n))
    BY <1>1, <1>2, <1>3, <1>4, FS_Union
<1>6. ASSUME NEW a \in Units(p, n) PROVE IsAtom(p, a) \/ \E x \in Plain(p) : a \in BoundLits(p, n, x)
    <2>1. ASSUME NEW i \in Left(p, n), a \in Small(p, n, i) PROVE IsAtom(p, a)
        <3>1. i \in DOMAIN p.clauses
            BY DEF Left, OpenClauses
        <3> QED
            BY <2>1, <3>1, OpenAtomsType
    <2> QED
        BY <2>1, UnitsParts, UpAtoms
<1> QED
    BY <1>5, <1>6

-----------------------------------------------------------------------------
(* What satisfies the task of a node satisfies the problem.                *)
LEMMA BoundLitsType ==
    ASSUME NEW p, IsProblem(p), NEW n \in Nodes(p), NEW x \in p.vars
    PROVE  \A a \in BoundLits(p, n, x) : Literal(p, a)
<1>1. CASE x \in p.bool
    <2> SUFFICES ASSUME NEW v PROVE Literal(p, Bool(x, v = "false"))
        BY <1>1 DEF BoundLits
    <2> DEFINE neg == v = "false"
               a == Bool(x, neg)
    <2>1. a.kind = "bool" /\ a.x = x /\ a.lower = neg /\ a.val = Zero /\ a.open = FALSE /\ neg \in BOOLEAN
        BY DEF Bool
    <2> HIDE DEF a, neg
    <2>2. Literal(p, a)
        BY <2>1, ZeroOne DEF Literal
    <2> QED
        BY <2>2 DEF a, neg
<1>2. CASE x \notin p.bool /\ Fixed(n, x)
    <2> DEFINE l == n.low[x]
               a == Eq(x, l.val, FALSE)
    <2>1. l # Null /\ Own(n, x, TRUE) = l
        BY <1>2 DEF Fixed, Own
    <2>2. IsNumber(l.val)
        BY <2>1, OwnBound
    <2>3. BoundLits(p, n, x) = {a}
        BY <1>2 DEF BoundLits
    <2>4. a.kind = "eq" /\ a.x = x /\ a.lower = FALSE /\ a.val = l.val /\ a.open = FALSE
        BY DEF Eq
    <2> HIDE DEF l, a
    <2> QED
        BY <2>2, <2>3, <2>4 DEF Literal
<1>3. CASE x \notin p.bool /\ ~ Fixed(n, x)
    <2> SUFFICES ASSUME NEW l \in BOOLEAN, Own(n, x, l) # Null
                 PROVE  Literal(p, Ineq(x, Own(n, x, l).val, l, Own(n, x, l).open))
        BY <1>3 DEF BoundLits
    <2> DEFINE b == Own(n, x, l)
               a == Ineq(x, b.val, l, b.open)
    <2>1. b \in Bounds /\ IsNumber(b.val) /\ b.open \in BOOLEAN
        BY OwnBound DEF Bounds
    <2> HIDE DEF b
    <2>2. a.kind = "ineq" /\ a.x = x /\ a.lower = l /\ a.val = b.val /\ a.open = b.open
        BY DEF Ineq
    <2> HIDE DEF a
    <2>3. Literal(p, a)
        BY <2>1, <2>2 DEF Literal
    <2> QED
        BY <2>3 DEF a, b
<1> QED
    BY <1>1, <1>2, <1>3

(* The bounds of a variable say what its literals say.                     *)
LEMMA BoundLitsBox ==
    ASSUME IsProblem(problem), NEW n \in Nodes(problem), Consistent(n), ~ n.conflict, NEW x \in problem.vars,
           NEW m, IsPoint(problem, m), \A a \in BoundLits(problem, n, x) : Holds(m, a)
    PROVE  Boxed(n, m, {x})
<1>1. CASE x \in problem.bool
    <2>1. n.bval[x] \in {"undef", "true", "false"}
        BY <1>1 DEF Nodes, Consistent
    <2>2. CASE n.bval[x] = "undef"
        BY <1>1, <2>2 DEF Boxed
    <2>3. CASE n.bval[x] # "undef"
        <3> DEFINE neg == n.bval[x] = "false"
                   a == Bool(x, neg)
        <3>1. a \in BoundLits(problem, n, x)
            BY <1>1, <2>3 DEF BoundLits
        <3>2. Holds(m, a)
            BY <3>1
        <3>3. a.kind = "bool" /\ a.x = x /\ a.lower = neg
            BY DEF Bool
        <3> HIDE DEF a
        <3>4. (m[x] = One) # neg
            BY <3>2, <3>3 DEF Holds
        <3>5. n.bval[x] = IF m[x] = One THEN "true" ELSE "false"
            BY <2>1, <2>3, <3>4
        <3> QED
            BY <1>1, <3>5 DEF Boxed
    <2> QED
        BY <2>2, <2>3
<1>2. CASE x \notin problem.bool /\ Fixed(n, x)
    <2> DEFINE l == n.low[x]
               u == n.upp[x]
               a == Eq(x, l.val, FALSE)
    <2>1. l # Null /\ u # Null /\ l.val = u.val /\ Own(n, x, TRUE) = l /\ Own(n, x, FALSE) = u
        BY <1>2 DEF Fixed, Own
    <2>2. IsNumber(l.val) /\ l.open \in BOOLEAN /\ u.open \in BOOLEAN
        BY <2>1, OwnBound DEF Bounds
    <2>3. ~ Apart(l, u, TRUE)
        BY DEF Consistent
    <2>4. ~ l.open /\ ~ u.open
        BY <2>1, <2>2, <2>3 DEF Apart, Past
    <2>5. a \in BoundLits(problem, n, x)
        BY <1>2 DEF BoundLits
    <2>6. Holds(m, a)
        BY <2>5
    <2>7. a.kind = "eq" /\ a.x = x /\ a.lower = FALSE /\ a.val = l.val
        BY DEF Eq
    <2> HIDE DEF a, l, u
    <2>8. m[x] = l.val
        BY <2>6, <2>7 DEF Holds
    <2>9. LetsIn(l, TRUE, m[x]) /\ LetsIn(u, FALSE, m[x])
        BY <2>1, <2>4, <2>8 DEF LetsIn, Meets
    <2>10. \A lower \in BOOLEAN : Own(n, x, lower) # Null => LetsIn(Own(n, x, lower), lower, m[x])
        <3> SUFFICES ASSUME NEW lower \in BOOLEAN PROVE LetsIn(Own(n, x, lower), lower, m[x])
            OBVIOUS
        <3>1. CASE lower = TRUE
            BY <2>1, <2>9, <3>1
        <3>2. CASE lower = FALSE
            BY <2>1, <2>9, <3>2
        <3> QED
            BY <3>1, <3>2
    <2> QED
        BY <1>2, <2>10 DEF Boxed
<1>3. CASE x \notin problem.bool /\ ~ Fixed(n, x)
    <2>1. ASSUME NEW l \in BOOLEAN, Own(n, x, l) # Null PROVE LetsIn(Own(n, x, l), l, m[x])
        <3> DEFINE b == Own(n, x, l)
                   a == Ineq(x, b.val, l, b.open)
        <3>1. a \in BoundLits(problem, n, x)
            BY <1>3, <2>1 DEF BoundLits
        <3>2. Holds(m, a)
            BY <3>1
        <3>3. a.kind = "ineq" /\ a.x = x /\ a.lower = l /\ a.val = b.val /\ a.open = b.open
            BY DEF Ineq
        <3> HIDE DEF a, b
        <3>4. Meets(a, m[x])
            BY <3>2, <3>3 DEF Holds
        <3>5. LetsIn(b, l, m[x])
            BY <3>3, <3>4 DEF LetsIn, Meets
        <3> QED
            BY <3>5 DEF b
    <2> QED
        BY <1>3, <2>1 DEF Boxed
<1> QED
    BY <1>1, <1>2, <1>3

LEMMA TaskUnits ==
    ASSUME IsProblem(problem), NEW n \in Nodes(problem), ~ Refuted(problem, n),
           NEW m, IsPoint(problem, m), InTask(m, ToTask(problem, n))
    PROVE  \A a \in Units(problem, n) : Holds(m, a)
<1>1. IsFiniteSet(Units(problem, n))
    BY UnitsFinite
<1>2. \A a \in Units(problem, n) : Literal(problem, a)
    <2> SUFFICES ASSUME NEW a \in Units(problem, n) PROVE Literal(problem, a)
        OBVIOUS
    <2>1. CASE IsAtom(problem, a)
        BY <2>1 DEF IsAtom, Literal
    <2>2. CASE \E x \in Plain(problem) : a \in BoundLits(problem, n, x)
        BY <2>2, BoundLitsType DEF Plain
    <2> QED
        BY <2>1, <2>2, UnitsFinite
<1>3. ~ Contradictory(Units(problem, n))
    BY DEF Refuted
<1>4. \A b \in Conjoined(Units(problem, n)) : Holds(m, b)
    BY DEF InTask, ToTask
<1> QED
    BY <1>1, <1>2, <1>3, <1>4, ConjoinedHolds

(* One clause of the problem.                                              *)
LEMMA TaskClauseSound ==
    ASSUME IsProblem(problem), NEW n \in Nodes(problem), ~ Refuted(problem, n),
           NEW m, IsPoint(problem, m), InTask(m, ToTask(problem, n)), InBox(problem, m, n),
           NEW i \in DOMAIN problem.clauses
    PROVE  \E a \in ToSet(problem.clauses[i]) : Holds(m, a)
<1> DEFINE c == problem.clauses[i]
           S == OpenAtoms(problem, n, i)
           T == Small(problem, n, i)
<1>1. \A a \in ToSet(c) : IsAtom(problem, a)
    BY DEF IsProblem, ToSet
<1>2. IsFiniteSet(S) /\ S \subseteq ToSet(c) /\ (\A a \in S : IsAtom(problem, a)) /\ T \subseteq S /\ IsFiniteSet(T)
    BY OpenAtomsType
<1>3. CASE \E a \in ToSet(c) : Value(problem, n, a) = "true"
    BY <1>1, <1>3, ValueSound
<1>4. CASE ~ \E a \in ToSet(c) : Value(problem, n, a) = "true"
    <2>1. i \in OpenClauses(problem, n)
        BY <1>4 DEF OpenClauses
    <2>2. S # {}
        BY <2>1 DEF Refuted
    <2>3. CASE Exhaustive(S)
        <3> HIDE DEF S
        <3> QED
            BY <1>2, <2>3, ExhaustiveHolds
    <2>4. CASE ~ Exhaustive(S)
        <3>1. i \in Left(problem, n) /\ T = Disjoined(S)
            BY <2>1, <2>4 DEF Left, Small
        <3> HIDE DEF S, T
        <3>2. T # {}
            BY <1>2, <2>2, <2>4, <3>1, DisjoinedSome
        <3>3. Cardinality(T) = 1 \/ Cardinality(T) > 1
            <4>1. Cardinality(T) \in Nat /\ Cardinality(T) # 0
                BY <1>2, <3>2, FS_CardinalityType, FS_EmptySet
            <4> QED
                BY <4>1
        <3>4. CASE Cardinality(T) = 1
            <4>1. \E a : a \in T
                BY <3>2
            <4>2. \A a \in T : a \in Units(problem, n)
                BY <3>1, <3>4, UnitsParts DEF T
            <4>3. \A a \in T : Holds(m, a)
                BY <4>2, TaskUnits
            <4> QED
                BY <1>2, <4>1, <4>3
        <3>5. CASE Cardinality(T) > 1
            <4>1. PICK e \in ToSet(ToTask(problem, n).clauses), d \in Seq(T) :
                      ToSet(d) = T /\ (e = d \/ TestDominated(d, e))
                BY <3>1, <3>5, TaskClauses DEF T
            <4>2. PICK a \in ToSet(e) : Holds(m, a)
                BY <4>1 DEF InTask
            <4>3. CASE e = d
                BY <1>2, <4>1, <4>2, <4>3
            <4>4. CASE TestDominated(d, e)
                <5>1. PICK k \in Left(problem, n) : e \in Seq(Small(problem, n, k)) /\ ToSet(e) = Small(problem, n, k)
                    BY <4>1, TaskClauses
                <5>2. \A b \in ToSet(e) : IsAtom(problem, b)
                    <6>1. k \in DOMAIN problem.clauses
                        BY DEF Left, OpenClauses
                    <6> QED
                        BY <5>1, <6>1, OpenAtomsType
                <5>3. \A b \in ToSet(d) : IsAtom(problem, b)
                    BY <1>2, <4>1
                <5>4. ASSUME NEW U, NEW f \in Seq(U), \A b \in ToSet(f) : IsAtom(problem, b) PROVE Ranked(f)
                    <6>1. Len(f) \in Nat /\ DOMAIN f = 1 .. Len(f)
                        OBVIOUS
                    <6>2. ASSUME NEW j \in DOMAIN f PROVE Rank(f[j]) \in Nat /\ f[j].x \in Nat
                        <7>1. IsAtom(problem, f[j])
                            BY <5>4 DEF ToSet
                        <7>2. f[j].x \in 1 .. Cardinality(problem.vars) /\ Cardinality(problem.vars) \in Nat
                            BY <7>1, FS_CardinalityType DEF IsAtom, IsProblem
                        <7>3. Rank(f[j]) \in {0, 1, 2}
                            BY <7>1 DEF IsAtom, Rank
                        <7> QED
                            BY <7>2, <7>3
                    <6> QED
                        BY <6>1, <6>2 DEF Ranked
                <5>5. Ranked(d) /\ Ranked(e)
                    BY <4>1, <5>1, <5>2, <5>3, <5>4
                <5>6. PICK j \in DOMAIN e : e[j] = a
                    BY <4>2 DEF ToSet
                <5>7. PICK l \in DOMAIN d : Rank(d[l]) = Rank(e[j]) /\ d[l].x = e[j].x /\ Implied(d[l], e[j])
                    BY <4>4, <5>5, DominatedSound
                <5>8. d[l] \in ToSet(d)
                    BY DEF ToSet
                <5>9. Holds(m, d[l])
                    BY <4>2, <5>2, <5>3, <5>6, <5>7, <5>8, ImpliedHolds
                <5> QED
                    BY <1>2, <4>1, <5>8, <5>9
            <4> QED
                BY <4>1, <4>3, <4>4
        <3> QED
            BY <3>3, <3>4, <3>5
    <2> QED
        BY <2>3, <2>4
<1> QED
    BY <1>3, <1>4

(* A point that satisfies the task of a node is a model, when the bounds   *)
(* of the plain variables and the atoms of the defined ones tell the box   *)
(* of the node, where all units are satisfied.                             *)
THEOREM TaskPointSound ==
    ASSUME IsProblem(problem), NEW n \in Nodes(problem), Consistent(n), ~ n.conflict, ~ Refuted(problem, n),
           NEW m, IsPoint(problem, m), InTask(m, ToTask(problem, n)),
           Boxed(n, m, Plain(problem)) /\ Claimed(n, m) => Boxed(n, m, problem.vars),
           \A a \in ToSet(problem.units) : Value(problem, n, a) = "true"
    PROVE  IsModel(problem, m)
<1>1. \A a \in Units(problem, n) : Holds(m, a)
    BY TaskUnits
<1>2. ASSUME NEW x \in Plain(problem) PROVE Boxed(n, m, {x})
    <2>1. \A a \in BoundLits(problem, n, x) : Holds(m, a)
        BY <1>1, UnitsParts
    <2>2. x \in problem.vars
        BY DEF Plain
    <2> QED
        BY <2>1, <2>2, BoundLitsBox
<1>3. Boxed(n, m, Plain(problem))
    BY <1>2 DEF Boxed
<1>4. Claimed(n, m)
    BY <1>1, UnitsParts DEF Claimed
<1>5. InBox(problem, m, n)
    BY <1>3, <1>4, BoxedIs
<1>6. \A a \in ToSet(problem.units) : Holds(m, a)
    BY <1>5, ValueSound DEF IsProblem
<1>7. ASSUME NEW c \in ToSet(problem.clauses) PROVE \E a \in ToSet(c) : Holds(m, a)
    <2>1. PICK i \in DOMAIN problem.clauses : c = problem.clauses[i]
        BY DEF ToSet
    <2> QED
        BY <1>5, <2>1, TaskClauseSound
<1> QED
    BY <1>6, <1>7 DEF IsModel

-----------------------------------------------------------------------------
(* Where a node is cut: strictly between the bounds of the variable.       *)
LEMMA FloorCeilNear ==
    ASSUME NEW a, IsNumber(a)
    PROVE  \E f \in Int, c \in Int :
              /\ Floor(a) = Whole(f) /\ ~ Lt(a, Whole(f))
              /\ Ceil(a) = Whole(c) /\ ~ Lt(Whole(c), a) /\ Lt(Whole(c - 1), a)
<1> DEFINE p == a[1]
           o == -a[1]
           q == a[2]
           f == p \div q
           g == o \div q
           c == -g
<1>1. p \in Int /\ o \in Int /\ o = -p /\ q \in Nat \ {0}
    BY Parts
<1>4. Floor(a) = Whole(f) /\ Ceil(a) = Whole(c)
    BY DEF Floor, Ceil
<1>5. \A k \in Int : (Lt(a, Whole(k)) <=> p < k * q) /\ (Lt(Whole(k), a) <=> k * q < p)
    BY LtWhole
<1> HIDE DEF p, o, q
<1>2. f \in Int /\ f * q <= p
    BY <1>1, WholePart
<1>3. g \in Int /\ g * q <= o /\ o < (g + 1) * q
    BY <1>1, WholePart
<1> HIDE DEF f, g
<1>6. c \in Int /\ c * q = -(g * q) /\ (c - 1) * q = -((g + 1) * q)
    BY <1>1, <1>3
<1> HIDE DEF c
<1> DEFINE A == g * q
           B == (g + 1) * q
           C == c * q
           D == (c - 1) * q
           F == f * q
<1>7. A \in Int /\ B \in Int /\ C \in Int /\ D \in Int /\ F \in Int
    BY <1>1, <1>2, <1>3, <1>6
<1>8. A <= o /\ o < B /\ C = -A /\ D = -B /\ F <= p
    BY <1>2, <1>3, <1>6
<1>9. c - 1 \in Int /\ (Lt(a, Whole(f)) <=> p < F) /\ (Lt(Whole(c), a) <=> C < p) /\ (Lt(Whole(c - 1), a) <=> D < p)
    BY <1>2, <1>5, <1>6
<1> HIDE DEF A, B, C, D, F
<1>10. ~ (p < F) /\ ~ (C < p) /\ D < p
    BY <1>1, <1>7, <1>8
<1> QED
    BY <1>2, <1>4, <1>6, <1>9, <1>10

LEMMA StepBelow ==
    ASSUME NEW a, IsNumber(a), NEW d \in Nat \ {0}
    PROVE  Lt(Minus(Floor(a), Whole(d)), a) /\ Lt(a, Plus(Ceil(a), Whole(d)))
<1>1. PICK f \in Int, c \in Int : /\ Floor(a) = Whole(f) /\ ~ Lt(a, Whole(f))
                                  /\ Ceil(a) = Whole(c) /\ ~ Lt(Whole(c), a)
    BY FloorCeilNear
<1>2. PICK K \in Nat \ {0}, i \in Int : At(a, K, i)
    BY Denominator
<1> DEFINE F == f * K
           C == c * K
           D == d * K
           N == -D
           M == F + N
           P == C + D
           wf == Whole(f)
           wc == Whole(c)
           wd == Whole(d)
           od == Opposite(wd)
           mi == Plus(wf, od)
           pl == Plus(wc, wd)
<1>3. F \in Int /\ C \in Int /\ D \in Int /\ D > 0 /\ N \in Int /\ M \in Int /\ P \in Int
    OBVIOUS
<1>4. IsNumber(wf) /\ IsNumber(wc) /\ IsNumber(wd) /\ At(wf, K, F) /\ At(wc, K, C) /\ At(wd, K, D)
    <2>1. d \in Int
        OBVIOUS
    <2> QED
        BY <2>1, WholeNumber
<1> HIDE DEF F, C, wf, wc, wd, D
<1>5. IsNumber(od) /\ At(od, K, N)
    BY <1>3, <1>4, OppositeAt
<1> HIDE DEF od, N
<1>6. IsNumber(mi) /\ At(mi, K, M) /\ IsNumber(pl) /\ At(pl, K, P)
    BY <1>3, <1>4, <1>5, PlusAt
<1>7. N = -D /\ M = F + N /\ P = C + D
    BY DEF N
<1> HIDE DEF mi, pl, M, P
<1>8. (Lt(a, wf) <=> i < F) /\ (Lt(wc, a) <=> C < i)
    BY <1>2, <1>3, <1>4, AtCompare
<1>9. (Lt(mi, a) <=> M < i) /\ (Lt(a, pl) <=> i < P)
    BY <1>2, <1>3, <1>6, AtCompare
<1>10. ~ (i < F) /\ ~ (C < i)
    BY <1>1, <1>8 DEF wf, wc
<1>11. M < i /\ i < P
    BY <1>3, <1>7, <1>10
<1>12. Minus(Floor(a), Whole(d)) = mi /\ Plus(Ceil(a), Whole(d)) = pl
    BY <1>1 DEF Minus, mi, pl, wf, wc, wd, od
<1> QED
    BY <1>9, <1>11, <1>12

LEMMA HalfWay ==
    ASSUME NEW l, NEW u, IsNumber(l), IsNumber(u), Lt(l, u)
    PROVE  LET mid == Times(Ratio(1, 2), Plus(l, u)) IN
           /\ IsNumber(mid) /\ Lt(l, mid) /\ Lt(mid, u)
           /\ Lt(Whole(10), Minus(u, l)) => Lt(l, Ceil(mid)) /\ Lt(Ceil(mid), u)
<1> DEFINE half == Ratio(1, 2)
           sum == Plus(l, u)
           mid == Times(half, sum)
           ol == Opposite(l)
           gap == Plus(u, ol)
<1>1. PICK H \in Nat \ {0}, i0 \in Int, j0 \in Int : At(l, H, i0) /\ At(u, H, j0)
    BY Denominator
<1> DEFINE K == 2 * H
           i == 2 * i0
           j == 2 * j0
           b == i0 + j0
           s0 == i0 + j0
           ni == -i
           g == j + ni
           T == 10 * K
<1>2. K \in Nat \ {0} /\ i \in Int /\ j \in Int /\ s0 \in Int /\ ni \in Int /\ g \in Int /\ T \in Int
    OBVIOUS
<1>3. At(l, K, i) /\ At(u, K, j)
    <2>1. l[1] \in Int /\ l[2] \in Int /\ u[1] \in Int /\ u[2] \in Int
        BY Parts
    <2>2. l[1] * H = i0 * l[2] /\ u[1] * H = j0 * u[2]
        BY <1>1 DEF At
    <2>3. l[1] * K = 2 * (l[1] * H) /\ i * l[2] = 2 * (i0 * l[2]) /\ u[1] * K = 2 * (u[1] * H) /\ j * u[2] = 2 * (j0 * u[2])
        BY <2>1
    <2> QED
        BY <2>2, <2>3 DEF At
<1>4. IsNumber(half) /\ At(half, 2, 1)
    BY RatioAt
<1> HIDE DEF half
<1>5. IsNumber(sum) /\ At(sum, H, s0)
    BY <1>1, PlusAt
<1> HIDE DEF sum
<1>6. IsNumber(mid) /\ At(mid, K, s0)
    <2>1. At(mid, 2 * H, 1 * s0) /\ IsNumber(mid)
        BY <1>2, <1>4, <1>5, TimesAt
    <2> QED
        BY <1>2, <2>1
<1> HIDE DEF mid
<1>7. (Lt(l, u) <=> i < j) /\ (Lt(l, mid) <=> i < s0) /\ (Lt(mid, u) <=> s0 < j)
    BY <1>2, <1>3, <1>6, AtCompare
<1>8. i < s0 /\ s0 < j
    <2>1. i < j
        BY <1>7
    <2> QED
        BY <2>1
<1>9. IsNumber(ol) /\ At(ol, K, ni)
    BY <1>2, <1>3, OppositeAt
<1> HIDE DEF ol
<1>10. IsNumber(gap) /\ At(gap, K, g)
    BY <1>2, <1>3, <1>9, PlusAt
<1>11. Minus(u, l) = gap
    BY DEF Minus, gap, ol
<1> HIDE DEF gap
<1>12. ASSUME Lt(Whole(10), gap) PROVE Lt(l, Ceil(mid)) /\ Lt(Ceil(mid), u)
    <2>1. PICK c \in Int : Ceil(mid) = Whole(c) /\ ~ Lt(Whole(c), mid) /\ Lt(Whole(c - 1), mid)
        BY <1>6, FloorCeilNear
    <2> DEFINE w == Whole(c)
               v == Whole(c - 1)
               C == c * K
               D == (c - 1) * K
               t == Whole(10)
    <2>2. IsNumber(w) /\ At(w, K, C) /\ IsNumber(v) /\ At(v, K, D) /\ IsNumber(t) /\ At(t, K, T)
        <3>1. c - 1 \in Int /\ 10 \in Int
            OBVIOUS
        <3> QED
            BY <1>2, <3>1, WholeNumber
    <2>3. C \in Int /\ D \in Int /\ D = C - K
        BY <1>2
    <2> HIDE DEF w, v, C, D, t
    <2>4. (Lt(w, mid) <=> C < s0) /\ (Lt(v, mid) <=> D < s0) /\ (Lt(t, gap) <=> T < g)
        BY <1>2, <1>6, <1>10, <2>2, <2>3, AtCompare
    <2>5. (Lt(l, w) <=> i < C) /\ (Lt(w, u) <=> C < j)
        BY <1>2, <1>3, <2>2, <2>3, AtCompare
    <2>6. ~ (C < s0) /\ D < s0 /\ T < g
        BY <1>12, <2>1, <2>4 DEF w, v, t
    <2>7. i < C /\ C < j
        BY <1>2, <1>8, <2>3, <2>6
    <2> QED
        BY <2>1, <2>5, <2>7 DEF w
<1> QED
    BY <1>6, <1>7, <1>8, <1>11, <1>12 DEF mid, sum, half

LEMMA MiddleInside ==
    ASSUME NEW n \in Nodes(problem), Consistent(n), ~ n.conflict, NEW x \in problem.vars, ~ Fixed(n, x)
    PROVE  /\ n.low[x] # Null => Lt(n.low[x].val, Middle(n, x))
           /\ n.upp[x] # Null => Lt(Middle(n, x), n.upp[x].val)
<1> DEFINE l == n.low[x]
           u == n.upp[x]
           mid == Times(Ratio(1, 2), Plus(l.val, u.val))
<1>1. (l # Null => IsNumber(l.val)) /\ (u # Null => IsNumber(u.val))
    BY OwnIs DEF IsBound
<1>2. CASE AcrossZero(n, x)
    BY <1>2 DEF AcrossZero, Middle
<1>3. CASE ~ AcrossZero(n, x) /\ l = Null
    <2>1. u # Null
        BY <1>3 DEF AcrossZero
    <2>2. Middle(n, x) = Minus(Floor(u.val), Whole(SplitDelta))
        BY <1>3 DEF Middle
    <2> QED
        BY <1>1, <1>3, <2>1, <2>2, StepBelow, SubpavingConstants
<1>4. CASE ~ AcrossZero(n, x) /\ l # Null /\ u = Null
    <2>1. Middle(n, x) = Plus(Ceil(l.val), Whole(SplitDelta))
        BY <1>4 DEF Middle
    <2> QED
        BY <1>1, <1>4, <2>1, StepBelow, SubpavingConstants
<1>5. CASE ~ AcrossZero(n, x) /\ l # Null /\ u # Null
    <2>1. ~ Apart(l, u, TRUE)
        BY DEF Consistent
    <2>2. Lt(l.val, u.val)
        <3>1. ~ Lt(u.val, l.val)
            BY <1>5, <2>1 DEF Apart, Past, Less
        <3>2. l.val # u.val
            BY <1>5 DEF Fixed
        <3> QED
            BY <1>1, <1>5, <3>1, <3>2, LtOrder
    <2>3. Middle(n, x) = IF Lt(Whole(10), Minus(u.val, l.val)) THEN Ceil(mid) ELSE mid
        BY <1>5 DEF Middle
    <2> QED
        BY <1>1, <1>5, <2>2, <2>3, HalfWay
<1> QED
    BY <1>2, <1>3, <1>4, <1>5

(* The bound with which a node is split is undecided there, and so is the  *)
(* bound of the other half.                                                *)
LEMMA CutUndecided ==
    ASSUME IsProblem(problem), NEW n \in Nodes(problem), Consistent(n), ~ n.conflict,
           \A a \in Lits(task) : IsAtom(problem, a) /\ Value(problem, n, a) = "undef",
           NEW x \in Eligible(n), NEW a \in Cuts(n, x)
    PROVE  IneqValue(n, a) = "undef" /\ a.x = x
<1>1. x \in problem.vars \ problem.bool /\ ~ Fixed(n, x)
    BY DEF Eligible, Plain
<1> DEFINE lits == {b \in TaskLits : b.x = x /\ b.kind # "eq"}
<1>2. a \in IF lits # {} THEN {Ineq(x, b.val, b.lower, b.open) : b \in lits}
            ELSE {Ineq(x, Middle(n, x), FALSE, FALSE)}
    BY DEF Cuts
<1>3. \A b \in lits : b.x = x /\ b.kind = "ineq" /\ b.lower \in BOOLEAN /\ b.open \in BOOLEAN /\ IneqValue(n, b) = "undef"
    <2> SUFFICES ASSUME NEW b \in lits
                 PROVE  b.x = x /\ b.kind = "ineq" /\ b.lower \in BOOLEAN /\ b.open \in BOOLEAN /\ IneqValue(n, b) = "undef"
        OBVIOUS
    <2>1. b \in Lits(task) /\ b.x = x /\ b.kind # "eq"
        BY DEF TaskLits, Lits
    <2>2. IsAtom(problem, b) /\ Value(problem, n, b) = "undef"
        BY <2>1
    <2>3. b.kind = "ineq" /\ b.lower \in BOOLEAN /\ b.open \in BOOLEAN
        BY <1>1, <2>1, <2>2, AtomParts
    <2> QED
        BY <2>1, <2>2, <2>3 DEF Value
<1> HIDE DEF lits
<1>4. CASE lits # {}
    <2>1. PICK b \in lits : a = Ineq(x, b.val, b.lower, b.open)
        BY <1>2, <1>4
    <2>2. a.x = x /\ a.val = b.val /\ a.lower = b.lower /\ a.open = b.open
        BY <2>1 DEF Ineq
    <2> QED
        BY <1>3, <2>2 DEF IneqValue
<1>5. CASE lits = {}
    <2> DEFINE mid == Middle(n, x)
    <2>1. a = Ineq(x, mid, FALSE, FALSE)
        BY <1>2, <1>5
    <2>2. a.x = x /\ a.val = mid /\ a.lower = FALSE /\ a.open = FALSE
        BY <2>1 DEF Ineq
    <2>3. /\ n.low[x] # Null => IsNumber(n.low[x].val) /\ Lt(n.low[x].val, mid)
          /\ n.upp[x] # Null => IsNumber(n.upp[x].val) /\ Lt(mid, n.upp[x].val)
        BY <1>1, MiddleInside, OwnIs DEF IsBound
    <2>4. IsNumber(mid)
        BY <1>1, MiddleNumber
    <2> HIDE DEF mid
    <2>5. ~ Past(n.low[x], mid, TRUE, FALSE)
        BY <2>3, <2>4, LtOrder DEF Past, Less
    <2>6. ~ Past(n.upp[x], mid, FALSE, TRUE)
        BY <2>3, <2>4, LtOrder DEF Past, Less
    <2> QED
        BY <2>2, <2>5, <2>6 DEF IneqValue, Own
<1> QED
    BY <1>4, <1>5

LEMMA OtherUndecided ==
    ASSUME NEW n, NEW a, a.lower \in BOOLEAN, a.open \in BOOLEAN, IneqValue(n, a) = "undef"
    PROVE  IneqValue(n, OtherHalf(a)) = "undef" /\ OtherHalf(a).x = a.x
<1> DEFINE b == OtherHalf(a)
<1>1. b.x = a.x /\ b.val = a.val /\ b.lower = ~ a.lower /\ b.open = ~ a.open
    BY DEF OtherHalf, Ineq
<1> HIDE DEF b
<1>2. (~ b.lower) = a.lower /\ (~ b.open) = a.open
    BY <1>1
<1>3. ~ Past(Own(n, a.x, ~ a.lower), a.val, ~ a.lower, a.open) /\ ~ Past(Own(n, a.x, a.lower), a.val, a.lower, ~ a.open)
    BY DEF IneqValue
<1>4. ~ Past(Own(n, b.x, ~ b.lower), b.val, ~ b.lower, b.open) /\ ~ Past(Own(n, b.x, b.lower), b.val, b.lower, ~ b.open)
    BY <1>1, <1>2, <1>3
<1> QED
    BY <1>1, <1>4 DEF IneqValue, b

-----------------------------------------------------------------------------
(* The inductive invariant.                                                *)
Size == Cardinality(DOMAIN nodes)
Newest == IF halves = Null THEN Size - 1 ELSE halves.node
Kids(n) == {k \in DOMAIN nodes : parent[k] = n}
HalfMade(n) == halves # Null /\ halves.from = n /\ at < halves.node

Typed ==
    /\ problem \in Problems /\ clock \in Nat
    /\ Size \in Nat \ {0} /\ nodes \in [0 .. Size - 1 -> Nodes(problem)]
    /\ parent \in [0 .. Newest -> DOMAIN nodes \cup {Null}]
    /\ nstate \in [0 .. Newest -> {"unconverted", "waiting", "unsat"}]
    /\ at \in DOMAIN nodes /\ heap \subseteq DOMAIN nodes
    /\ todo \in Seq(Constraints)
    /\ pc \in {"init", "propagating", "creating", "splitting", "refuted"}

TasksTyped ==
    /\ \A n \in DOMAIN tasks : \A a \in Lits(tasks[n]) : IsAtom(problem, a)
    /\ pc = "splitting" => task.node \in DOMAIN nodes /\ \A a \in Lits(task) : IsAtom(problem, a)

HalvesTyped ==
    halves # Null =>
        /\ pc = "propagating"
        /\ halves.node \in Nat /\ halves.from \in DOMAIN nodes
        /\ at \in {halves.node - 1, halves.node} /\ Size = at + 1
        /\ parent[halves.node - 1] = halves.from /\ parent[halves.node] = halves.from
        /\ Kids(halves.from) \subseteq {halves.node - 1, halves.node}
        /\ at < halves.node => nstate[halves.node] = "unconverted"
        /\ IsAtom(problem, halves.lit) /\ halves.lit.kind = "ineq"

Childless ==
    /\ \A n \in heap : Kids(n) = {}
    /\ pc = "init" => at = 0 /\ Size = 1
    /\ pc \in {"init", "propagating"} => Kids(at) = {} /\ nstate[at] = "unconverted"
    /\ pc = "splitting" => Kids(task.node) = {} /\ task.node \notin heap

ModelsKept ==
    \A m \in problem.models : \E n \in DOMAIN nodes :
        (Kids(n) = {} \/ HalfMade(n)) /\ nstate[n] # "unsat" /\ Kept(problem, nodes[n], m)

HalfKept ==
    \A m \in problem.models :
        (/\ halves # Null /\ at < halves.node /\ Kept(problem, nodes[halves.from], m)
         /\ ~ Meets(halves.lit, m[halves.lit.x])) => Kept(problem, nodes[at], m)

Inv == Typed /\ TasksTyped /\ HalvesTyped /\ Childless /\ ModelsKept /\ HalfKept

-----------------------------------------------------------------------------
(* Problems whose definitions are sums, and the steps that change the node *)
(* in propagation.                                                         *)
OnlySums == \A p \in Problems : \A x \in DOMAIN p.defs : p.defs[x].kind = "polynomial"

LEMMA ProblemFacts ==
    ASSUME OnlySums, problem \in Problems
    PROVE  SumProblem(problem) /\ IsProblem(problem) /\ \A m \in problem.models : IsModel(problem, m)
<1>1. IsProblem(problem) /\ \A m \in problem.models : IsModel(problem, m)
    BY ProblemsSound
<1>2. \A x \in DOMAIN problem.defs : IsDefinition(problem, problem.defs[x]) /\ problem.defs[x].kind = "polynomial"
    BY <1>1 DEF IsProblem, OnlySums
<1>3. \A x \in DOMAIN problem.defs : IsSum(problem, problem.defs[x])
    BY <1>2 DEF IsDefinition, IsSum
<1> QED
    BY <1>1, <1>3 DEF SumProblem

(* The environment of a step of which only the models of the problem count. *)
Light(M) == [models |-> M, points |-> {}, from |-> 0, clock |-> 0, relaxed |-> FALSE,
             full |-> FALSE, strict |-> FALSE, open |-> {}, since |-> 0]

LEMMA LightIs ==
    ASSUME NEW M
    PROVE  /\ Light(M).models = M /\ Light(M).full = FALSE
           /\ \A s, x : Held(s, Light(M), x) = M
           /\ \A s : Good(s, Light(M)) <=> IsState(s) /\ \A m \in M : IsModel(problem, m) /\ Kept(problem, s.n, m)
           /\ \A s, i : Good(s, Closed(Light(M), i)) <=> Good(s, Light(M))
<1>1. /\ Light(M).models = M /\ Light(M).full = FALSE /\ Light(M).points = {}
    BY DEF Light
<1>2. \A i : Closed(Light(M), i).models = M /\ Closed(Light(M), i).full = FALSE
    BY <1>1 DEF Closed
<1>3. \A s, x : Held(s, Light(M), x) = M
    BY <1>1 DEF Held
<1>4. /\ \A s : Good(s, Light(M)) <=> IsState(s) /\ \A m \in M : IsModel(problem, m) /\ Kept(problem, s.n, m)
      /\ \A s, i : Good(s, Closed(Light(M), i)) <=> Good(s, Light(M))
    BY <1>1, <1>2 DEF Good
<1> QED
    BY <1>1, <1>3, <1>4

LEMMA LightGood ==
    \A s, M : Good(s, Light(M)) <=> IsState(s) /\ \A m \in M : IsModel(problem, m) /\ Kept(problem, s.n, m)
BY LightIs

LEMMA CurrentGood ==
    ASSUME OnlySums, Typed
    PROVE  /\ Good(Current, Light({}))
           /\ \A m \in problem.models : Kept(problem, nodes[at], m) => Good(Current, Light({m}))
<1>1. nodes[at] \in Nodes(problem) /\ clock \in Nat
    BY DEF Typed
<1>2. IsState(Current)
    BY <1>1 DEF Current, IsState
<1>3. Current.n = nodes[at]
    BY DEF Current
<1> QED
    BY <1>2, <1>3, ProblemFacts, LightGood DEF Typed

(* A step that changes the node in propagation only.                       *)
Keeping(s) ==
    /\ IsState(s)
    /\ \A m \in problem.models : Kept(problem, nodes[at], m) => Kept(problem, s.n, m)

LEMMA NodeStep ==
    ASSUME Inv, pc \in {"init", "propagating"}, NEW s, Keeping(s),
           nodes' = [nodes EXCEPT ![at] = s.n], clock' = s.t, at' = at, pc' = "propagating",
           problem' = problem, parent' = parent, nstate' = nstate, heap' = heap,
           tasks' = tasks, halves' = halves, todo' \in Seq(Constraints)
    PROVE  Inv'
<1>1. s.n \in Nodes(problem) /\ s.t \in Nat
    BY DEF Keeping, IsState
<1>2. ASSUME NEW m \in problem.models, Kept(problem, nodes[at], m) PROVE Kept(problem, s.n, m)
    BY <1>2 DEF Keeping
<1>3. DOMAIN nodes' = DOMAIN nodes /\ nodes' \in [DOMAIN nodes -> Nodes(problem)]
      /\ \A n \in DOMAIN nodes : nodes'[n] = IF n = at THEN s.n ELSE nodes[n]
    BY <1>1 DEF Inv, Typed
<1>4. Size' = Size /\ Newest' = Newest /\ Constraints' = Constraints
    BY <1>3 DEF Size, Newest, Constraints
<1>5. \A n : Kids(n)' = Kids(n) /\ HalfMade(n)' = HalfMade(n)
    BY <1>3 DEF Kids, HalfMade
<1>6. Typed'
    <2>1. DOMAIN nodes = 0 .. Size - 1
        BY DEF Inv, Typed
    <2>2. nodes' \in [0 .. Size - 1 -> Nodes(problem)]
        BY <1>3, <2>1
    <2> QED
        BY <1>1, <1>3, <1>4, <2>2 DEF Inv, Typed
<1>7. TasksTyped'
    BY DEF Inv, TasksTyped
<1>8. HalvesTyped'
    BY <1>3, <1>4, <1>5 DEF Inv, HalvesTyped
<1>9. Childless'
    BY <1>5 DEF Inv, Childless
<1>10. ModelsKept'
    <2> SUFFICES ASSUME NEW m \in problem.models
                 PROVE  \E n \in DOMAIN nodes' :
                            (Kids(n)' = {} \/ HalfMade(n)') /\ nstate'[n] # "unsat" /\ Kept(problem, nodes'[n], m)
        BY DEF ModelsKept
    <2>1. PICK n \in DOMAIN nodes : (Kids(n) = {} \/ HalfMade(n)) /\ nstate[n] # "unsat" /\ Kept(problem, nodes[n], m)
        BY DEF Inv, ModelsKept
    <2>2. Kept(problem, nodes'[n], m)
        BY <1>2, <1>3, <2>1
    <2>3. (Kids(n)' = {} \/ HalfMade(n)') /\ nstate'[n] # "unsat"
        BY <1>5, <2>1
    <2> QED
        BY <1>3, <2>1, <2>2, <2>3
<1>11. HalfKept'
    <2> SUFFICES ASSUME NEW m \in problem.models, halves # Null, at < halves.node,
                        Kept(problem, nodes'[halves.from], m), ~ Meets(halves.lit, m[halves.lit.x])
                 PROVE  Kept(problem, nodes'[at], m)
        BY DEF HalfKept
    <2>1. halves.from \in DOMAIN nodes /\ halves.from # at
        <3>1. halves.from \in DOMAIN nodes /\ at = halves.node - 1 /\ parent[at] = halves.from /\ pc = "propagating"
            BY DEF Inv, HalvesTyped, Typed
        <3>2. at \in Kids(halves.from)
            BY <3>1 DEF Inv, Typed, Kids
        <3> QED
            BY <3>1, <3>2 DEF Inv, Childless
    <2>2. Kept(problem, nodes[halves.from], m)
        BY <1>3, <2>1
    <2>3. Kept(problem, nodes[at], m)
        BY <2>2 DEF Inv, HalfKept
    <2> QED
        BY <1>2, <1>3, <2>3 DEF Inv, Typed
<1> QED
    BY <1>6, <1>7, <1>8, <1>9, <1>10, <1>11 DEF Inv

LEMMA VisitStep ==
    ASSUME OnlySums, Inv, Visit
    PROVE  Inv'
<1>1. PICK s \in {IF MayPropagate(Head(todo)) THEN Propagate(Current, Head(todo)) ELSE Current} :
          nodes' = [nodes EXCEPT ![at] = s.n] /\ clock' = s.t
    BY DEF Visit
<1>2. Head(todo) \in Constraints /\ Tail(todo) \in Seq(Constraints)
    BY DEF Visit, Inv, Typed
<1>3. SumProblem(problem)
    BY ProblemFacts DEF Inv, Typed
<1>4. Good(Current, Light({})) /\ \A m \in problem.models : Kept(problem, nodes[at], m) => Good(Current, Light({m}))
    BY CurrentGood DEF Inv
<1> DEFINE c == Head(todo)
           k == Current
<1> HIDE DEF c, k
<1>5. Good(Propagate(k, c), Light({})) /\ \A m \in problem.models : Kept(problem, nodes[at], m) => Good(Propagate(k, c), Light({m}))
    <2>1. \A M : Good(k, Light(M)) => Good(Propagate(k, c), Light(M))
        <3> SUFFICES ASSUME NEW M, Good(k, Light(M)) PROVE Good(Propagate(k, c), Light(M))
            OBVIOUS
        <3> DEFINE e == Light(M)
        <3>1. e.full = FALSE /\ \A t : Good(t, Closed(e, c.id)) => Good(t, e)
            BY LightIs
        <3> HIDE DEF e
        <3>2. Good(k, e) /\ c \in Constraints
            BY <1>2 DEF e, c
        <3>3. Good(Propagate(k, c), IF c.def THEN e ELSE Closed(e, c.id))
            BY <1>3, <3>1, <3>2, PropagateGood
        <3>4. Good(Propagate(k, c), e)
            BY <3>1, <3>3
        <3> QED
            BY <3>4 DEF e
    <2> QED
        BY <1>4, <2>1 DEF k
<1>6. Keeping(s)
    <2>1. s = k \/ s = Propagate(k, c)
        BY <1>1 DEF k, c
    <2> QED
        BY <1>4, <1>5, <2>1, LightGood DEF Keeping, k
<1>7. pc \in {"init", "propagating"} /\ pc' = "propagating" /\ at' = at /\ problem' = problem /\ parent' = parent
      /\ nstate' = nstate /\ heap' = heap /\ tasks' = tasks /\ halves' = halves /\ todo' \in Seq(Constraints)
    BY <1>2 DEF Visit, Propagating
<1> QED
    BY <1>1, <1>6, <1>7, NodeStep

LEMMA AssertUnitsStep ==
    ASSUME OnlySums, Inv, AssertUnits
    PROVE  Inv'
<1>1. PICK s \in {FoldLeft(LAMBDA t, a : AssertUnlessConflict(t, a), Current, problem.units)} :
          nodes' = [nodes EXCEPT ![0] = s.n] /\ StartAt(0, s, DefSeq)
    BY DEF AssertUnits
<1>2. IsProblem(problem)
    BY ProblemFacts DEF Inv, Typed
<1>3. Good(Current, Light({})) /\ \A m \in problem.models : Kept(problem, nodes[at], m) => Good(Current, Light({m}))
    BY CurrentGood DEF Inv
<1>4. Keeping(s)
    <2>1. s = FoldLeft(LAMBDA t, a : AssertUnlessConflict(t, a), Current, problem.units)
        BY <1>1
    <2> DEFINE k == Current
    <2> HIDE DEF k
    <2>2. \A e : Good(k, e) => Good(FoldLeft(LAMBDA t, a : AssertUnlessConflict(t, a), k, problem.units), e)
        BY <1>2, UnitsGood
    <2>3. \A e : Good(k, e) => Good(s, e)
        BY <2>1, <2>2 DEF k
    <2>4. Good(s, Light({})) /\ \A m \in problem.models : Kept(problem, nodes[at], m) => Good(s, Light({m}))
        BY <1>3, <2>3 DEF k
    <2> QED
        BY <2>4, LightIs DEF Keeping
<1>5. pc = "init" /\ at = 0
    BY DEF AssertUnits, Inv, Childless
<1>6. pc' = "propagating" /\ at' = at /\ clock' = s.t /\ todo' = DefSeq
    BY <1>1, <1>5 DEF StartAt
<1>7. problem' = problem /\ parent' = parent /\ nstate' = nstate /\ heap' = heap /\ tasks' = tasks /\ halves' = halves
    BY DEF AssertUnits
<1>8. todo' \in Seq(Constraints)
    BY <1>2, <1>6, WatchersType
<1>9. pc \in {"init", "propagating"} /\ nodes' = [nodes EXCEPT ![at] = s.n]
    BY <1>1, <1>5
<1> HIDE DEF Inv
<1> QED
    BY <1>4, <1>6, <1>7, <1>8, <1>9, NodeStep

(* A step that changes the queue only.                                     *)
LEMMA QueueStep ==
    ASSUME Inv, todo' \in Seq(Constraints), pc = "propagating",
           UNCHANGED <<problem, nodes, parent, nstate, heap, tasks, pc, at, halves, clock>>
    PROVE  Inv'
<1>1. Size' = Size /\ Newest' = Newest /\ Constraints' = Constraints
    BY DEF Size, Newest, Constraints
<1>2. \A n : Kids(n)' = Kids(n) /\ HalfMade(n)' = HalfMade(n)
    BY DEF Kids, HalfMade
<1>3. Typed'
    BY <1>1 DEF Inv, Typed
<1>4. TasksTyped'
    BY DEF Inv, TasksTyped
<1>5. HalvesTyped'
    BY <1>1, <1>2 DEF Inv, HalvesTyped
<1>6. Childless'
    BY <1>1, <1>2 DEF Inv, Childless
<1>7. ModelsKept' /\ HalfKept'
    BY <1>2 DEF Inv, ModelsKept, HalfKept
<1> QED
    BY <1>3, <1>4, <1>5, <1>6, <1>7 DEF Inv

LEMMA TakeBoundStep ==
    ASSUME OnlySums, Inv, TakeBound \/ TimeUp
    PROVE  Inv'
<1>1. IsProblem(problem)
    BY ProblemFacts DEF Inv, Typed
<1>2. todo' \in Seq(Constraints)
    <2>1. todo' = todo \/ \E x : todo' = Watchers(x)
        BY DEF TakeBound, TimeUp
    <2> QED
        BY <1>1, <2>1, WatchersType DEF Inv, Typed
<1>3. pc = "propagating" /\ UNCHANGED <<problem, nodes, parent, nstate, heap, tasks, pc, at, halves, clock>>
    BY DEF TakeBound, TimeUp, Propagating, treeVars
<1> HIDE DEF Inv
<1> QED
    BY <1>2, <1>3, QueueStep

-----------------------------------------------------------------------------
(* The steps that settle a node, and the one that takes a node from the    *)
(* heap.                                                                   *)
LEMMA Ranges ==
    ASSUME Inv
    PROVE  /\ Size \in Nat \ {0} /\ DOMAIN nodes = 0 .. Size - 1 /\ Newest \in Nat
           /\ DOMAIN nodes \subseteq 0 .. Newest /\ at \in DOMAIN nodes /\ at \in 0 .. Newest
           /\ halves = Null => Newest = Size - 1
<1>1. Size \in Nat \ {0} /\ DOMAIN nodes = 0 .. Size - 1 /\ at \in DOMAIN nodes
    BY DEF Inv, Typed
<1>2. halves # Null => halves.node \in Nat /\ at \in {halves.node - 1, halves.node} /\ Size = at + 1
    BY DEF Inv, HalvesTyped
<1>3. CASE halves = Null
    BY <1>1, <1>3 DEF Newest
<1>4. CASE halves # Null
    <2>1. Newest = halves.node
        BY <1>4 DEF Newest
    <2> QED
        BY <1>1, <1>2, <1>4, <2>1
<1> QED
    BY <1>3, <1>4

LEMMA SettleKeeps ==
    ASSUME Inv, pc = "propagating", Settle
    PROVE  /\ nstate' \in [0 .. Newest -> {"unconverted", "waiting", "unsat"}]
           /\ heap' \subseteq heap \cup {at}
           /\ \A n \in 0 .. Newest : n # at => nstate'[n] = nstate[n]
           /\ ~ nodes[at].conflict => nstate'[at] = "unconverted"
<1>1. nstate \in [0 .. Newest -> {"unconverted", "waiting", "unsat"}] /\ nstate[at] = "unconverted"
    BY DEF Inv, Typed, Childless
<1>2. at \in 0 .. Newest
    BY Ranges
<1>3. nstate' = [nstate EXCEPT ![at] = IF nodes[at].conflict THEN "unsat" ELSE "unconverted"]
    BY <1>1, <1>2 DEF Settle
<1>4. heap' \subseteq heap \cup {at}
    BY DEF Settle
<1> QED
    BY <1>1, <1>2, <1>3, <1>4

LEMMA KidsSame ==
    ASSUME nodes' = nodes, parent' = parent
    PROVE  Size' = Size /\ \A n : Kids(n)' = Kids(n)
BY DEF Size, Kids

LEMMA NoTodo == <<>> \in Seq(Constraints) /\ (problem' = problem => <<>> \in Seq(Constraints'))
<1>1. \A S : <<>> \in Seq(S)
    OBVIOUS
<1> QED
    BY <1>1

LEMMA RootDoneStep ==
    ASSUME Inv, RootDone
    PROVE  Inv'
<1>1. pc = "propagating" /\ halves = Null /\ Settle /\ pc' \in {"refuted", "creating"} /\ todo' = <<>>
      /\ UNCHANGED <<problem, nodes, parent, tasks, at, halves, clock>>
    BY DEF RootDone, Propagated
<1>2. /\ nstate' \in [0 .. Newest -> {"unconverted", "waiting", "unsat"}]
      /\ heap' \subseteq heap \cup {at}
      /\ \A n \in 0 .. Newest : n # at => nstate'[n] = nstate[n]
      /\ ~ nodes[at].conflict => nstate'[at] = "unconverted"
    BY <1>1, SettleKeeps
<1>3. Size' = Size /\ Newest' = Newest /\ \A n : Kids(n)' = Kids(n)
    BY <1>1, KidsSame DEF Newest
<1>4. \A n : HalfMade(n) = FALSE
    BY <1>1 DEF HalfMade
<1>5. Typed'
    BY <1>1, <1>2, <1>3, NoTodo DEF Inv, Typed
<1>6. TasksTyped' /\ HalvesTyped' /\ HalfKept'
    BY <1>1 DEF Inv, TasksTyped, HalvesTyped, HalfKept
<1>7. Childless'
    BY <1>1, <1>2, <1>3 DEF Inv, Childless
<1>8. ModelsKept'
    <2> SUFFICES ASSUME NEW m \in problem.models
                 PROVE  \E n \in DOMAIN nodes' :
                            (Kids(n)' = {} \/ HalfMade(n)') /\ nstate'[n] # "unsat" /\ Kept(problem, nodes'[n], m)
        BY <1>1 DEF ModelsKept
    <2>1. PICK n \in DOMAIN nodes : Kids(n) = {} /\ nstate[n] # "unsat" /\ Kept(problem, nodes[n], m)
        BY <1>4 DEF Inv, ModelsKept
    <2>2. nstate'[n] # "unsat"
        <3>1. n \in 0 .. Newest
            BY Ranges
        <3>2. n = at => ~ nodes[at].conflict
            BY <2>1 DEF Kept
        <3> QED
            BY <1>2, <2>1, <3>1, <3>2
    <2> QED
        BY <1>1, <1>3, <2>1, <2>2
<1> QED
    BY <1>5, <1>6, <1>7, <1>8 DEF Inv

LEMMA RightDoneStep ==
    ASSUME Inv, RightDone
    PROVE  Inv'
<1>1. pc = "propagating" /\ halves # Null /\ at = halves.node /\ Settle /\ pc' = "creating" /\ todo' = <<>> /\ halves' = Null
      /\ UNCHANGED <<problem, nodes, parent, tasks, at, clock>>
    BY DEF RightDone, Propagated
<1>2. /\ nstate' \in [0 .. Newest -> {"unconverted", "waiting", "unsat"}]
      /\ heap' \subseteq heap \cup {at}
      /\ \A n \in 0 .. Newest : n # at => nstate'[n] = nstate[n]
      /\ ~ nodes[at].conflict => nstate'[at] = "unconverted"
    BY <1>1, SettleKeeps
<1>3. Size' = Size /\ \A n : Kids(n)' = Kids(n)
    BY <1>1, KidsSame
<1>4. Newest' = Newest
    <2>1. Newest = at /\ Size = at + 1 /\ halves.node \in Nat
        BY <1>1 DEF Newest, Inv, HalvesTyped
    <2>2. Newest' = Size - 1
        BY <1>1, <1>3 DEF Newest
    <2> QED
        BY <1>1, <2>1, <2>2
<1>5. \A n : HalfMade(n) = FALSE
    <2>1. halves.node \in Nat
        BY <1>1 DEF Inv, HalvesTyped
    <2>2. ~ (at < halves.node)
        BY <1>1, <2>1
    <2> QED
        BY <2>2 DEF HalfMade
<1>6. Typed'
    BY <1>1, <1>2, <1>3, <1>4, NoTodo DEF Inv, Typed
<1>7. TasksTyped' /\ HalvesTyped' /\ HalfKept'
    BY <1>1 DEF Inv, TasksTyped, HalvesTyped, HalfKept
<1>8. Childless'
    BY <1>1, <1>2, <1>3 DEF Inv, Childless
<1>9. ModelsKept'
    <2> SUFFICES ASSUME NEW m \in problem.models
                 PROVE  \E n \in DOMAIN nodes' :
                            (Kids(n)' = {} \/ HalfMade(n)') /\ nstate'[n] # "unsat" /\ Kept(problem, nodes'[n], m)
        BY <1>1 DEF ModelsKept
    <2>1. PICK n \in DOMAIN nodes : Kids(n) = {} /\ nstate[n] # "unsat" /\ Kept(problem, nodes[n], m)
        BY <1>5 DEF Inv, ModelsKept
    <2>2. nstate'[n] # "unsat"
        <3>1. n \in 0 .. Newest
            BY Ranges
        <3>2. n = at => ~ nodes[at].conflict
            BY <2>1 DEF Kept
        <3> QED
            BY <1>2, <2>1, <3>1, <3>2
    <2> QED
        BY <1>1, <1>3, <2>1, <2>2
<1> QED
    BY <1>6, <1>7, <1>8, <1>9 DEF Inv

LEMMA NoVariableStep ==
    ASSUME Inv, NoVariable
    PROVE  Inv'
<1>1. pc = "splitting" /\ pc' = "creating" /\ UNCHANGED <<problem, nodes, parent, nstate, heap, tasks, at, halves, clock, todo>>
    BY DEF NoVariable, treeVars, propVars
<1>2. Size' = Size /\ Newest' = Newest /\ \A n : Kids(n)' = Kids(n)
    BY <1>1, KidsSame DEF Newest
<1>3. halves = Null
    BY <1>1 DEF Inv, HalvesTyped
<1>4. Typed'
    BY <1>1, <1>2 DEF Inv, Typed, Constraints
<1>5. TasksTyped' /\ HalvesTyped' /\ HalfKept'
    BY <1>1, <1>3 DEF Inv, TasksTyped, HalvesTyped, HalfKept
<1>6. Childless'
    BY <1>1, <1>2 DEF Inv, Childless
<1>7. ModelsKept'
    BY <1>1, <1>2 DEF Inv, ModelsKept, HalfMade
<1> QED
    BY <1>4, <1>5, <1>6, <1>7 DEF Inv

LEMMA CreateTaskStep ==
    ASSUME OnlySums, Inv, CreateTask
    PROVE  Inv'
<1>1. PICK n \in heap :
          /\ heap' = heap \ {n}
          /\ IF Refuted(problem, nodes[n])
             THEN nstate' = [nstate EXCEPT ![n] = "unsat"] /\ UNCHANGED <<task, tasks, pc>>
             ELSE /\ nstate' = [nstate EXCEPT ![n] = "waiting"]
                  /\ tasks' = With(tasks, n, ToTask(problem, nodes[n]))
                  /\ task' = [node |-> n, clauses |-> tasks'[n].clauses, bounds |-> tasks'[n].bounds]
                  /\ pc' = "splitting"
    BY DEF CreateTask
<1>2. pc = "creating" /\ UNCHANGED <<problem, nodes, parent, at, halves, clock, todo>>
    BY DEF CreateTask, propVars
<1>3. Size' = Size /\ Newest' = Newest /\ \A k : Kids(k)' = Kids(k)
    BY <1>2, KidsSame DEF Newest
<1>4. halves = Null
    BY <1>2 DEF Inv, HalvesTyped
<1>5. n \in DOMAIN nodes /\ n \in 0 .. Newest /\ nodes[n] \in Nodes(problem) /\ Kids(n) = {}
    BY Ranges DEF Inv, Typed, Childless
<1>6. IsProblem(problem) /\ \A m \in problem.models : IsModel(problem, m)
    BY ProblemFacts DEF Inv, Typed
<1>7. /\ nstate' \in [0 .. Newest -> {"unconverted", "waiting", "unsat"}]
      /\ \A k \in 0 .. Newest : nstate'[k] = "unsat" => nstate[k] = "unsat" \/ (k = n /\ Refuted(problem, nodes[n]))
    <2>1. nstate \in [0 .. Newest -> {"unconverted", "waiting", "unsat"}]
        BY DEF Inv, Typed
    <2> QED
        BY <1>1, <1>5, <2>1
<1>8. pc' \in {"creating", "splitting"}
    BY <1>1, <1>2
<1>9. Typed'
    BY <1>1, <1>2, <1>3, <1>7, <1>8 DEF Inv, Typed, Constraints
<1>10. TasksTyped'
    <2>1. CASE Refuted(problem, nodes[n])
        BY <1>1, <1>2, <2>1 DEF Inv, TasksTyped
    <2>2. CASE ~ Refuted(problem, nodes[n])
        <3> DEFINE t == ToTask(problem, nodes[n])
        <3>1. \A a \in Lits(t) : IsAtom(problem, a)
            BY <1>6, TaskType DEF Lits
        <3>2. tasks' = With(tasks, n, t) /\ task'.node = n /\ task'.clauses = tasks'[n].clauses
            BY <1>1, <2>2
        <3> HIDE DEF t
        <3>3. DOMAIN tasks' = DOMAIN tasks \cup {n} /\ \A k \in DOMAIN tasks' : tasks'[k] = IF k = n THEN t ELSE tasks[k]
            BY <3>2 DEF With
        <3>4. \A k \in DOMAIN tasks' : \A a \in Lits(tasks'[k]) : IsAtom(problem, a)
            BY <3>1, <3>3 DEF Inv, TasksTyped
        <3>5. Lits(task') = Lits(t)
            BY <3>2, <3>3 DEF Lits
        <3> QED
            BY <1>2, <1>5, <3>1, <3>2, <3>4, <3>5 DEF TasksTyped
    <2> QED
        BY <2>1, <2>2
<1>11. HalvesTyped' /\ HalfKept'
    BY <1>2, <1>4 DEF HalvesTyped, HalfKept
<1>12. Childless'
    <2>1. \A k \in heap' : Kids(k)' = {}
        BY <1>1, <1>3 DEF Inv, Childless
    <2>2. pc' = "splitting" => task'.node = n
        BY <1>1, <1>2
    <2> QED
        BY <1>1, <1>3, <1>5, <1>8, <2>1, <2>2 DEF Childless
<1>13. ModelsKept'
    <2> SUFFICES ASSUME NEW m \in problem.models
                 PROVE  \E k \in DOMAIN nodes' :
                            (Kids(k)' = {} \/ HalfMade(k)') /\ nstate'[k] # "unsat" /\ Kept(problem, nodes'[k], m)
        BY <1>2 DEF ModelsKept
    <2>1. PICK k \in DOMAIN nodes : Kids(k) = {} /\ nstate[k] # "unsat" /\ Kept(problem, nodes[k], m)
        BY <1>4 DEF Inv, ModelsKept, HalfMade
    <2>2. nstate'[k] # "unsat"
        <3>1. k \in 0 .. Newest
            BY Ranges
        <3>2. CASE k = n
            <4>1. ~ Refuted(problem, nodes[n])
                BY <1>5, <1>6, <2>1, <3>2, RefutedSound DEF Kept
            <4> QED
                BY <1>7, <2>1, <3>1, <4>1
        <3>3. CASE k # n
            BY <1>7, <2>1, <3>1, <3>3
        <3> QED
            BY <3>2, <3>3
    <2> QED
        BY <1>2, <1>3, <2>1, <2>2
<1> QED
    BY <1>9, <1>10, <1>11, <1>12, <1>13 DEF Inv

-----------------------------------------------------------------------------
(* The steps that make a half of a node.                                   *)
LEMMA BeginHalfGood ==
    ASSUME OnlySums, Inv, NEW n \in DOMAIN nodes, NEW half, NEW a, IsAtom(problem, a), a.kind = "ineq",
           BeginHalf(n, half, a)
    PROVE  \E k \in Nodes(problem) :
              /\ nodes' = With(nodes, half, k) /\ clock' \in Nat /\ at' = half /\ pc' = "propagating" /\ todo' = <<>>
              /\ \A m \in problem.models : Kept(problem, nodes[n], m) /\ Meets(a, m[a.x]) => Kept(problem, k, m)
<1> DEFINE b == Normalize(problem, a.x, a.val, a.lower, a.open)
           s0 == [n |-> nodes[n], q |-> <<>>, t |-> clock, v |-> visited,
                  r |-> relaxed \/ TooFine(problem, a.x, a.val)]
           s == Made(s0, a.x, b, a.lower)
<1>1. nodes' = With(nodes, half, s.n) /\ StartAt(half, s, <<>>)
    BY DEF BeginHalf
<1>2. IsProblem(problem) /\ \A m \in problem.models : IsModel(problem, m)
    BY ProblemFacts DEF Inv, Typed
<1>3. a.x \in problem.vars \ problem.bool /\ IsNumber(a.val) /\ a.lower \in BOOLEAN /\ a.open \in BOOLEAN
    BY DEF IsAtom
<1>4. s0.n = nodes[n] /\ IsState(s0)
    BY DEF IsState, Inv, Typed
<1>5. IsNumber(b.val) /\ b.open \in BOOLEAN
    BY <1>3, NormalizeType
<1>6. ASSUME NEW m \in problem.models, Meets(a, m[a.x]) PROVE LetsIn(b, a.lower, m[a.x])
    <2>1. IsPoint(problem, m)
        BY <1>2 DEF IsModel
    <2>2. Meets([val |-> a.val, lower |-> a.lower, open |-> a.open], m[a.x])
        BY <1>6 DEF Meets
    <2> QED
        BY <1>3, <2>1, <2>2, NormalizeKeeps DEF IsLimit, LetsIn
<1> HIDE DEF b, s0
<1>7. \A M : Good(s0, Light(M)) /\ (\A m \in M : LetsIn(b, a.lower, m[a.x])) => Good(s, Light(M))
    <2> SUFFICES ASSUME NEW M, Good(s0, Light(M)), \A m \in M : LetsIn(b, a.lower, m[a.x]) PROVE Good(s, Light(M))
        OBVIOUS
    <2> DEFINE e == Light(M)
               y == a.x
               up == a.lower
    <2>0. e.full = FALSE /\ Held(s0, e, y) = M
        BY LightIs
    <2> HIDE DEF e
    <2>1. e.full = FALSE /\ Good(s0, e) /\ \A m \in Held(s0, e, y) : LetsIn(b, up, m[y])
        BY <2>0 DEF e
    <2>3. y \in problem.vars \ problem.bool /\ up \in BOOLEAN
        BY <1>3
    <2> HIDE DEF y, up
    <2>4. Good(Made(s0, y, b, up), e)
        BY <1>2, <1>5, <2>1, <2>3, MadeGood
    <2>2. Good(s, e)
        BY <2>4 DEF y, up
    <2> QED
        BY <2>2 DEF e
<1>8. ASSUME NEW m \in problem.models, Kept(problem, nodes[n], m), Meets(a, m[a.x]) PROVE Kept(problem, s.n, m)
    <2>1. Good(s0, Light({m}))
        <3>1. IsState(s0) /\ \A k \in {m} : IsModel(problem, k) /\ Kept(problem, s0.n, k)
            BY <1>2, <1>4, <1>8
        <3> QED
            BY <3>1, LightGood
    <2>2. Good(s, Light({m}))
        BY <1>6, <1>7, <1>8, <2>1
    <2> QED
        BY <2>2, LightIs
<1>12. Good(s0, Light({}))
    BY <1>4, LightIs
<1> HIDE DEF s
<1>9. s.n \in Nodes(problem) /\ s.t \in Nat
    <2>1. Good(s, Light({}))
        BY <1>7, <1>12
    <2> QED
        BY <2>1, LightIs DEF IsState
<1>10. clock' = s.t /\ at' = half /\ pc' = "propagating" /\ todo' = <<>>
    BY <1>1 DEF StartAt
<1> QED
    BY <1>1, <1>8, <1>9, <1>10

(* The number of a new node is the number of nodes.                        *)
LEMMA NodeAdded ==
    ASSUME Inv, NEW k \in Nodes(problem), nodes' = With(nodes, Size, k)
    PROVE  /\ Size' = Size + 1 /\ DOMAIN nodes' = 0 .. Size /\ nodes' \in [0 .. Size -> Nodes(problem)]
           /\ nodes'[Size] = k /\ Size \notin DOMAIN nodes /\ \A j \in DOMAIN nodes : j # Size /\ nodes'[j] = nodes[j]
<1> DEFINE c == Size
<1>1. c \in Nat \ {0} /\ nodes \in [0 .. c - 1 -> Nodes(problem)] /\ nodes' = With(nodes, c, k)
    BY DEF Inv, Typed
<1> HIDE DEF c
<1>2. DOMAIN nodes \cup {c} = 0 .. c
    BY <1>1
<1>3. DOMAIN nodes' = 0 .. c /\ \A j \in 0 .. c : nodes'[j] = IF j = c THEN k ELSE nodes[j]
    BY <1>1, <1>2 DEF With
<1>4. nodes' \in [0 .. c -> Nodes(problem)]
    BY <1>1, <1>2 DEF With
<1>5. Cardinality(0 .. c) = c + 1
    BY <1>1, FS_Interval
<1>6. Size' = c + 1
    BY <1>3, <1>5 DEF Size
<1> QED
    BY <1>1, <1>3, <1>4, <1>6 DEF c

(* The children of a node, when the new node has the parent n.             *)
LEMMA KidAdded ==
    ASSUME Inv, NEW n \in DOMAIN nodes, NEW c \in Nat, c \notin DOMAIN nodes, DOMAIN nodes' = DOMAIN nodes \cup {c},
           parent'[c] = n, \A j \in DOMAIN nodes : parent'[j] = parent[j]
    PROVE  /\ \A j : j # n => Kids(j)' = Kids(j)
           /\ Kids(n)' = Kids(n) \cup {c}
           /\ Kids(c)' = {} /\ c # n
<1>1. \A j : Kids(j)' = {k \in DOMAIN nodes' : parent'[k] = j}
    BY DEF Kids
<1>2. ASSUME NEW j, j # n PROVE Kids(j)' = Kids(j)
    BY <1>1, <1>2 DEF Kids
<1>3. Kids(n)' = Kids(n) \cup {c}
    BY <1>1 DEF Kids
<1>4. Kids(c) = {} /\ c # n
    <2>1. \A k \in DOMAIN nodes : parent[k] \in DOMAIN nodes \cup {Null}
        BY Ranges DEF Inv, Typed
    <2>2. c # Null
        BY BoxConstants
    <2> QED
        BY <2>1, <2>2 DEF Kids
<1> QED
    BY <1>2, <1>3, <1>4

LEMMA LeftDoneStep ==
    ASSUME OnlySums, Inv, LeftDone
    PROVE  Inv'
<1> SUFFICES ASSUME NEW c, c = halves.node, NEW from, from = halves.from PROVE Inv'
    OBVIOUS
<1>1. pc = "propagating" /\ halves # Null /\ at < c /\ Settle /\ BeginHalf(from, c, halves.lit)
      /\ UNCHANGED <<problem, parent, tasks, halves>>
    BY DEF LeftDone, Propagated
<1>2. /\ c \in Nat /\ from \in DOMAIN nodes /\ at = c - 1 /\ Size = c /\ parent[at] = from /\ parent[c] = from
      /\ Kids(from) \subseteq {c - 1, c} /\ nstate[c] = "unconverted" /\ IsAtom(problem, halves.lit) /\ halves.lit.kind = "ineq"
    <2>1. /\ c \in Nat /\ from \in DOMAIN nodes /\ at \in {c - 1, c} /\ Size = at + 1 /\ parent[c - 1] = from /\ parent[c] = from
          /\ Kids(from) \subseteq {c - 1, c} /\ nstate[c] = "unconverted" /\ IsAtom(problem, halves.lit) /\ halves.lit.kind = "ineq"
        BY <1>1 DEF Inv, HalvesTyped
    <2>2. at = c - 1
        BY <1>1, <2>1
    <2>3. Size = c
        BY <2>1, <2>2
    <2> QED
        BY <2>1, <2>2, <2>3
<1>3. Newest = c /\ Newest' = c
    BY <1>1 DEF Newest
<1>4. PICK k \in Nodes(problem) :
          /\ nodes' = With(nodes, c, k) /\ clock' \in Nat /\ at' = c /\ pc' = "propagating" /\ todo' = <<>>
          /\ \A m \in problem.models : Kept(problem, nodes[from], m) /\ Meets(halves.lit, m[halves.lit.x]) => Kept(problem, k, m)
    BY <1>1, <1>2, BeginHalfGood
<1>5. /\ Size' = c + 1 /\ DOMAIN nodes' = 0 .. c /\ nodes' \in [0 .. c -> Nodes(problem)]
      /\ nodes'[c] = k /\ c \notin DOMAIN nodes /\ \A j \in DOMAIN nodes : j # c /\ nodes'[j] = nodes[j]
    BY <1>2, <1>4, NodeAdded
<1>6. DOMAIN nodes = 0 .. c - 1 /\ DOMAIN nodes' = DOMAIN nodes \cup {c} /\ at \in DOMAIN nodes
    BY <1>2, <1>5, Ranges
<1>7. (\A j : j # from => Kids(j)' = Kids(j)) /\ Kids(from)' = Kids(from) \cup {c} /\ Kids(c)' = {} /\ c # from
    <2>1. parent'[c] = from /\ \A j \in DOMAIN nodes : parent'[j] = parent[j]
        BY <1>1, <1>2
    <2> QED
        BY <1>2, <1>5, <1>6, <2>1, KidAdded
<1>8. /\ nstate' \in [0 .. c -> {"unconverted", "waiting", "unsat"}]
      /\ heap' \subseteq heap \cup {at}
      /\ \A j \in 0 .. c : j # at => nstate'[j] = nstate[j]
      /\ ~ nodes[at].conflict => nstate'[at] = "unconverted"
    BY <1>1, <1>3, SettleKeeps
<1>9. at \in Kids(from) /\ Kids(at) = {} /\ at # from /\ at # c
    BY <1>1, <1>2, <1>6 DEF Kids, Inv, Childless
<1>10. Typed'
    <2>1. parent \in [0 .. c -> DOMAIN nodes \cup {Null}] /\ problem \in Problems /\ heap \subseteq DOMAIN nodes
        BY <1>3 DEF Inv, Typed
    <2>2. parent' \in [0 .. c -> DOMAIN nodes' \cup {Null}]
        BY <1>1, <1>6, <2>1
    <2>3. heap' \subseteq DOMAIN nodes' /\ at' \in DOMAIN nodes'
        BY <1>4, <1>6, <1>8, <2>1
    <2>4. todo' \in Seq(Constraints')
        BY <1>1, <1>4, NoTodo
    <2>5. Size' \in Nat \ {0} /\ nodes' \in [0 .. Size' - 1 -> Nodes(problem)] /\ Size' - 1 = c
        BY <1>2, <1>5
    <2> QED
        BY <1>1, <1>3, <1>4, <1>8, <2>1, <2>2, <2>3, <2>4, <2>5 DEF Typed
<1>11. TasksTyped'
    BY <1>1, <1>4 DEF Inv, TasksTyped
<1>12. HalvesTyped'
    <2>1. halves'.node = c /\ halves'.from = from /\ halves'.lit = halves.lit /\ parent' = parent
        BY <1>1
    <2>2. at' = c /\ ~ (at' < c) /\ Size' = at' + 1
        BY <1>2, <1>4, <1>5
    <2>3. Kids(from)' \subseteq {c - 1, c} /\ from \in DOMAIN nodes' /\ parent'[c - 1] = from /\ parent'[c] = from
        BY <1>2, <1>6, <1>7, <2>1
    <2> QED
        BY <1>1, <1>2, <1>4, <2>1, <2>2, <2>3 DEF HalvesTyped
<1>13. Childless'
    <2>1. \A j \in heap' : Kids(j)' = {}
        <3>1. \A j \in heap : Kids(j) = {}
            BY DEF Inv, Childless
        <3> QED
            BY <1>7, <1>8, <1>9, <3>1
    <2>2. nstate'[c] = "unconverted"
        BY <1>2, <1>8, <1>9
    <2> QED
        BY <1>4, <1>7, <2>1, <2>2 DEF Childless
<1>14. ModelsKept'
    <2> SUFFICES ASSUME NEW m \in problem.models
                 PROVE  \E j \in DOMAIN nodes' : Kids(j)' = {} /\ nstate'[j] # "unsat" /\ Kept(problem, nodes'[j], m)
        BY <1>1 DEF ModelsKept
    <2>1. PICK j \in DOMAIN nodes : (Kids(j) = {} \/ HalfMade(j)) /\ nstate[j] # "unsat" /\ Kept(problem, nodes[j], m)
        BY DEF Inv, ModelsKept
    <2>2. CASE Kids(j) = {}
        <3>1. j # from /\ Kids(j)' = {} /\ nodes'[j] = nodes[j] /\ j \in DOMAIN nodes' /\ j \in 0 .. c
            BY <1>2, <1>5, <1>6, <1>7, <1>9, <2>2
        <3>2. nstate'[j] # "unsat"
            <4>1. j = at => ~ nodes[at].conflict
                BY <2>1 DEF Kept
            <4> QED
                BY <1>8, <2>1, <3>1, <4>1
        <3> QED
            BY <2>1, <3>1, <3>2
    <2>3. CASE HalfMade(j)
        <3>1. Kept(problem, nodes[from], m)
            BY <2>1, <2>3 DEF HalfMade
        <3>2. CASE Meets(halves.lit, m[halves.lit.x])
            <4>1. Kept(problem, nodes'[c], m)
                BY <1>4, <1>5, <3>1, <3>2
            <4>2. nstate'[c] = "unconverted" /\ c \in DOMAIN nodes' /\ Kids(c)' = {}
                BY <1>2, <1>6, <1>7, <1>8, <1>9
            <4> QED
                BY <4>1, <4>2
        <3>3. CASE ~ Meets(halves.lit, m[halves.lit.x])
            <4>1. Kept(problem, nodes[at], m)
                BY <1>1, <3>1, <3>3 DEF Inv, HalfKept
            <4>2. nstate'[at] = "unconverted" /\ at \in DOMAIN nodes' /\ nodes'[at] = nodes[at]
                BY <1>5, <1>6, <1>8, <4>1 DEF Kept
            <4>3. \A j1 : j1 = at => Kids(j1)' = {}
                BY <1>7, <1>9
            <4> QED
                BY <4>1, <4>2, <4>3
        <3> QED
            BY <3>2, <3>3
    <2> QED
        BY <2>1, <2>2, <2>3
<1>15. HalfKept'
    <2>1. halves'.node = c /\ at' = c /\ ~ (at' < c)
        BY <1>1, <1>2, <1>4
    <2> QED
        BY <2>1 DEF HalfKept
<1> QED
    BY <1>10, <1>11, <1>12, <1>13, <1>14, <1>15 DEF Inv

LEMMA SplitNodeStep ==
    ASSUME OnlySums, Inv, SplitNode
    PROVE  Inv'
<1> SUFFICES ASSUME NEW c, c = Size, NEW n, n = task.node PROVE Inv'
    OBVIOUS
<1>1. PICK x \in Eligible(nodes[n]) : \E a \in Cuts(nodes[n], x) :
          /\ halves' = [node |-> c + 1, from |-> n, lit |-> OtherHalf(a)]
          /\ parent' = With(With(parent, c, n), c + 1, n)
          /\ nstate' = With(With(nstate, c, "unconverted"), c + 1, "unconverted")
          /\ BeginHalf(n, c, a)
    BY DEF SplitNode, Size
<1>2. PICK a \in Cuts(nodes[n], x) :
          /\ halves' = [node |-> c + 1, from |-> n, lit |-> OtherHalf(a)]
          /\ parent' = With(With(parent, c, n), c + 1, n)
          /\ nstate' = With(With(nstate, c, "unconverted"), c + 1, "unconverted")
          /\ BeginHalf(n, c, a)
    BY <1>1
<1>3. pc = "splitting" /\ UNCHANGED <<problem, heap, tasks, task>>
    BY DEF SplitNode
<1>4. /\ halves = Null /\ c \in Nat \ {0} /\ DOMAIN nodes = 0 .. c - 1 /\ Newest = c - 1
      /\ n \in DOMAIN nodes /\ Kids(n) = {} /\ n \notin heap /\ \A b \in Lits(task) : IsAtom(problem, b)
    <2>1. halves = Null
        BY <1>3 DEF Inv, HalvesTyped
    <2> QED
        BY <1>3, <2>1, Ranges DEF Inv, TasksTyped, Childless
<1>5. IsProblem(problem) /\ \A m \in problem.models : IsModel(problem, m)
    BY ProblemFacts DEF Inv, Typed
<1>6. IsAtom(problem, a) /\ a.kind = "ineq"
    <2>1. nodes[n] \in Nodes(problem)
        BY <1>4 DEF Inv, Typed
    <2> QED
        BY <1>4, <1>5, <2>1, CutType
<1>7. a.lower \in BOOLEAN /\ a.open \in BOOLEAN /\ IsNumber(a.val) /\ a.x \in problem.vars \ problem.bool
    BY <1>6 DEF IsAtom
<1> DEFINE b == OtherHalf(a)
<1>8. b = [kind |-> "ineq", x |-> a.x, lower |-> ~ a.lower, val |-> a.val, open |-> ~ a.open]
    BY DEF OtherHalf, Ineq
<1>9. IsAtom(problem, b) /\ b.kind = "ineq"
    BY <1>6, <1>7, <1>8 DEF IsAtom
<1>10. halves' # Null
    <2>1. a.x \in Nat /\ a.val \in Int \X Int
        <3>1. Cardinality(problem.vars) \in Nat
            BY <1>5, FS_CardinalityType DEF IsProblem
        <3> QED
            BY <1>5, <1>7, <3>1 DEF IsProblem, IsNumber
    <2>2. b \in [kind : {"ineq"}, x : Nat, lower : BOOLEAN, val : Int \X Int, open : BOOLEAN]
        BY <1>7, <1>8, <2>1
    <2> HIDE DEF b
    <2>3. [node |-> c + 1, from |-> n, lit |-> b] \in
              [node : Nat, from : Nat, lit : [kind : {"ineq"}, x : Nat, lower : BOOLEAN, val : Int \X Int, open : BOOLEAN]]
        BY <1>4, <2>2
    <2> QED
        BY <1>2, <2>3, SubpavingConstants DEF b
<1> HIDE DEF b
<1>11. halves'.node = c + 1 /\ halves'.from = n /\ halves'.lit = b
    BY <1>2 DEF b
<1>12. PICK k \in Nodes(problem) :
          /\ nodes' = With(nodes, c, k) /\ clock' \in Nat /\ at' = c /\ pc' = "propagating" /\ todo' = <<>>
          /\ \A m \in problem.models : Kept(problem, nodes[n], m) /\ Meets(a, m[a.x]) => Kept(problem, k, m)
    BY <1>2, <1>4, <1>6, BeginHalfGood
<1>13. /\ Size' = c + 1 /\ DOMAIN nodes' = 0 .. c /\ nodes' \in [0 .. c -> Nodes(problem)]
       /\ nodes'[c] = k /\ c \notin DOMAIN nodes /\ \A j \in DOMAIN nodes : j # c /\ nodes'[j] = nodes[j]
    BY <1>12, NodeAdded
<1>14. DOMAIN nodes' = DOMAIN nodes \cup {c}
    BY <1>4, <1>13
<1>15. Newest' = c + 1
    BY <1>10, <1>11 DEF Newest
<1>16. /\ parent \in [0 .. c - 1 -> DOMAIN nodes \cup {Null}]
       /\ nstate \in [0 .. c - 1 -> {"unconverted", "waiting", "unsat"}]
    BY <1>4 DEF Inv, Typed
<1>17. 0 .. c + 1 = ((0 .. c - 1) \cup {c}) \cup {c + 1} /\ c # c + 1 /\ c \notin 0 .. c - 1 /\ c + 1 \notin 0 .. c - 1
    BY <1>4
<1>18. /\ parent' \in [0 .. c + 1 -> DOMAIN nodes' \cup {Null}]
       /\ parent'[c] = n /\ parent'[c + 1] = n /\ \A j \in DOMAIN nodes : parent'[j] = parent[j]
    <2>1. parent' = [j \in 0 .. c + 1 |-> IF j = c + 1 THEN n ELSE IF j = c THEN n ELSE parent[j]]
        BY <1>2, <1>16, <1>17 DEF With
    <2> QED
        BY <1>4, <1>14, <1>16, <1>17, <2>1
<1>19. /\ nstate' \in [0 .. c + 1 -> {"unconverted", "waiting", "unsat"}]
       /\ nstate'[c] = "unconverted" /\ nstate'[c + 1] = "unconverted" /\ \A j \in DOMAIN nodes : nstate'[j] = nstate[j]
    <2>1. nstate' = [j \in 0 .. c + 1 |-> IF j = c + 1 THEN "unconverted" ELSE IF j = c THEN "unconverted" ELSE nstate[j]]
        BY <1>2, <1>16, <1>17 DEF With
    <2> QED
        BY <1>4, <1>16, <1>17, <2>1
<1>20. (\A j : j # n => Kids(j)' = Kids(j)) /\ Kids(n)' = {c} /\ Kids(c)' = {} /\ c # n
    BY <1>4, <1>13, <1>14, <1>18, KidAdded
<1>21. Typed'
    <2>1. problem \in Problems /\ heap \subseteq DOMAIN nodes
        BY DEF Inv, Typed
    <2>2. heap' \subseteq DOMAIN nodes' /\ at' \in DOMAIN nodes'
        BY <1>3, <1>12, <1>14, <2>1
    <2>3. todo' \in Seq(Constraints')
        BY <1>3, <1>12, NoTodo
    <2>4. Size' \in Nat \ {0} /\ nodes' \in [0 .. Size' - 1 -> Nodes(problem)]
        BY <1>4, <1>13
    <2> QED
        BY <1>3, <1>12, <1>15, <1>18, <1>19, <2>1, <2>2, <2>3, <2>4 DEF Typed
<1>22. TasksTyped'
    BY <1>3, <1>12 DEF Inv, TasksTyped
<1>23. HalvesTyped'
    <2>1. at' = c /\ c = (c + 1) - 1 /\ Size' = at' + 1 /\ n \in DOMAIN nodes' /\ c + 1 \in Nat
        BY <1>4, <1>12, <1>13, <1>14
    <2>2. Kids(halves.from)' \subseteq {c, c + 1}
        BY <1>11, <1>20
    <2> QED
        BY <1>3, <1>9, <1>11, <1>12, <1>18, <1>19, <2>1, <2>2 DEF HalvesTyped
<1>24. Childless'
    <2>1. \A j \in heap' : Kids(j)' = {}
        BY <1>3, <1>4, <1>20 DEF Inv, Childless
    <2> QED
        BY <1>12, <1>19, <1>20, <2>1 DEF Childless
<1>25. \A j : HalfMade(j)' <=> j = n
    BY <1>4, <1>10, <1>11, <1>12 DEF HalfMade
<1>26. ModelsKept'
    <2> SUFFICES ASSUME NEW m \in problem.models
                 PROVE  \E j \in DOMAIN nodes' :
                            (Kids(j)' = {} \/ HalfMade(j)') /\ nstate'[j] # "unsat" /\ Kept(problem, nodes'[j], m)
        BY <1>3 DEF ModelsKept
    <2>1. PICK j \in DOMAIN nodes : Kids(j) = {} /\ nstate[j] # "unsat" /\ Kept(problem, nodes[j], m)
        BY <1>4 DEF Inv, ModelsKept, HalfMade
    <2> QED
        BY <1>13, <1>14, <1>19, <1>20, <1>25, <2>1
<1>27. HalfKept'
    <2> SUFFICES ASSUME NEW m \in problem.models, Kept(problem, nodes'[n], m), ~ Meets(b, m[b.x])
                 PROVE  Kept(problem, nodes'[c], m)
        BY <1>3, <1>11, <1>12 DEF HalfKept
    <2>1. IsNumber(m[a.x]) /\ b.x = a.x
        BY <1>5, <1>7, <1>8 DEF IsModel, IsPoint
    <2>2. Meets(a, m[a.x])
        BY <1>7, <2>1, HalvesCover DEF b
    <2> QED
        BY <1>4, <1>12, <1>13, <2>2
<1> QED
    BY <1>21, <1>22, <1>23, <1>24, <1>26, <1>27 DEF Inv

-----------------------------------------------------------------------------
(* The theorem.                                                            *)
LEMMA InitInv ==
    ASSUME OnlySums, Init
    PROVE  Inv
<1> DEFINE e == EmptyNode(problem)
<1>1. /\ problem \in Problems /\ nodes = [n \in {0} |-> e] /\ parent = [n \in {0} |-> Null]
      /\ nstate = [n \in {0} |-> "unconverted"] /\ heap = {} /\ pc = "init" /\ at = 0 /\ halves = Null
      /\ todo = <<>> /\ clock = 0 /\ tasks = <<>>
    BY DEF Init
<1>2. IsProblem(problem) /\ \A m \in problem.models : IsModel(problem, m)
    BY <1>1, ProblemFacts
<1>3. e \in Nodes(problem)
    <2>1. <<>> \in Seq(UNION {ToSet(c) : c \in ToSet(problem.clauses)})
        OBVIOUS
    <2> QED
        BY <2>1 DEF EmptyNode, Nodes
<1>4. ASSUME NEW m PROVE Kept(problem, e, m)
    <2>1. e.conflict = FALSE /\ ToSet(e.up) = {}
        BY DEF EmptyNode, ToSet
    <2>2. InBox(problem, m, e)
        BY DEF EmptyNode, InBox, Own
    <2> QED
        BY <2>1, <2>2 DEF Kept
<1> HIDE DEF e
<1>5. Size = 1 /\ Newest = 0
    <2>1. Size = 1
        BY <1>1, FS_Singleton DEF Size
    <2> QED
        BY <1>1, <2>1 DEF Newest
<1>6. Kids(0) = {}
    BY <1>1, BoxConstants DEF Kids
<1>7. Typed
    <2>1. 0 .. 0 = {0}
        OBVIOUS
    <2>2. Size - 1 = 0
        BY <1>5
    <2> QED
        BY <1>1, <1>3, <1>5, <2>1, <2>2, NoTodo DEF Typed
<1>8. TasksTyped /\ HalvesTyped /\ HalfKept
    BY <1>1 DEF TasksTyped, HalvesTyped, HalfKept
<1>9. Childless
    BY <1>1, <1>5, <1>6 DEF Childless
<1>10. ModelsKept
    BY <1>1, <1>4, <1>6 DEF ModelsKept
<1> QED
    BY <1>7, <1>8, <1>9, <1>10 DEF Inv

LEMMA StutterInv ==
    ASSUME Inv, UNCHANGED vars
    PROVE  Inv'
<1>1. UNCHANGED <<problem, nodes, parent, nstate, heap, task, pc, at, halves, todo, clock, tasks>>
    BY DEF vars, treeVars, propVars
<1>2. Size' = Size /\ Newest' = Newest /\ Constraints' = Constraints
    BY <1>1 DEF Size, Newest, Constraints
<1>3. \A n : Kids(n)' = Kids(n) /\ HalfMade(n)' = HalfMade(n)
    BY <1>1 DEF Kids, HalfMade
<1>4. Typed'
    BY <1>1, <1>2 DEF Inv, Typed
<1>5. TasksTyped' /\ HalvesTyped'
    BY <1>1, <1>2, <1>3 DEF Inv, TasksTyped, HalvesTyped
<1>6. Childless'
    BY <1>1, <1>2, <1>3 DEF Inv, Childless
<1>7. ModelsKept' /\ HalfKept'
    BY <1>1, <1>3 DEF Inv, ModelsKept, HalfKept
<1> QED
    BY <1>4, <1>5, <1>6, <1>7 DEF Inv

LEMMA NextInv ==
    ASSUME OnlySums, Inv, [Next]_vars
    PROVE  Inv'
BY AssertUnitsStep, VisitStep, TakeBoundStep, RootDoneStep, CreateTaskStep, SplitNodeStep, LeftDoneStep,
   RightDoneStep, NoVariableStep, StutterInv DEF Next

-----------------------------------------------------------------------------
(* The tasks belong to nodes that are not touched any more.                *)
TasksKept ==
    /\ DOMAIN tasks \subseteq DOMAIN nodes
    /\ \A n \in DOMAIN tasks :
          tasks[n] = ToTask(problem, nodes[n]) /\ ~ Refuted(problem, nodes[n]) /\ ~ nodes[n].conflict
    /\ \A n \in heap : n \notin DOMAIN tasks /\ ~ nodes[n].conflict
    /\ pc \in {"init", "propagating"} => at \notin heap /\ at \notin DOMAIN tasks
    /\ pc = "splitting" => task.node \in DOMAIN tasks /\ task.clauses = tasks[task.node].clauses
    /\ halves # Null => halves.from \in DOMAIN tasks
    /\ \A n \in DOMAIN nodes \ {0} : parent[n] \in DOMAIN tasks

(* Only the node in propagation changes.                                   *)
LEMMA NodeStepTasks ==
    ASSUME Inv, TasksKept, pc \in {"init", "propagating"}, pc' = "propagating", NEW k, nodes' = [nodes EXCEPT ![at] = k],
           UNCHANGED <<problem, tasks, heap, at, halves, parent>>
    PROVE  TasksKept'
<1>1. at \notin DOMAIN tasks /\ at \notin heap
    BY DEF TasksKept
<1>2. DOMAIN nodes' = DOMAIN nodes /\ \A n \in DOMAIN nodes : n # at => nodes'[n] = nodes[n]
    OBVIOUS
<1>3. heap \subseteq DOMAIN nodes
    BY DEF Inv, Typed
<1>4. \A n \in DOMAIN tasks \cup heap : nodes'[n] = nodes[n]
    BY <1>1, <1>2, <1>3 DEF TasksKept
<1> QED
    BY <1>1, <1>2, <1>4 DEF TasksKept

LEMMA OtherStepTasks ==
    ASSUME TasksKept, pc = "propagating", pc' = pc,
           UNCHANGED <<problem, tasks, heap, at, halves, parent, nodes>>
    PROVE  TasksKept'
BY DEF TasksKept

LEMMA RunStepTasks ==
    ASSUME OnlySums, Inv, TasksKept, AssertUnits \/ Visit \/ TakeBound \/ TimeUp
    PROVE  TasksKept'
<1>1. CASE AssertUnits
    <2>1. pc = "init" /\ at = 0
        BY <1>1 DEF AssertUnits, Inv, Childless
    <2>2. PICK s : nodes' = [nodes EXCEPT ![0] = s.n] /\ StartAt(0, s, DefSeq)
        BY <1>1 DEF AssertUnits
    <2>3. at' = at /\ pc' = "propagating"
        BY <2>1, <2>2 DEF StartAt
    <2>4. UNCHANGED <<problem, tasks, heap, halves, parent>>
        BY <1>1 DEF AssertUnits
    <2> QED
        BY <2>1, <2>2, <2>3, <2>4, NodeStepTasks
<1>2. CASE Visit
    <2>1. PICK s : nodes' = [nodes EXCEPT ![at] = s.n]
        BY <1>2 DEF Visit
    <2>2. pc = "propagating" /\ pc' = pc /\ UNCHANGED <<problem, tasks, heap, at, halves, parent>>
        BY <1>2 DEF Visit, Propagating
    <2> QED
        BY <2>1, <2>2, NodeStepTasks
<1>3. CASE TakeBound \/ TimeUp
    <2>1. pc = "propagating" /\ pc' = pc /\ UNCHANGED <<problem, tasks, heap, at, halves, parent, nodes>>
        BY <1>3 DEF TakeBound, TimeUp, Propagating, treeVars
    <2> QED
        BY <2>1, OtherStepTasks
<1> QED
    BY <1>1, <1>2, <1>3

(* The heap gets the node in propagation unless it is in conflict.         *)
LEMMA SettleTasks ==
    ASSUME TasksKept, pc = "propagating", Settle
    PROVE  \A n \in heap' : n \in heap \cup {at} /\ n \notin DOMAIN tasks /\ ~ nodes[n].conflict
BY DEF Settle, TasksKept

LEMMA DoneTasks ==
    ASSUME Inv, TasksKept, RootDone \/ RightDone \/ NoVariable
    PROVE  TasksKept'
<1>1. CASE RootDone \/ RightDone
    <2>1. /\ pc = "propagating" /\ pc' \in {"refuted", "creating"} /\ Settle
          /\ UNCHANGED <<problem, tasks, nodes, parent, at>> /\ (halves' = halves \/ halves' = Null)
        BY <1>1 DEF RootDone, RightDone, Propagated
    <2>2. \A n \in heap' : n \notin DOMAIN tasks /\ ~ nodes[n].conflict
        BY <2>1, SettleTasks
    <2> QED
        BY <2>1, <2>2 DEF TasksKept
<1>2. CASE NoVariable
    <2>1. pc' = "creating" /\ UNCHANGED <<problem, tasks, nodes, parent, at, heap, halves>>
        BY <1>2 DEF NoVariable, treeVars, propVars
    <2> QED
        BY <2>1 DEF TasksKept
<1> QED
    BY <1>1, <1>2

LEMMA CreateTaskTasks ==
    ASSUME Inv, TasksKept, CreateTask
    PROVE  TasksKept'
<1>1. PICK n \in heap :
          /\ heap' = heap \ {n}
          /\ IF Refuted(problem, nodes[n])
             THEN UNCHANGED <<task, tasks, pc>>
             ELSE /\ tasks' = With(tasks, n, ToTask(problem, nodes[n]))
                  /\ task' = [node |-> n, clauses |-> tasks'[n].clauses, bounds |-> tasks'[n].bounds]
                  /\ pc' = "splitting"
    BY DEF CreateTask
<1>2. pc = "creating" /\ UNCHANGED <<problem, nodes, parent, halves, at>>
    BY DEF CreateTask, propVars
<1>3. n \in DOMAIN nodes /\ n \notin DOMAIN tasks /\ ~ nodes[n].conflict
    BY DEF Inv, Typed, TasksKept
<1>4. CASE Refuted(problem, nodes[n])
    BY <1>1, <1>2, <1>4 DEF TasksKept
<1>5. CASE ~ Refuted(problem, nodes[n])
    <2>1. tasks' = With(tasks, n, ToTask(problem, nodes[n])) /\ pc' = "splitting"
          /\ task'.node = n /\ task'.clauses = tasks'[n].clauses
        BY <1>1, <1>5
    <2>2. DOMAIN tasks' = DOMAIN tasks \cup {n} /\ tasks'[n] = ToTask(problem, nodes[n])
          /\ \A k \in DOMAIN tasks : tasks'[k] = tasks[k]
        BY <1>3, <2>1 DEF With
    <2>3. \A k \in heap' : k \notin DOMAIN tasks' /\ ~ nodes[k].conflict
        BY <1>1, <2>2 DEF TasksKept
    <2>4. \A k \in DOMAIN tasks' : tasks'[k] = ToTask(problem, nodes[k]) /\ ~ Refuted(problem, nodes[k]) /\ ~ nodes[k].conflict
        BY <1>3, <1>5, <2>2 DEF TasksKept
    <2>5. DOMAIN tasks' \subseteq DOMAIN nodes /\ (halves # Null => halves.from \in DOMAIN tasks')
          /\ \A k \in DOMAIN nodes \ {0} : parent[k] \in DOMAIN tasks'
        BY <1>3, <2>2 DEF TasksKept
    <2> QED
        BY <1>2, <2>1, <2>2, <2>3, <2>4, <2>5 DEF TasksKept
<1> QED
    BY <1>4, <1>5

(* A half is made.                                                         *)
LEMMA HalfTasks ==
    ASSUME TasksKept, NEW c, c \notin DOMAIN nodes, NEW k, nodes' = With(nodes, c, k), at' = c, pc' = "propagating",
           UNCHANGED <<problem, tasks>>, \A n \in heap' : n \in DOMAIN nodes /\ n \notin DOMAIN tasks /\ ~ nodes[n].conflict,
           halves'.from \in DOMAIN tasks, parent'[c] \in DOMAIN tasks, \A n \in DOMAIN nodes : parent'[n] = parent[n]
    PROVE  TasksKept'
<1>1. DOMAIN nodes' = DOMAIN nodes \cup {c} /\ \A n \in DOMAIN nodes : nodes'[n] = nodes[n]
    BY DEF With
<1>2. DOMAIN tasks \subseteq DOMAIN nodes
    BY DEF TasksKept
<1>3. at' \notin heap' /\ at' \notin DOMAIN tasks
    BY <1>2
<1>4. \A n \in DOMAIN tasks :
          tasks[n] = ToTask(problem, nodes'[n]) /\ ~ Refuted(problem, nodes'[n]) /\ ~ nodes'[n].conflict
    BY <1>1, <1>2 DEF TasksKept
<1>5. \A n \in heap' : n \notin DOMAIN tasks /\ ~ nodes'[n].conflict
    BY <1>1
<1>6. \A n \in DOMAIN nodes' \ {0} : parent'[n] \in DOMAIN tasks
    BY <1>1 DEF TasksKept
<1> QED
    BY <1>1, <1>2, <1>3, <1>4, <1>5, <1>6 DEF TasksKept

LEMMA LeftDoneTasks ==
    ASSUME OnlySums, Inv, TasksKept, LeftDone
    PROVE  TasksKept'
<1>1. /\ halves # Null /\ Settle /\ BeginHalf(halves.from, halves.node, halves.lit) /\ pc = "propagating" /\ at < halves.node
      /\ UNCHANGED <<problem, parent, tasks, halves>>
    BY DEF LeftDone, Propagated
<1> DEFINE c == halves.node
<1>2. /\ c \in Nat /\ halves.from \in DOMAIN nodes /\ at \in {c - 1, c} /\ Size = at + 1 /\ parent[c] = halves.from
      /\ IsAtom(problem, halves.lit) /\ halves.lit.kind = "ineq"
    BY <1>1 DEF Inv, HalvesTyped
<1>3. DOMAIN nodes = 0 .. Size - 1 /\ at \in DOMAIN nodes
    BY Ranges
<1>4. c \notin DOMAIN nodes
    BY <1>1, <1>2, <1>3
<1>5. PICK k : nodes' = With(nodes, c, k) /\ at' = c /\ pc' = "propagating"
    BY <1>1, <1>2, BeginHalfGood
<1>6. \A n \in heap' : n \in DOMAIN nodes /\ n \notin DOMAIN tasks /\ ~ nodes[n].conflict
    BY <1>1, <1>3, SettleTasks DEF Inv, Typed
<1>7. halves'.from \in DOMAIN tasks /\ parent'[c] \in DOMAIN tasks
    BY <1>1, <1>2 DEF TasksKept
<1> HIDE DEF c
<1> QED
    BY <1>1, <1>4, <1>5, <1>6, <1>7, HalfTasks

LEMMA SplitNodeTasks ==
    ASSUME OnlySums, Inv, TasksKept, SplitNode
    PROVE  TasksKept'
<1> SUFFICES ASSUME NEW c, c = Size, NEW n, n = task.node PROVE TasksKept'
    OBVIOUS
<1>1. PICK x \in Eligible(nodes[n]) : \E a \in Cuts(nodes[n], x) :
          /\ halves' = [node |-> c + 1, from |-> n, lit |-> OtherHalf(a)]
          /\ parent' = With(With(parent, c, n), c + 1, n)
          /\ BeginHalf(n, c, a)
    BY DEF SplitNode, Size
<1>2. PICK a \in Cuts(nodes[n], x) :
          /\ halves' = [node |-> c + 1, from |-> n, lit |-> OtherHalf(a)]
          /\ parent' = With(With(parent, c, n), c + 1, n)
          /\ BeginHalf(n, c, a)
    BY <1>1
<1>3. pc = "splitting" /\ UNCHANGED <<problem, heap, tasks>>
    BY DEF SplitNode
<1>4. n \in DOMAIN nodes /\ nodes[n] \in Nodes(problem) /\ (\A b \in Lits(task) : IsAtom(problem, b)) /\ IsProblem(problem) /\ halves = Null
    BY <1>3, ProblemFacts DEF Inv, Typed, TasksTyped, HalvesTyped
<1>5. IsAtom(problem, a) /\ a.kind = "ineq"
    BY <1>4, CutType
<1>6. PICK k : nodes' = With(nodes, c, k) /\ at' = c /\ pc' = "propagating"
    BY <1>2, <1>4, <1>5, BeginHalfGood
<1>7. c \in Nat \ {0} /\ DOMAIN nodes = 0 .. c - 1
    BY Ranges
<1>8. c \notin DOMAIN nodes /\ c + 1 \notin DOMAIN nodes /\ c # c + 1
    BY <1>7
<1>9. parent'[c] = n /\ \A j \in DOMAIN nodes : parent'[j] = parent[j]
    <2>1. DOMAIN parent = DOMAIN nodes
        BY <1>4, <1>7, Ranges DEF Inv, Typed
    <2> QED
        BY <1>2, <1>8, <2>1 DEF With
<1>10. n \in DOMAIN tasks /\ halves'.from = n
    BY <1>2, <1>3 DEF TasksKept
<1>11. \A j \in heap' : j \in DOMAIN nodes /\ j \notin DOMAIN tasks /\ ~ nodes[j].conflict
    BY <1>3 DEF TasksKept, Inv, Typed
<1> QED
    BY <1>3, <1>6, <1>8, <1>9, <1>10, <1>11, HalfTasks

LEMMA InitTasks ==
    ASSUME Init
    PROVE  TasksKept
<1>1. /\ nodes = [n \in {0} |-> EmptyNode(problem)] /\ heap = {} /\ pc = "init" /\ at = 0 /\ halves = Null /\ tasks = <<>>
    BY DEF Init
<1>2. DOMAIN tasks = {}
    BY <1>1
<1> QED
    BY <1>1, <1>2 DEF TasksKept

LEMMA NextTasks ==
    ASSUME OnlySums, Inv, TasksKept, [Next]_vars
    PROVE  TasksKept'
<1>1. CASE UNCHANGED vars
    BY <1>1 DEF vars, treeVars, propVars, TasksKept
<1>2. CASE Next
    BY <1>2, RunStepTasks, DoneTasks, CreateTaskTasks, LeftDoneTasks, SplitNodeTasks DEF Next
<1> QED
    BY <1>1, <1>2

-----------------------------------------------------------------------------
(* Every task has the models of its node, and no model of the problem is   *)
(* lost.                                                                   *)
LEMMA TasksKeep ==
    ASSUME OnlySums, Inv, TasksKept
    PROVE  TaskKeepsModels
<1> SUFFICES ASSUME NEW n \in DOMAIN tasks, NEW m \in problem.models,
                    InBox(problem, m, nodes[n]), \A a \in ToSet(nodes[n].up) : Holds(m, a)
             PROVE  InTask(m, tasks[n])
    BY DEF TaskKeepsModels
<1>1. nodes[n] \in Nodes(problem) /\ tasks[n] = ToTask(problem, nodes[n])
    BY DEF Inv, Typed, TasksKept
<1>2. IsProblem(problem) /\ IsModel(problem, m)
    BY ProblemFacts DEF Inv, Typed
<1> QED
    BY <1>1, <1>2, TaskSound

(* A node has at most one child while one of its halves is being made.     *)
LEMMA NoneLost ==
    ASSUME OnlySums, Inv, TasksKept
    PROVE  NoModelLost
<1> SUFFICES ASSUME NEW m \in problem.models
             PROVE  \E n \in DOMAIN nodes :
                        /\ Leaf(n) /\ nstate[n] # "unsat" /\ ~ nodes[n].conflict /\ InBox(problem, m, nodes[n])
                        /\ n \in DOMAIN tasks => InTask(m, tasks[n])
    BY DEF NoModelLost
<1>1. PICK n \in DOMAIN nodes : (Kids(n) = {} \/ HalfMade(n)) /\ nstate[n] # "unsat" /\ Kept(problem, nodes[n], m)
    BY DEF Inv, ModelsKept
<1>2. Leaf(n)
    <2>1. CASE Kids(n) = {}
        <3>1. Cardinality(Kids(n)) = 0
            BY <2>1, FS_EmptySet
        <3> QED
            BY <3>1 DEF Leaf, Kids
    <2>2. CASE HalfMade(n)
        <3> DEFINE c == halves.node
        <3>1. halves # Null /\ halves.from = n /\ at < c
            BY <2>2 DEF HalfMade
        <3>2. c \in Nat /\ at \in {c - 1, c} /\ Size = at + 1 /\ Kids(n) \subseteq {c - 1, c}
            BY <3>1 DEF Inv, HalvesTyped
        <3>3. DOMAIN nodes = 0 .. Size - 1
            BY Ranges
        <3> HIDE DEF c
        <3>4. c \notin DOMAIN nodes
            BY <3>1, <3>2, <3>3
        <3>5. Kids(n) = {} \/ Kids(n) = {c - 1}
            BY <3>2, <3>4 DEF Kids
        <3>6. Cardinality({}) = 0 /\ Cardinality({c - 1}) = 1
            BY FS_EmptySet, FS_Singleton
        <3> QED
            BY <3>5, <3>6 DEF Leaf, Kids
    <2> QED
        BY <1>1, <2>1, <2>2
<1>3. n \in DOMAIN tasks => InTask(m, tasks[n])
    BY <1>1, TasksKeep DEF TaskKeepsModels, Kept
<1> QED
    BY <1>1, <1>2, <1>3 DEF Kept

(* Every model of the problem is in a leaf that is not refuted and, if the *)
(* leaf is out as a task, in the task (create_new_task, split_node).       *)
THEOREM NoModelLostHolds ==
    ASSUME OnlySums
    PROVE  Spec => []NoModelLost
<1>1. Init => Inv /\ TasksKept
    BY InitInv, InitTasks
<1>2. Inv /\ TasksKept /\ [Next]_vars => Inv' /\ TasksKept'
    BY NextInv, NextTasks
<1>3. Inv /\ TasksKept => NoModelLost
    BY NoneLost
<1> QED
    BY <1>1, <1>2, <1>3, PTL DEF Spec

(* A task has every model of its node (convert_node_to_task).              *)
THEOREM TaskKeepsModelsHolds ==
    ASSUME OnlySums
    PROVE  Spec => []TaskKeepsModels
<1>1. Init => Inv /\ TasksKept
    BY InitInv, InitTasks
<1>2. Inv /\ TasksKept /\ [Next]_vars => Inv' /\ TasksKept'
    BY NextInv, NextTasks
<1>3. Inv /\ TasksKept => TaskKeepsModels
    BY TasksKeep
<1> QED
    BY <1>1, <1>2, <1>3, PTL DEF Spec

-----------------------------------------------------------------------------
(* What is exact while no bound is relaxed.  A node reads a point that has *)
(* the bounds of its plain variables and the atoms of the defined ones:    *)
(* the point is in its box.  A half is stricter than its parent.           *)
Reads(k) ==
    \A m \in problem.points :
        (~ k.conflict /\ Boxed(k, m, Plain(problem)) /\ Claimed(k, m)) => Boxed(k, m, problem.vars)
Stricter(n, k) ==
    \E x \in Plain(problem) \ problem.bool, l \in BOOLEAN : ~ AtLeast(Own(n, x, l), Own(k, x, l), l)
UnitsTrue(k) == \A a \in ToSet(problem.units) : Value(problem, k, a) = "true"
AllDone(k) == \A i \in DOMAIN problem.clauses : ClauseDone(k, problem.clauses[i])

(* The run of a propagation: the clauses still to be visited for the bound *)
(* it has taken, and its surroundings.                                     *)
InRun(n) == pc \in {"init", "propagating"} /\ n = at
Open == {c.id : c \in {d \in ToSet(todo) : ~ d.def}}
Here == [models |-> {}, points |-> problem.points, from |-> nodes[at], clock |-> clock, relaxed |-> relaxed,
         full |-> TRUE, strict |-> at \notin cut, open |-> Open, since |-> since]
Running == pc \in {"init", "propagating"} => Good(Current, Here)

Stamped ==
    /\ visited \in [Constraints -> 0 .. clock] /\ since \in Nat /\ cut \subseteq DOMAIN nodes
    /\ pc = "init" => todo = <<>>
    /\ \A n \in DOMAIN nodes : Consistent(nodes[n]) /\ \A x \in problem.vars : Latest(nodes[n], x, clock)
NodeExact(n) ==
    /\ Reads(nodes[n])
    /\ n # 0 => Narrowed(nodes[parent[n]], nodes[n]) /\ Stricter(nodes[parent[n]], nodes[n])
    /\ pc # "init" /\ ~ nodes[n].conflict => UnitsTrue(nodes[n])
    /\ ~ InRun(n) /\ n \notin cut /\ ~ nodes[n].conflict => AllDone(nodes[n])
AllExact == relaxed \/ \A n \in DOMAIN nodes : NodeExact(n)
Undecided ==
    halves # Null /\ at < halves.node =>
        IneqValue(nodes[halves.from], halves.lit) = "undef" /\ halves.lit.x \in Plain(problem) \ problem.bool
ExactInv == Running /\ Stamped /\ AllExact /\ Undecided

-----------------------------------------------------------------------------
(* None of this depends on anything but the problem, which never changes.  *)
LEMMA SameNodes ==
    ASSUME problem' = problem
    PROVE  /\ Constraints' = Constraints
           /\ \A s : IsState(s)' <=> IsState(s)
           /\ \A n, k : Narrowed(n, k)' <=> Narrowed(n, k)
           /\ \A n : Consistent(n)' <=> Consistent(n)
           /\ \A n, m, V : Boxed(n, m, V)' <=> Boxed(n, m, V)
           /\ \A n, m : Claimed(n, m)' <=> Claimed(n, m)
           /\ \A n, c : ClauseDone(n, c)' <=> ClauseDone(n, c)
<1>1. Constraints' = Constraints
    BY DEF Constraints
<1>2. \A s : IsState(s)' <=> IsState(s)
    BY DEF IsState
<1>3. \A n, k : Narrowed(n, k)' <=> Narrowed(n, k)
    BY DEF Narrowed
<1>4. \A n : Consistent(n)' <=> Consistent(n)
    BY DEF Consistent
<1>5. \A n, m, V : Boxed(n, m, V)' <=> Boxed(n, m, V)
    BY DEF Boxed
<1>6. \A n, m : Claimed(n, m)' <=> Claimed(n, m)
    BY DEF Claimed
<1>7. \A n, c : ClauseDone(n, c)' <=> ClauseDone(n, c)
    BY DEF ClauseDone
<1> QED
    BY <1>1, <1>2, <1>3, <1>4, <1>5, <1>6, <1>7

LEMMA SameProblem ==
    ASSUME problem' = problem
    PROVE  /\ \A s, e : Good(s, e)' <=> Good(s, e)
           /\ \A k : Reads(k)' <=> Reads(k)
           /\ \A n, k : Stricter(n, k)' <=> Stricter(n, k)
           /\ \A k : UnitsTrue(k)' <=> UnitsTrue(k)
           /\ \A k : AllDone(k)' <=> AllDone(k)
<1>1. \A s, e : Back(s, e)' <=> Back(s, e)
    BY SameNodes DEF Back
<1>2. \A s : Timed(s)' <=> Timed(s)
    BY SameNodes DEF Timed
<1>3. \A s, i : Queued(s, i)' <=> Queued(s, i)
    BY DEF Queued
<1>4. \A s, e : Tracked(s, e)' <=> Tracked(s, e)
    BY <1>3, SameNodes DEF Tracked
<1>5. \A s, e : Exact(s, e)' <=> Exact(s, e)
    BY <1>1, <1>4, SameNodes DEF Exact
<1>6. \A s, e : Full(s, e)' <=> Full(s, e)
    BY <1>2, <1>5, SameNodes DEF Full
<1>7. \A s, e : Good(s, e)' <=> Good(s, e)
    BY <1>6, SameNodes DEF Good
<1>8. \A k : Reads(k)' <=> Reads(k)
    BY SameNodes DEF Reads
<1>9. \A n, k : Stricter(n, k)' <=> Stricter(n, k)
    BY DEF Stricter
<1>10. \A k : UnitsTrue(k)' <=> UnitsTrue(k)
    BY DEF UnitsTrue
<1>11. \A k : AllDone(k)' <=> AllDone(k)
    BY SameNodes DEF AllDone
<1> QED
    BY <1>7, <1>8, <1>9, <1>10, <1>11

-----------------------------------------------------------------------------
(* The surroundings of the next step.                                      *)
LEMMA NextGood ==
    ASSUME NEW s, NEW e, Good(s, e), e.full, NEW f,
           f.models = {}, f.points = e.points, f.from = s.n, f.clock = s.t, f.relaxed = s.r, f.full = TRUE,
           f.strict => e.strict,
           \A i \in DOMAIN problem.clauses : i \in e.open /\ s.v[Cl(i)] <= e.since => i \in f.open /\ s.v[Cl(i)] <= f.since
    PROVE  Good(s, f)
<1>1. IsState(s) /\ Full(s, e)
    BY DEF Good
<1>2. s.n \in Nodes(problem) /\ s.t \in Nat
    BY <1>1 DEF IsState
<1>3. Narrowed(s.n, s.n)
    BY <1>2, NarrowedSame
<1>4. Back(s, e) => Back(s, f)
    BY DEF Back
<1>5. Tracked(s, e) => Tracked(s, f)
    BY DEF Tracked
<1>6. Exact(s, e) => Exact(s, f)
    BY <1>3, <1>4, <1>5 DEF Exact
<1>7. Full(s, f)
    BY <1>1, <1>2, <1>6 DEF Full
<1> QED
    BY <1>1, <1>7 DEF Good

LEMMA StricterStays ==
    ASSUME IsProblem(problem), NEW n \in Nodes(problem), NEW k \in Nodes(problem), NEW o \in Nodes(problem), Stricter(n, k), Narrowed(k, o)
    PROVE  Stricter(n, o)
<1>1. PICK x \in Plain(problem) \ problem.bool, l \in BOOLEAN : ~ AtLeast(Own(n, x, l), Own(k, x, l), l)
    BY DEF Stricter
<1>2. x \in problem.vars
    BY DEF Plain
<1>3. AtLeast(Own(o, x, l), Own(k, x, l), l)
    BY <1>2 DEF Narrowed
<1> DEFINE b == Own(n, x, l)
           c == Own(o, x, l)
           d == Own(k, x, l)
<1>4. (b = Null \/ IsBound(b)) /\ (c = Null \/ IsBound(c)) /\ (d = Null \/ IsBound(d))
    BY <1>2, OwnIs
<1> HIDE DEF b, c, d
<1>5. AtLeast(b, c, l) /\ AtLeast(c, d, l) => AtLeast(b, d, l)
    BY <1>4, AtLeastOrder
<1>6. ~ AtLeast(b, c, l)
    BY <1>1, <1>3, <1>5 DEF b, c, d
<1> QED
    BY <1>6 DEF Stricter, b, c

LEMMA UnitsStay ==
    ASSUME IsProblem(problem), NEW n \in Nodes(problem), NEW k \in Nodes(problem), Narrowed(n, k),
           Consistent(n), ~ n.conflict, Consistent(k), ~ k.conflict, UnitsTrue(n)
    PROVE  UnitsTrue(k)
<1> SUFFICES ASSUME NEW a \in ToSet(problem.units) PROVE Value(problem, k, a) = "true"
    BY DEF UnitsTrue
<1>1. IsAtom(problem, a)
    BY DEF IsProblem
<1>2. Value(problem, n, a) = "true"
    BY DEF UnitsTrue
<1>3. Value(problem, n, a) # "undef"
    BY <1>2
<1> QED
    BY <1>1, <1>2, <1>3, ValueStays

(* The clauses of a variable are among its constraints.                    *)
LEMMA WatchersHave ==
    ASSUME IsProblem(problem), NEW i \in DOMAIN problem.clauses, NEW a \in ToSet(problem.clauses[i])
    PROVE  Cl(i) \in ToSet(Watchers(a.x))
<1> DEFINE x == a.x
           byDef == {c \in Constraints : c.def /\ x \in ToSet(problem.defs[c.id].xs)}
           byClause == {c \in Constraints : ~ c.def /\ \E b \in ToSet(problem.clauses[c.id]) : b.x = x}
           byOwn == {c \in Constraints : c.id = x}
           t1 == Those(DefSeq, byDef)
           t2 == Those(ClauseSeq, byClause)
           t3 == Those(DefSeq, byOwn)
<1>1. Watchers(x) = t1 \o t2 \o t3
    BY DEF Watchers
<1>2. Cl(i) \in Constraints
    BY DEF Cl, Constraints
<1>3. Cl(i) \in byClause
    BY <1>2 DEF Cl
<1>4. Len(ClauseSeq) \in Nat /\ DOMAIN ClauseSeq = 1 .. Len(ClauseSeq) /\ ClauseSeq[i] = Cl(i) /\ i \in DOMAIN ClauseSeq
    <2>1. problem.clauses \in Seq(ToSet(problem.clauses))
        BY DEF IsProblem
    <2>2. Len(problem.clauses) \in Nat /\ DOMAIN problem.clauses = 1 .. Len(problem.clauses)
        BY <2>1
    <2>3. DOMAIN ClauseSeq = 1 .. Len(problem.clauses) /\ ClauseSeq[i] = Cl(i)
        BY <2>2 DEF ClauseSeq, Cl
    <2>4. Len(ClauseSeq) \in Nat /\ DOMAIN ClauseSeq = 1 .. Len(ClauseSeq)
        BY <2>2 DEF ClauseSeq
    <2> QED
        BY <2>2, <2>3, <2>4
<1>5. Cl(i) \in ToSet(ClauseSeq)
    BY <1>4 DEF ToSet
<1>6. DefSeq \in Seq(Constraints)
    BY WatchersType
<1>7. Len(DefSeq) \in Nat /\ DOMAIN DefSeq = 1 .. Len(DefSeq)
    BY <1>6
<1> HIDE DEF byDef, byClause, byOwn
<1>8. Cl(i) \in ToSet(t2)
    BY <1>3, <1>4, <1>5, ThoseAll
<1>9. t1 \in Seq(byDef \cap ToSet(DefSeq)) /\ t2 \in Seq(byClause \cap ToSet(ClauseSeq)) /\ t3 \in Seq(byOwn \cap ToSet(DefSeq))
    BY <1>4, <1>7, ThoseType
<1> DEFINE U == byDef \cup byClause \cup byOwn
<1>10. t1 \in Seq(U) /\ t2 \in Seq(U) /\ t3 \in Seq(U)
    <2> HIDE DEF t1, t2, t3
    <2>1. byDef \cap ToSet(DefSeq) \subseteq U /\ byClause \cap ToSet(ClauseSeq) \subseteq U /\ byOwn \cap ToSet(DefSeq) \subseteq U
        OBVIOUS
    <2> QED
        BY <1>9, <2>1
<1> HIDE DEF t1, t2, t3, U
<1>11. t1 \o t2 \in Seq(U) /\ ToSet(t1 \o t2) = ToSet(t1) \cup ToSet(t2)
    BY <1>10, ConcatSet
<1> DEFINE t4 == t1 \o t2
<1>12. t4 \in Seq(U) /\ ToSet(t4) = ToSet(t1) \cup ToSet(t2)
    BY <1>11
<1> HIDE DEF t4
<1>13. ToSet(t4 \o t3) = ToSet(t4) \cup ToSet(t3)
    BY <1>10, <1>12, ConcatSet
<1>14. Watchers(x) = t4 \o t3
    BY <1>1 DEF t4
<1> QED
    BY <1>8, <1>12, <1>13, <1>14

-----------------------------------------------------------------------------
(* At the root nothing is known at first.                                  *)
LEMMA EmptyIs ==
    ASSUME IsProblem(problem), NEW k, k = EmptyNode(problem)
    PROVE  /\ k \in Nodes(problem) /\ k.conflict = FALSE /\ Consistent(k)
           /\ \A x \in problem.vars, l \in BOOLEAN : Own(k, x, l) = Null
           /\ \A m : Boxed(k, m, problem.vars)
           /\ \A i \in DOMAIN problem.clauses : ClauseDone(k, problem.clauses[i])
<1>1. k.conflict = FALSE /\ k.low = [x \in problem.vars |-> Null] /\ k.upp = [x \in problem.vars |-> Null]
      /\ k.bval = [x \in problem.bool |-> "undef"]
    BY DEF EmptyNode
<1>2. k \in Nodes(problem)
    <2>1. <<>> \in Seq(UNION {ToSet(c) : c \in ToSet(problem.clauses)})
        OBVIOUS
    <2> QED
        BY <2>1 DEF EmptyNode, Nodes
<1>3. \A x \in problem.vars, l \in BOOLEAN : Own(k, x, l) = Null
    BY <1>1 DEF Own
<1>4. Consistent(k)
    BY <1>1 DEF Consistent, Apart
<1>5. \A m : Boxed(k, m, problem.vars)
    BY <1>1, <1>3 DEF Boxed
<1>6. ASSUME NEW a, IsAtom(problem, a) PROVE Value(problem, k, a) = "undef"
    <2>1. /\ a.kind \in {"bool", "eq", "ineq"} /\ a.lower \in BOOLEAN /\ a.x \in problem.vars
          /\ (a.x \in problem.bool <=> a.kind = "bool")
          /\ a.kind = "eq" => (a.x \in problem.int => IsWhole(a.val))
        BY <1>6, AtomParts
    <2>2. k.low[a.x] = Null /\ k.upp[a.x] = Null /\ \A l \in BOOLEAN : Own(k, a.x, l) = Null
        BY <1>1, <1>3, <2>1
    <2>3. CASE a.kind = "bool"
        BY <1>1, <2>1, <2>3 DEF Value, BoolValue
    <2>4. CASE a.kind = "eq"
        BY <2>1, <2>2, <2>4 DEF Value, EqValue, Fixed, Past
    <2>5. CASE a.kind = "ineq"
        BY <2>1, <2>2, <2>5 DEF Value, IneqValue, Past
    <2> QED
        BY <2>1, <2>3, <2>4, <2>5
<1>7. ASSUME NEW i \in DOMAIN problem.clauses PROVE ClauseDone(k, problem.clauses[i])
    <2> DEFINE c == problem.clauses[i]
               n == Len(c)
               U == {j \in DOMAIN c : Value(problem, k, c[j]) = "undef"}
    <2>1. n \in Nat /\ DOMAIN c = 1 .. n /\ n > 1 /\ \A j \in DOMAIN c : IsAtom(problem, c[j])
        BY ClauseParts
    <2>2. U = 1 .. n
        BY <1>6, <2>1
    <2>3. Cardinality(1 .. n) = n
        BY <2>1, FS_Interval
    <2> HIDE DEF n
    <2>4. Cardinality(U) > 1
        BY <2>1, <2>2, <2>3
    <2> QED
        BY <2>4 DEF ClauseDone
<1> QED
    BY <1>1, <1>2, <1>3, <1>4, <1>5, <1>7

LEMMA InitExact ==
    ASSUME OnlySums, Init
    PROVE  ExactInv
<1> DEFINE k == EmptyNode(problem)
           s == Current
           e == Here
<1>1. /\ problem \in Problems /\ nodes = [n \in {0} |-> k] /\ pc = "init" /\ at = 0 /\ halves = Null
      /\ queue = <<>> /\ todo = <<>> /\ since = 0 /\ clock = 0 /\ visited = [c \in Constraints |-> 0]
      /\ cut = {} /\ relaxed = FALSE
    BY DEF Init
<1>2. IsProblem(problem)
    BY <1>1, ProblemFacts
<1>3. nodes[at] = k /\ nodes[0] = k
    BY <1>1
<1>4. /\ k \in Nodes(problem) /\ k.conflict = FALSE /\ Consistent(k)
      /\ \A x \in problem.vars, l \in BOOLEAN : Own(k, x, l) = Null
      /\ \A m : Boxed(k, m, problem.vars)
      /\ \A i \in DOMAIN problem.clauses : ClauseDone(k, problem.clauses[i])
    BY <1>2, EmptyIs
<1> HIDE DEF k
<1>5. s = [n |-> s.n, q |-> s.q, t |-> s.t, v |-> s.v, r |-> s.r] /\ s.n = k /\ s.q = <<>> /\ s.t = 0
      /\ s.v = [c \in Constraints |-> 0] /\ s.r = FALSE
    BY <1>1, <1>3 DEF Current
<1>6. e.models = {} /\ e.points = problem.points /\ e.from = k /\ e.clock = 0 /\ e.relaxed = FALSE /\ e.full = TRUE
    BY <1>1, <1>3 DEF Here
<1> HIDE DEF s, e
<1>7. \A x \in problem.vars : Latest(k, x, 0)
    BY <1>4 DEF Latest
<1>8. Timed(s)
    <2>1. <<>> \in Seq([x : problem.vars, ts : Nat])
        OBVIOUS
    <2>2. 0 \in 0 .. 0
        OBVIOUS
    <2> QED
        BY <1>5, <1>7, <2>1, <2>2 DEF Timed
<1>9. Narrowed(k, k)
    BY <1>4, NarrowedSame
<1>10. Back(s, e) /\ Tracked(s, e)
    BY <1>4, <1>5 DEF Back, Tracked
<1>11. \A m \in problem.points : IsPoint(problem, m)
    BY <1>1, ProblemsSound
<1>12. Full(s, e)
    <2>1. e.clock <= s.t /\ e.clock \in Nat
        BY <1>5, <1>6
    <2>2. Exact(s, e)
        BY <1>5, <1>6, <1>9, <1>10 DEF Exact
    <2> QED
        BY <1>4, <1>5, <1>6, <1>8, <1>11, <2>1, <2>2 DEF Full
<1>13. Good(s, e)
    <2>1. IsState(s)
        BY <1>4, <1>5 DEF IsState
    <2> QED
        BY <1>6, <1>12, <2>1 DEF Good
<1>14. Running
    BY <1>13 DEF Running, s, e
<1>15. Stamped
    <2>1. 0 \in 0 .. 0
        OBVIOUS
    <2> QED
        BY <1>1, <1>4, <1>7, <2>1 DEF Stamped
<1>16. AllExact
    <2>1. NodeExact(0)
        <3>1. Reads(k)
            BY <1>4 DEF Reads
        <3> QED
            BY <1>1, <1>3, <3>1 DEF NodeExact, InRun
    <2> QED
        BY <1>1, <2>1 DEF AllExact
<1>17. Undecided
    BY <1>1 DEF Undecided
<1> QED
    BY <1>14, <1>15, <1>16, <1>17 DEF ExactInv

-----------------------------------------------------------------------------
(* A step of the propagation of a node.                                    *)
LEMMA CurrentIs ==
    /\ Current = [n |-> Current.n, q |-> Current.q, t |-> Current.t, v |-> Current.v, r |-> Current.r]
    /\ Current.n = nodes[at] /\ Current.q = queue /\ Current.t = clock /\ Current.v = visited /\ Current.r = relaxed
    /\ Here.models = {} /\ Here.points = problem.points /\ Here.from = nodes[at] /\ Here.clock = clock
    /\ Here.relaxed = relaxed /\ Here.full = TRUE /\ Here.strict = (at \notin cut) /\ Here.open = Open /\ Here.since = since
BY DEF Current, Here

(* The state a step leads to, and its surroundings then.                   *)
LEMMA Arrived ==
    ASSUME problem' = problem, NEW s, NEW e, Good(s, e), e.full, e.points = problem.points,
           nodes'[at'] = s.n, queue' = s.q, clock' = s.t, visited' = s.v, relaxed' = s.r,
           at' \notin cut' => e.strict,
           \A i \in DOMAIN problem.clauses : i \in e.open /\ s.v[Cl(i)] <= e.since => i \in Open' /\ s.v[Cl(i)] <= since'
    PROVE  Good(Current, Here)'
<1> DEFINE f == [models |-> {}, points |-> problem.points, from |-> s.n, clock |-> s.t, relaxed |-> s.r,
                 full |-> TRUE, strict |-> at' \notin cut', open |-> Open', since |-> since']
<1>1. /\ f.models = {} /\ f.points = problem.points /\ f.from = s.n /\ f.clock = s.t /\ f.relaxed = s.r
      /\ f.full = TRUE /\ f.strict = (at' \notin cut') /\ f.open = Open' /\ f.since = since'
    OBVIOUS
<1>2. Here' = f
    BY DEF Here
<1>3. Current' = s
    BY DEF Current, Good, IsState
<1> HIDE DEF f
<1>4. Good(s, f)
    BY <1>1, NextGood
<1> QED
    BY <1>2, <1>3, <1>4, SameProblem

(* Timestamps only grow.                                                   *)
LEMMA LaterLatest ==
    ASSUME NEW n \in Nodes(problem), NEW x \in problem.vars, NEW t \in Nat, NEW u \in Nat, t <= u, Latest(n, x, t)
    PROVE  Latest(n, x, u)
<1> SUFFICES ASSUME NEW l \in BOOLEAN, Own(n, x, l) # Null PROVE Own(n, x, l).ts <= u
    BY DEF Latest
<1>1. Own(n, x, l) \in Bounds
    BY OwnIs
<1>2. Own(n, x, l).ts \in Nat
    BY <1>1, BoundNotNull
<1>3. Own(n, x, l).ts <= t
    BY DEF Latest
<1> QED
    BY <1>2, <1>3

(* The other nodes, and the parents of all, are not touched.               *)
LEMMA Untouched ==
    ASSUME Inv, TasksKept, pc \in {"init", "propagating"}
    PROVE  /\ \A n \in DOMAIN nodes : nodes[n] \in Nodes(problem)
           /\ \A n \in DOMAIN nodes \ {0} : parent[n] \in DOMAIN nodes /\ parent[n] # at
           /\ halves # Null => halves.from \in DOMAIN nodes /\ halves.from # at
           /\ pc = "init" => \A n \in DOMAIN nodes : n = at
<1>1. \A n \in DOMAIN nodes : nodes[n] \in Nodes(problem)
    BY DEF Inv, Typed
<1>2. at \notin DOMAIN tasks /\ DOMAIN tasks \subseteq DOMAIN nodes
    BY DEF TasksKept
<1>3. \A n \in DOMAIN nodes \ {0} : parent[n] \in DOMAIN tasks
    BY DEF TasksKept
<1>4. halves # Null => halves.from \in DOMAIN tasks
    BY DEF TasksKept
<1>5. ASSUME pc = "init" PROVE \A n \in DOMAIN nodes : n = at
    <2>1. at = 0 /\ Size = 1 /\ DOMAIN nodes = 0 .. Size - 1
        BY <1>5 DEF Inv, Childless, Typed
    <2> QED
        BY <2>1
<1> QED
    BY <1>1, <1>2, <1>3, <1>4, <1>5

LEMMA RunExact ==
    ASSUME OnlySums, Inv, TasksKept, ExactInv, pc \in {"init", "propagating"},
           NEW s, NEW e, Good(s, e), e.full, e.points = problem.points, e.from = nodes[at], e.clock = clock, e.relaxed = relaxed,
           nodes' = [nodes EXCEPT ![at] = s.n], queue' = s.q, clock' = s.t, visited' = s.v, relaxed' = s.r, pc' = "propagating",
           UNCHANGED <<problem, parent, at, halves>>, cut \subseteq cut', cut' \subseteq cut \cup {at}, since' \in Nat,
           at' \notin cut' => e.strict,
           \A i \in DOMAIN problem.clauses : i \in e.open /\ s.v[Cl(i)] <= e.since => i \in Open' /\ s.v[Cl(i)] <= since',
           ~ s.r /\ ~ s.n.conflict => UnitsTrue(s.n)
    PROVE  ExactInv'
<1>1. at \in DOMAIN nodes /\ clock \in Nat
    BY DEF Inv, Typed
<1>2. DOMAIN nodes' = DOMAIN nodes /\ nodes'[at] = s.n /\ \A n \in DOMAIN nodes : n # at => nodes'[n] = nodes[n]
    BY <1>1
<1>3. IsState(s) /\ Consistent(s.n) /\ Timed(s) /\ clock <= s.t /\ (relaxed => s.r) /\ (~ s.r => Exact(s, e))
    BY DEF Good, Full
<1>4. s.n \in Nodes(problem) /\ s.t \in Nat
    BY <1>3 DEF IsState
<1>5. Running'
    <2>1. Good(Current, Here)'
        BY <1>2, Arrived
    <2> QED
        BY <2>1 DEF Running
<1>6. Stamped'
    <2>1. visited' \in [Constraints' -> 0 .. clock']
        BY <1>3, SameNodes DEF Timed
    <2>2. cut' \subseteq DOMAIN nodes'
        BY <1>1, <1>2 DEF ExactInv, Stamped
    <2>3. ASSUME NEW n \in DOMAIN nodes' PROVE Consistent(nodes'[n]) /\ \A x \in problem.vars : Latest(nodes'[n], x, s.t)
        <3>1. CASE n = at
            BY <1>2, <1>3, <3>1 DEF Timed
        <3>2. CASE n # at
            <4>1. nodes'[n] = nodes[n] /\ n \in DOMAIN nodes
                BY <1>2, <3>2
            <4>2. Consistent(nodes[n]) /\ \A x \in problem.vars : Latest(nodes[n], x, clock)
                BY <4>1 DEF ExactInv, Stamped
            <4>3. nodes[n] \in Nodes(problem)
                BY <4>1, Untouched
            <4> QED
                BY <1>1, <1>3, <1>4, <4>1, <4>2, <4>3, LaterLatest
        <3> QED
            BY <3>1, <3>2
    <2>4. \A n \in DOMAIN nodes' : Consistent(nodes[n])' /\ \A x \in problem.vars : Latest(nodes'[n], x, s.t)
        BY <2>3, SameNodes
    <2> QED
        BY <2>1, <2>2, <2>4 DEF Stamped
<1>7. AllExact'
    <2> SUFFICES ASSUME ~ s.r, NEW n \in DOMAIN nodes' PROVE NodeExact(n)'
        BY DEF AllExact
    <2>1. ~ relaxed /\ \A k \in DOMAIN nodes : NodeExact(k)
        BY <1>3 DEF ExactInv, AllExact
    <2>2. n \in DOMAIN nodes /\ NodeExact(n)
        BY <1>2, <2>1
    <2>3. n # 0 => parent'[n] = parent[n] /\ nodes'[parent[n]] = nodes[parent[n]] /\ nodes[parent[n]] \in Nodes(problem)
        BY <1>2, <2>2, Untouched
    <2>4. InRun(n)' <=> n = at
        BY DEF InRun
    <2>5. CASE n # at
        <3>1. nodes'[n] = nodes[n] /\ pc # "init" /\ ~ InRun(n)
            BY <1>2, <2>2, <2>5, Untouched DEF InRun
        <3>2. Reads(nodes[n])
            BY <2>2 DEF NodeExact
        <3>3. n # 0 => Narrowed(nodes[parent[n]], nodes[n]) /\ Stricter(nodes[parent[n]], nodes[n])
            BY <2>2 DEF NodeExact
        <3>4. ~ nodes[n].conflict => UnitsTrue(nodes[n])
            BY <2>2, <3>1 DEF NodeExact
        <3>5. n \notin cut /\ ~ nodes[n].conflict => AllDone(nodes[n])
            BY <2>2, <3>1 DEF NodeExact
        <3>6. Reads(nodes[n])' /\ (~ nodes'[n].conflict => UnitsTrue(nodes[n])')
            BY <3>1, <3>2, <3>4, SameProblem
        <3>7. n # 0 => Narrowed(nodes[parent[n]], nodes[n])' /\ Stricter(nodes[parent[n]], nodes[n])'
            BY <2>3, <3>1, <3>3, SameProblem, SameNodes
        <3>8. n \notin cut' /\ ~ nodes'[n].conflict => AllDone(nodes[n])'
            BY <3>1, <3>5, SameProblem
        <3> QED
            BY <3>6, <3>7, <3>8 DEF NodeExact
    <2>6. CASE n = at
        <3>1. nodes'[n] = s.n
            BY <1>2, <2>6
        <3>2. Narrowed(nodes[at], s.n) /\ Back(s, e)
            BY <1>3 DEF Exact
        <3>3. Reads(s.n)
            BY <3>2 DEF Back, Reads
        <3>4. n # 0 => Narrowed(nodes[parent[n]], s.n) /\ Stricter(nodes[parent[n]], s.n)
            <4>1. SUFFICES ASSUME n # 0 PROVE Narrowed(nodes[parent[n]], s.n) /\ Stricter(nodes[parent[n]], s.n)
                OBVIOUS
            <4> DEFINE u == nodes[parent[n]]
                       v == nodes[at]
            <4>2. u \in Nodes(problem) /\ v \in Nodes(problem)
                BY <1>1, <2>3, <4>1, Untouched
            <4>3. Narrowed(u, v) /\ Stricter(u, v)
                BY <2>2, <2>6, <4>1 DEF NodeExact
            <4>4. Narrowed(v, s.n)
                BY <3>2
            <4>5. IsProblem(problem)
                BY ProblemFacts DEF Inv, Typed
            <4> HIDE DEF u, v
            <4>6. Narrowed(u, s.n) /\ Stricter(u, s.n)
                BY <1>4, <4>2, <4>3, <4>4, <4>5, NarrowedTransitive, StricterStays
            <4> QED
                BY <4>6 DEF u
        <3>5. Reads(nodes[n])' /\ (~ nodes'[n].conflict => UnitsTrue(nodes[n])')
            BY <3>1, <3>3, SameProblem
        <3>6. n # 0 => Narrowed(nodes[parent[n]], nodes[n])' /\ Stricter(nodes[parent[n]], nodes[n])'
            BY <2>3, <3>1, <3>4, SameProblem, SameNodes
        <3> QED
            BY <2>4, <2>6, <3>5, <3>6 DEF NodeExact
    <2> QED
        BY <2>5, <2>6
<1>8. Undecided'
    <2>1. halves # Null => nodes'[halves.from] = nodes[halves.from]
        BY <1>2, Untouched
    <2> QED
        BY <2>1 DEF ExactInv, Undecided
<1> QED
    BY <1>5, <1>6, <1>7, <1>8 DEF ExactInv

(* What the node in propagation knows of the units, a step leaves.         *)
LEMMA UnitsKept ==
    ASSUME OnlySums, Inv, TasksKept, ExactInv, Propagating, NEW s, NEW e, Good(s, e), e.full, e.from = nodes[at], e.relaxed = relaxed
    PROVE  ~ s.r /\ ~ s.n.conflict => UnitsTrue(s.n)
<1> SUFFICES ASSUME ~ s.r, ~ s.n.conflict PROVE UnitsTrue(s.n)
    OBVIOUS
<1>1. IsState(s) /\ Consistent(s.n) /\ ~ relaxed /\ Narrowed(nodes[at], s.n)
    BY DEF Good, Full, Exact
<1>2. at \in DOMAIN nodes /\ nodes[at] \in Nodes(problem) /\ s.n \in Nodes(problem)
    BY <1>1 DEF Inv, Typed, IsState
<1>3. pc = "propagating" /\ ~ nodes[at].conflict
    BY DEF Propagating
<1>4. UnitsTrue(nodes[at])
    BY <1>1, <1>2, <1>3 DEF ExactInv, AllExact, NodeExact
<1>5. Consistent(nodes[at])
    BY <1>2 DEF ExactInv, Stamped
<1>6. IsProblem(problem)
    BY ProblemFacts DEF Inv, Typed
<1> DEFINE n == nodes[at]
           k == s.n
<1> HIDE DEF n, k
<1>7. UnitsTrue(k)
    <2>1. /\ n \in Nodes(problem) /\ k \in Nodes(problem) /\ Narrowed(n, k) /\ Consistent(n) /\ ~ n.conflict
          /\ Consistent(k) /\ ~ k.conflict /\ UnitsTrue(n)
        BY <1>1, <1>2, <1>3, <1>4, <1>5 DEF n, k
    <2> QED
        BY <1>6, <2>1, UnitsStay
<1> QED
    BY <1>7 DEF k

LEMMA HereGood ==
    ASSUME Inv, ExactInv, pc \in {"init", "propagating"}
    PROVE  Good(Current, Here)
BY DEF ExactInv, Running

LEMMA AssertUnitsExact ==
    ASSUME OnlySums, Inv, TasksKept, ExactInv, AssertUnits
    PROVE  ExactInv'
<1> DEFINE t == FoldLeft(LAMBDA w, a : AssertUnlessConflict(w, a), Current, problem.units)
           e == Here
           k == Current
<1>1. PICK s : s = t /\ nodes' = [nodes EXCEPT ![0] = s.n] /\ StartAt(0, s, DefSeq)
    BY DEF AssertUnits
<1>2. pc = "init" /\ at = 0
    BY DEF AssertUnits, Inv, Childless
<1>3. IsProblem(problem)
    BY ProblemFacts DEF Inv, Typed
<1>4. Good(k, e)
    BY <1>2, HereGood
<1>5. e.full /\ e.points = problem.points /\ e.from = nodes[at] /\ e.clock = clock /\ e.relaxed = relaxed
      /\ e.strict = (at \notin cut) /\ e.open = Open
    BY CurrentIs
<1>6. Good(s, e) /\ (~ s.r /\ ~ s.n.conflict => \A a \in ToSet(problem.units) : Value(problem, s.n, a) = "true")
    <2> HIDE DEF k, e
    <2>1. LET u == FoldLeft(LAMBDA w, a : AssertUnlessConflict(w, a), k, problem.units) IN
          /\ Good(u, e)
          /\ e.full /\ ~ u.r /\ ~ u.n.conflict => \A a \in ToSet(problem.units) : Value(problem, u.n, a) = "true"
        BY <1>3, <1>4, UnitsGood
    <2> QED
        BY <1>1, <1>5, <2>1 DEF k
<1>7. ~ s.r /\ ~ s.n.conflict => UnitsTrue(s.n)
    BY <1>6 DEF UnitsTrue
<1>8. /\ queue' = s.q /\ clock' = s.t /\ visited' = s.v /\ relaxed' = s.r /\ pc' = "propagating" /\ at' = at /\ since' = s.t
    BY <1>1, <1>2 DEF StartAt
<1>9. UNCHANGED <<problem, parent, halves, cut>>
    BY DEF AssertUnits
<1>10. since' \in Nat
    BY <1>6, <1>8 DEF Good, IsState
<1>11. \A i : i \notin e.open
    <2>1. todo = <<>>
        BY <1>2 DEF ExactInv, Stamped
    <2> QED
        BY <1>5, <2>1 DEF Open, ToSet
<1>12. nodes' = [nodes EXCEPT ![at] = s.n] /\ at' \notin cut' => e.strict
    BY <1>1, <1>2, <1>5, <1>8, <1>9
<1> HIDE DEF t, e, k
<1> QED
    BY <1>1, <1>2, <1>5, <1>6, <1>7, <1>8, <1>9, <1>10, <1>11, <1>12, RunExact

LEMMA VisitExact ==
    ASSUME OnlySums, Inv, TasksKept, ExactInv, Visit
    PROVE  ExactInv'
<1> DEFINE c == Head(todo)
           k == Current
           h == Here
           e == IF MayPropagate(c) /\ ~ c.def THEN Closed(h, c.id) ELSE h
<1>1. PICK s : /\ s = IF MayPropagate(c) THEN Propagate(k, c) ELSE k
               /\ nodes' = [nodes EXCEPT ![at] = s.n]
               /\ queue' = s.q /\ clock' = s.t /\ visited' = s.v /\ relaxed' = s.r
    BY DEF Visit
<1>2. Propagating /\ pc \in {"init", "propagating"} /\ pc' = "propagating" /\ todo # <<>> /\ todo' = Tail(todo)
      /\ UNCHANGED <<problem, parent, at, halves, since, cut>>
    BY DEF Visit, Propagating
<1>3. /\ c \in Constraints /\ ToSet(todo) = {c} \cup ToSet(Tail(todo))
    <2>1. todo \in Seq(Constraints)
        BY DEF Inv, Typed
    <2>2. c \in Constraints /\ Len(todo) \in Nat /\ Len(todo) > 0 /\ todo[1] = c
          /\ Len(Tail(todo)) = Len(todo) - 1 /\ \A i \in 1 .. Len(todo) - 1 : Tail(todo)[i] = todo[i + 1]
        BY <1>2, <2>1
    <2>3. DOMAIN todo = 1 .. Len(todo) /\ DOMAIN Tail(todo) = 1 .. Len(todo) - 1
        BY <1>2, <2>1, <2>2
    <2>4. ASSUME NEW d \in ToSet(todo) PROVE d = c \/ d \in ToSet(Tail(todo))
        <3>1. PICK i \in 1 .. Len(todo) : d = todo[i]
            BY <2>3 DEF ToSet
        <3>2. CASE i = 1
            BY <2>2, <3>1, <3>2
        <3>3. CASE i # 1
            <4>1. i - 1 \in 1 .. Len(todo) - 1 /\ (i - 1) + 1 = i
                BY <2>2, <3>3
            <4>2. Tail(todo)[i - 1] = d
                BY <2>2, <3>1, <4>1
            <4> QED
                BY <2>3, <4>1, <4>2 DEF ToSet
        <3> QED
            BY <3>2, <3>3
    <2>5. ASSUME NEW d \in ToSet(Tail(todo)) PROVE d \in ToSet(todo)
        <3>1. PICK i \in 1 .. Len(todo) - 1 : d = Tail(todo)[i]
            BY <2>3, <2>5 DEF ToSet
        <3>2. i + 1 \in DOMAIN todo /\ todo[i + 1] = d
            BY <2>2, <2>3, <3>1
        <3> QED
            BY <3>2 DEF ToSet
    <2>6. c \in ToSet(todo)
        <3>1. 1 \in DOMAIN todo
            BY <2>2, <2>3
        <3> QED
            BY <2>2, <3>1 DEF ToSet
    <2> QED
        BY <2>2, <2>4, <2>5, <2>6
<1>4. Good(k, h) /\ k.n = nodes[at] /\ ~ k.n.conflict /\ k.v = visited
    BY <1>2, HereGood, CurrentIs DEF Propagating
<1>5. h.full /\ h.points = problem.points /\ h.from = nodes[at] /\ h.clock = clock /\ h.relaxed = relaxed
      /\ h.strict = (at \notin cut) /\ h.open = Open /\ h.since = since
    BY CurrentIs
<1>6. SumProblem(problem)
    BY ProblemFacts DEF Inv, Typed
<1>7. visited \in [Constraints -> 0 .. clock] /\ clock \in Nat /\ since \in Nat
    BY DEF ExactInv, Stamped, Inv, Typed
<1>8. c.def \in BOOLEAN /\ (~ c.def => c = Cl(c.id))
    BY <1>3 DEF Constraints, Cl
<1>9. Open' \cup (IF c.def THEN {} ELSE {c.id}) = Open
    BY <1>2, <1>3 DEF Open
<1> HIDE DEF c, k, h
<1>10. Good(s, e)
    <2>1. CASE MayPropagate(c)
        <3>1. Good(Propagate(k, c), IF c.def THEN h ELSE Closed(h, c.id))
            BY <1>3, <1>4, <1>6, PropagateGood
        <3> QED
            BY <1>1, <1>8, <2>1, <3>1
    <2>2. CASE ~ MayPropagate(c)
        BY <1>1, <1>4, <2>2
    <2> QED
        BY <2>1, <2>2
<1>11. e.full /\ e.points = problem.points /\ e.from = nodes[at] /\ e.clock = clock /\ e.relaxed = relaxed
       /\ e.strict = (at \notin cut) /\ e.since = since
       /\ e.open = IF MayPropagate(c) /\ ~ c.def THEN Open \ {c.id} ELSE Open
    BY <1>5 DEF Closed
<1>12. ASSUME NEW i \in DOMAIN problem.clauses, i \in e.open, s.v[Cl(i)] <= e.since PROVE i \in Open' /\ s.v[Cl(i)] <= since'
    <2>1. s.v[Cl(i)] <= since'
        BY <1>2, <1>11, <1>12
    <2>2. i \in Open
        BY <1>11, <1>12
    <2>3. CASE i \in Open'
        BY <2>1, <2>3
    <2>4. CASE i \notin Open'
        <3>1. ~ c.def /\ i = c.id
            BY <1>9, <2>2, <2>4
        <3>2. ~ MayPropagate(c)
            BY <1>11, <1>12, <3>1
        <3>3. s = k /\ Cl(i) = c
            BY <1>1, <1>8, <3>1, <3>2
        <3>4. visited[c] <= since
            BY <1>4, <1>11, <1>12, <3>3
        <3>5. visited[c] \in Nat
            BY <1>3, <1>7
        <3> QED
            BY <1>7, <3>2, <3>4, <3>5 DEF MayPropagate
    <2> QED
        BY <2>3, <2>4
<1> HIDE DEF e
<1>13. ~ s.r /\ ~ s.n.conflict => UnitsTrue(s.n)
    BY <1>2, <1>10, <1>11, UnitsKept
<1> QED
    BY <1>1, <1>2, <1>7, <1>10, <1>11, <1>12, <1>13, RunExact

-----------------------------------------------------------------------------
(* A step that changes the queue only.                                     *)
LEMMA QueueGood ==
    ASSUME NEW s, NEW e, Good(s, e), e.full,
           NEW t, t = [n |-> t.n, q |-> t.q, t |-> t.t, v |-> t.v, r |-> t.r],
           t.n = s.n, t.t = s.t, t.v = s.v, t.r = s.r, t.q \in Seq([x : problem.vars, ts : Nat]),
           NEW f, f.models = {}, f.points = e.points, f.from = e.from, f.clock = e.clock, f.relaxed = e.relaxed, f.full = TRUE,
           f.strict => e.strict,
           \A i \in DOMAIN problem.clauses :
               f.strict /\ (Queued(s, i) \/ (i \in e.open /\ s.v[Cl(i)] <= e.since)) =>
                   Queued(t, i) \/ (i \in f.open /\ s.v[Cl(i)] <= f.since)
    PROVE  Good(t, f)
<1>1. t.n = s.n /\ t.t = s.t /\ t.v = s.v /\ t.r = s.r
    OBVIOUS
<1>2. IsState(s) /\ Full(s, e)
    BY DEF Good
<1>3. IsState(t)
    BY <1>2 DEF IsState
<1>4. Timed(t)
    BY <1>1, <1>2 DEF Full, Timed
<1>5. Back(s, e) => Back(t, f)
    BY <1>1 DEF Back
<1>6. f.strict /\ Tracked(s, e) => Tracked(t, f)
    BY <1>1 DEF Tracked
<1>7. Exact(s, e) => Exact(t, f)
    BY <1>1, <1>5, <1>6 DEF Exact
<1>8. Full(t, f)
    BY <1>1, <1>2, <1>4, <1>7 DEF Full
<1> QED
    BY <1>3, <1>8 DEF Good

LEMMA QueueExact ==
    ASSUME OnlySums, Inv, TasksKept, ExactInv, Propagating, queue' \in Seq([x : problem.vars, ts : Nat]),
           UNCHANGED <<problem, nodes, parent, pc, at, halves, clock, visited, relaxed>>,
           cut \subseteq cut', cut' \subseteq cut \cup {at}, since' \in Nat, todo = <<>>,
           at \notin cut' => \A i \in DOMAIN problem.clauses :
               Queued(Current, i) => \/ i \in Open' /\ visited[Cl(i)] <= since'
                                     \/ \A t : t.n = nodes[at] /\ t.q = queue' /\ t.v = visited => Queued(t, i)
    PROVE  ExactInv'
<1> DEFINE t == [n |-> nodes[at], q |-> queue', t |-> clock, v |-> visited, r |-> relaxed]
           f == [models |-> {}, points |-> problem.points, from |-> nodes[at], clock |-> clock, relaxed |-> relaxed,
                 full |-> TRUE, strict |-> at \notin cut', open |-> Open', since |-> since']
           k == Current
           h == Here
<1>1. pc = "propagating" /\ ~ nodes[at].conflict /\ pc \in {"init", "propagating"}
    BY DEF Propagating
<1>2. Good(k, h)
    BY <1>1, HereGood
<1>3. k.n = nodes[at] /\ k.t = clock /\ k.v = visited /\ k.r = relaxed /\ k.q = queue
    BY CurrentIs
<1>4. h.full /\ h.points = problem.points /\ h.from = nodes[at] /\ h.clock = clock /\ h.relaxed = relaxed
      /\ h.strict = (at \notin cut) /\ h.open = Open /\ h.since = since
    BY CurrentIs
<1>5. \A i : i \notin Open
    BY DEF Open, ToSet
<1>6. t.n = nodes[at] /\ t.q = queue' /\ t.t = clock /\ t.v = visited /\ t.r = relaxed
    OBVIOUS
<1>7. f.models = {} /\ f.points = problem.points /\ f.from = nodes[at] /\ f.clock = clock /\ f.relaxed = relaxed
      /\ f.full = TRUE /\ f.strict = (at \notin cut') /\ f.open = Open' /\ f.since = since'
    OBVIOUS
<1>8. t = [n |-> k.n, q |-> queue', t |-> k.t, v |-> k.v, r |-> k.r]
    BY <1>3
<1>9. \A i \in DOMAIN problem.clauses : at \notin cut' /\ Queued(k, i) =>
          Queued(t, i) \/ (i \in Open' /\ visited[Cl(i)] <= since')
    <2> SUFFICES ASSUME NEW i \in DOMAIN problem.clauses, at \notin cut', Queued(k, i), ~ (i \in Open' /\ visited[Cl(i)] <= since')
                 PROVE  Queued(t, i)
        OBVIOUS
    <2>1. \A u : u.n = nodes[at] /\ u.q = queue' /\ u.v = visited => Queued(u, i)
        OBVIOUS
    <2> HIDE DEF t
    <2> QED
        BY <1>6, <2>1
<1> HIDE DEF t, f, k, h
<1>10. Good(t, f)
    <2>1. \A i \in DOMAIN problem.clauses :
               f.strict /\ (Queued(k, i) \/ (i \in h.open /\ k.v[Cl(i)] <= h.since)) =>
                   Queued(t, i) \/ (i \in f.open /\ k.v[Cl(i)] <= f.since)
        BY <1>3, <1>4, <1>5, <1>7, <1>9
    <2>2. f.strict => h.strict
        BY <1>4, <1>7
    <2>3. /\ t = [n |-> t.n, q |-> t.q, t |-> t.t, v |-> t.v, r |-> t.r]
          /\ t.n = k.n /\ t.t = k.t /\ t.v = k.v /\ t.r = k.r /\ t.q \in Seq([x : problem.vars, ts : Nat])
        BY <1>3, <1>6, <1>8
    <2>4. f.models = {} /\ f.points = h.points /\ f.from = h.from /\ f.clock = h.clock /\ f.relaxed = h.relaxed /\ f.full = TRUE /\ h.full
        BY <1>4, <1>7
    <2> QED
        BY <1>2, <2>1, <2>2, <2>3, <2>4, QueueGood
<1>11. ~ t.r /\ ~ t.n.conflict => UnitsTrue(t.n)
    <2>1. f.full /\ f.from = nodes[at] /\ f.relaxed = relaxed
        BY <1>7
    <2> QED
        BY <1>10, <2>1, UnitsKept
<1>12. nodes' = [nodes EXCEPT ![at] = t.n]
    <2>1. at \in DOMAIN nodes /\ nodes = [n \in DOMAIN nodes |-> nodes[n]]
        BY DEF Inv, Typed
    <2> QED
        BY <1>6, <2>1
<1>13. pc' = "propagating" /\ queue' = t.q /\ clock' = t.t /\ visited' = t.v /\ relaxed' = t.r /\ at' = at
    BY <1>1, <1>6
<1>14. at' \notin cut' => f.strict
    BY <1>7, <1>13
<1>15. \A i \in DOMAIN problem.clauses : i \in f.open /\ t.v[Cl(i)] <= f.since => i \in Open' /\ t.v[Cl(i)] <= since'
    BY <1>7
<1> QED
    BY <1>1, <1>7, <1>10, <1>11, <1>12, <1>13, <1>14, <1>15, RunExact

LEMMA TimeUpExact ==
    ASSUME OnlySums, Inv, TasksKept, ExactInv, TimeUp
    PROVE  ExactInv'
<1>1. Propagating /\ todo = <<>> /\ queue' = <<>> /\ cut' = cut \cup {at}
      /\ UNCHANGED <<problem, nodes, parent, pc, at, halves, clock, visited, relaxed, since>>
    BY DEF TimeUp, treeVars
<1>2. <<>> \in Seq([x : problem.vars, ts : Nat])
    OBVIOUS
<1>3. since' \in Nat
    BY <1>1 DEF ExactInv, Stamped
<1> QED
    BY <1>1, <1>2, <1>3, QueueExact

LEMMA TakeBoundExact ==
    ASSUME OnlySums, Inv, TasksKept, ExactInv, TakeBound
    PROVE  ExactInv'
<1> DEFINE b == Head(queue)
           R == [x : problem.vars, ts : Nat]
<1>1. /\ Propagating /\ todo = <<>> /\ queue # <<>> /\ queue' = Tail(queue)
      /\ IF b.x \in problem.bool THEN todo' = Watchers(b.x) /\ since' = clock
         ELSE IF IsLatestBound(b) THEN todo' = Watchers(b.x) /\ since' = b.ts
         ELSE UNCHANGED <<todo, since>>
      /\ UNCHANGED <<problem, nodes, parent, pc, at, halves, clock, visited, relaxed, cut>>
    BY DEF TakeBound, treeVars
<1>2. pc \in {"init", "propagating"}
    BY <1>1 DEF Propagating
<1>3. queue \in Seq(R) /\ visited \in [Constraints -> 0 .. clock] /\ clock \in Nat /\ since \in Nat
    <2>1. Timed(Current) /\ Current.q = queue
        BY <1>2, HereGood, CurrentIs DEF Good, Full
    <2> QED
        BY <2>1 DEF Timed, ExactInv, Stamped, Inv, Typed
<1>4. /\ b \in R /\ Tail(queue) \in Seq(R)
      /\ \A d \in ToSet(queue) : d = b \/ d \in ToSet(Tail(queue))
    <2> HIDE DEF R
    <2>2. b \in R /\ Len(queue) \in Nat /\ Len(queue) > 0 /\ queue[1] = b /\ Tail(queue) \in Seq(R)
          /\ Len(Tail(queue)) = Len(queue) - 1 /\ \A i \in 1 .. Len(queue) - 1 : Tail(queue)[i] = queue[i + 1]
        BY <1>1, <1>3
    <2>3. DOMAIN queue = 1 .. Len(queue) /\ DOMAIN Tail(queue) = 1 .. Len(queue) - 1
        BY <1>1, <1>3, <2>2
    <2>4. ASSUME NEW d \in ToSet(queue) PROVE d = b \/ d \in ToSet(Tail(queue))
        <3>1. PICK i \in 1 .. Len(queue) : d = queue[i]
            BY <2>3 DEF ToSet
        <3>2. CASE i = 1
            BY <2>2, <3>1, <3>2
        <3>3. CASE i # 1
            <4>1. i - 1 \in 1 .. Len(queue) - 1 /\ (i - 1) + 1 = i
                BY <2>2, <3>3
            <4>2. Tail(queue)[i - 1] = d
                BY <2>2, <3>1, <4>1
            <4> QED
                BY <2>3, <4>1, <4>2 DEF ToSet
        <3> QED
            BY <3>2, <3>3
    <2> QED
        BY <2>2, <2>4
<1>5. b.x \in problem.vars /\ b.ts \in Nat
    BY <1>4
<1>6. IsProblem(problem)
    BY ProblemFacts DEF Inv, Typed
<1>7. since' \in Nat
    BY <1>1, <1>3, <1>5
<1> HIDE DEF b, R
<1>8. ASSUME NEW i \in DOMAIN problem.clauses, Queued(Current, i)
      PROVE  \/ i \in Open' /\ visited[Cl(i)] <= since'
             \/ \A t : t.n = nodes[at] /\ t.q = queue' /\ t.v = visited => Queued(t, i)
    <2>1. PICK d \in ToSet(queue) : /\ \E a \in ToSet(problem.clauses[i]) : a.x = d.x
                                    /\ visited[Cl(i)] <= d.ts
                                    /\ d.x \in problem.bool \/ Latest(nodes[at], d.x, d.ts)
        BY <1>8, CurrentIs DEF Queued
    <2>2. CASE d \in ToSet(Tail(queue))
        BY <1>1, <2>1, <2>2 DEF Queued
    <2>3. CASE d = b
        <3>1. PICK a \in ToSet(problem.clauses[i]) : a.x = b.x
            BY <2>1, <2>3
        <3>2. Cl(i) \in ToSet(Watchers(b.x))
            BY <1>6, <3>1, WatchersHave
        <3>3. todo' = Watchers(b.x) => i \in Open'
            BY <3>2 DEF Open, Cl
        <3>4. Cl(i) \in Constraints
            BY DEF Cl, Constraints
        <3>5. visited[Cl(i)] <= clock
            BY <1>3, <3>4
        <3>6. CASE b.x \in problem.bool
            BY <1>1, <3>3, <3>5, <3>6
        <3>7. CASE b.x \notin problem.bool
            <4>1. Latest(nodes[at], b.x, b.ts)
                BY <2>1, <2>3, <3>7
            <4>2. IsLatestBound(b)
                BY <4>1 DEF Latest, IsLatestBound
            <4> QED
                BY <1>1, <2>1, <2>3, <3>3, <3>7, <4>2
        <3> QED
            BY <3>6, <3>7
    <2> QED
        BY <1>4, <2>2, <2>3
<1>9. queue' \in Seq(R) /\ cut \subseteq cut' /\ cut' \subseteq cut \cup {at}
    BY <1>1, <1>4
<1> QED
    BY <1>1, <1>7, <1>8, <1>9, QueueExact DEF R

-----------------------------------------------------------------------------
(* A propagation that is at its end has missed no clause.                  *)
LEMMA AtDone ==
    ASSUME Inv, ExactInv, Propagated, ~ relaxed, at \notin cut, ~ nodes[at].conflict
    PROVE  AllDone(nodes[at])
<1>1. pc \in {"init", "propagating"} /\ todo = <<>> /\ queue = <<>>
    BY DEF Propagated
<1>2. Tracked(Current, Here)
    BY <1>1, HereGood, CurrentIs DEF Good, Full, Exact
<1>3. \A i : ~ Queued(Current, i) /\ i \notin Open
    BY <1>1, CurrentIs DEF Queued, Open, ToSet
<1> QED
    BY <1>2, <1>3, CurrentIs DEF Tracked, AllDone

(* A step between the propagations.                                        *)
LEMMA QuietExact ==
    ASSUME OnlySums, Inv, TasksKept, ExactInv,
           UNCHANGED <<problem, nodes, parent, at, since, clock, visited, cut, relaxed>>,
           halves' \in {halves, Null}, pc' \notin {"init", "propagating"},
           pc \in {"init", "propagating"} => Propagated
    PROVE  ExactInv'
<1>1. Running'
    BY DEF Running
<1>2. Stamped'
    <2>1. visited' \in [Constraints' -> 0 .. clock'] /\ since' \in Nat /\ cut' \subseteq DOMAIN nodes'
        BY SameNodes DEF ExactInv, Stamped
    <2>2. ASSUME NEW n \in DOMAIN nodes PROVE Consistent(nodes[n])' /\ \A x \in problem.vars : Latest(nodes[n], x, clock)'
        <3>1. Consistent(nodes[n]) /\ \A x \in problem.vars : Latest(nodes[n], x, clock)
            BY DEF ExactInv, Stamped
        <3>2. Consistent(nodes[n])'
            BY <3>1, SameNodes
        <3>3. \A x \in problem.vars : Latest(nodes[n], x, clock)'
            BY <3>1 DEF Latest
        <3> QED
            BY <3>2, <3>3
    <2> QED
        BY <2>1, <2>2 DEF Stamped
<1>3. AllExact'
    <2> SUFFICES ASSUME ~ relaxed, NEW n \in DOMAIN nodes PROVE NodeExact(n)'
        BY DEF AllExact
    <2>1. NodeExact(n)
        BY DEF ExactInv, AllExact
    <2>2. pc = "propagating" \/ (pc # "init" /\ ~ InRun(n))
        BY DEF Propagated, InRun
    <2>3. pc # "init"
        BY <2>2
    <2>4. n \notin cut /\ ~ nodes[n].conflict => AllDone(nodes[n])
        <3>1. CASE InRun(n)
            BY <2>2, <3>1, AtDone DEF InRun
        <3>2. CASE ~ InRun(n)
            BY <2>1, <3>2 DEF NodeExact
        <3> QED
            BY <3>1, <3>2
    <2>5. Reads(nodes[n]) /\ (~ nodes[n].conflict => UnitsTrue(nodes[n]))
          /\ (n # 0 => Narrowed(nodes[parent[n]], nodes[n]) /\ Stricter(nodes[parent[n]], nodes[n]))
        BY <2>1, <2>3 DEF NodeExact
    <2>6. Reads(nodes[n])' /\ (~ nodes[n].conflict => UnitsTrue(nodes[n])') /\ (n \notin cut /\ ~ nodes[n].conflict => AllDone(nodes[n])')
        BY <2>4, <2>5, SameProblem
    <2>7. n # 0 => Narrowed(nodes[parent[n]], nodes[n])' /\ Stricter(nodes[parent[n]], nodes[n])'
        BY <2>5, SameNodes, SameProblem
    <2> QED
        BY <2>6, <2>7 DEF NodeExact
<1>4. Undecided'
    BY DEF ExactInv, Undecided
<1> QED
    BY <1>1, <1>2, <1>3, <1>4 DEF ExactInv

LEMMA DoneExact ==
    ASSUME OnlySums, Inv, TasksKept, ExactInv, RootDone \/ RightDone \/ NoVariable \/ CreateTask
    PROVE  ExactInv'
<1>1. CASE RootDone \/ RightDone
    <2>1. Propagated /\ pc' \in {"refuted", "creating"} /\ halves' \in {halves, Null}
          /\ UNCHANGED <<problem, nodes, parent, at, since, clock, visited, cut, relaxed>>
        BY <1>1 DEF RootDone, RightDone
    <2> QED
        BY <2>1, QuietExact
<1>2. CASE NoVariable \/ CreateTask
    <2>1. pc \notin {"init", "propagating"} /\ pc' \in {"splitting", "creating"} /\ halves' \in {halves, Null}
          /\ UNCHANGED <<problem, nodes, parent, at, since, clock, visited, cut, relaxed>>
        BY <1>2 DEF NoVariable, CreateTask, treeVars, propVars
    <2> QED
        BY <2>1, QuietExact
<1> QED
    BY <1>1, <1>2

-----------------------------------------------------------------------------
(* A half of a node.  Its bound is better than what the node had, since it *)
(* was undecided there.                                                    *)
LEMMA CutBetter ==
    ASSUME NEW lower \in BOOLEAN, NEW open \in BOOLEAN, NEW val, IsNumber(val), NEW own, own = Null \/ IsBound(own),
           NEW b, IsBound(b), b # Null, Less(val, b.val, lower) \/ (b.val = val /\ (open => b.open)),
           NEW ties, ties = (~ open), ~ Past(own, val, lower, ties)
    PROVE  AtLeast(b, own, lower) /\ ~ AtLeast(own, b, lower)
<1>1. CASE own = Null
    BY <1>1 DEF AtLeast
<1>2. CASE own # Null
    <2>1. IsNumber(own.val) /\ own.open \in BOOLEAN /\ IsNumber(b.val) /\ b.open \in BOOLEAN
        BY <1>2 DEF IsBound
    <2>2. ~ Less(val, own.val, lower) /\ ~ (own.val = val /\ (own.open \/ ~ open))
        BY <1>2 DEF Past
    <2>3. Less(own.val, val, lower) \/ (own.val = val /\ open /\ ~ own.open)
        BY <2>1, <2>2, LessOrder
    <2>4. Less(own.val, b.val, lower) \/ (own.val = b.val /\ b.open /\ ~ own.open)
        <3>1. CASE Less(own.val, val, lower)
            BY <2>1, <3>1, LessOrder
        <3>2. CASE own.val = val /\ open /\ ~ own.open
            BY <2>1, <3>2
        <3> QED
            BY <2>3, <3>1, <3>2
    <2>5. ~ Less(b.val, own.val, lower)
        BY <2>1, <2>4, LessOrder
    <2>6. ~ Less(own.val, own.val, lower)
        BY <2>1, LessOrder
    <2> QED
        BY <1>2, <2>4, <2>5, <2>6 DEF AtLeast
<1> QED
    BY <1>1, <1>2

LEMMA HalfGood ==
    ASSUME OnlySums, Inv, TasksKept, ExactInv, pc \in {"propagating", "splitting"}, NEW n \in DOMAIN tasks,
           NEW a, IsAtom(problem, a), a.kind = "ineq", a.x \in Plain(problem) \ problem.bool, IneqValue(nodes[n], a) = "undef",
           NEW b, b = Normalize(problem, a.x, a.val, a.lower, a.open),
           NEW s0, s0 = [n |-> s0.n, q |-> s0.q, t |-> s0.t, v |-> s0.v, r |-> s0.r],
           s0.n = nodes[n], s0.q = <<>>, s0.t = clock, s0.v = visited,
           NEW rough, rough = (relaxed \/ TooFine(problem, a.x, a.val)), s0.r = rough,
           NEW e, e.models = {}, e.points = problem.points, e.from = nodes[n], e.clock = clock, e.relaxed = relaxed,
           e.full = TRUE, NEW whole, whole = (n \notin cut), e.strict = whole, e.open = {},
           NEW s, s = Made(s0, a.x, b, a.lower)
    PROVE  Good(s, e) /\ (~ s.r => ~ relaxed /\ Stricter(nodes[n], s.n) /\ (~ s.n.conflict => UnitsTrue(s.n)))
<1> DEFINE k == nodes[n]
           x == a.x
           l == a.lower
<1>1. k \in Nodes(problem) /\ ~ k.conflict /\ Consistent(k) /\ n \in DOMAIN nodes /\ (\A y \in problem.vars : Latest(k, y, clock))
    BY DEF TasksKept, Inv, Typed, ExactInv, Stamped
<1>2. x \in problem.vars \ problem.bool /\ x \notin DOMAIN problem.defs /\ IsNumber(a.val) /\ l \in BOOLEAN /\ a.open \in BOOLEAN
    BY AtomParts DEF Plain
<1>3. IsNumber(b.val) /\ b.open \in BOOLEAN
    BY <1>2, NormalizeType
<1>4. IsProblem(problem) /\ problem \in Problems
    BY ProblemFacts DEF Inv, Typed
<1>5. s0.n = k /\ s0.q = <<>> /\ s0.t = clock /\ s0.v = visited /\ s0.r = (relaxed \/ TooFine(problem, x, a.val))
      /\ s0 = [n |-> s0.n, q |-> s0.q, t |-> s0.t, v |-> s0.v, r |-> s0.r]
    OBVIOUS
<1>6. e.models = {} /\ e.points = problem.points /\ e.from = k /\ e.clock = clock /\ e.relaxed = relaxed /\ e.full = TRUE
      /\ e.strict = (n \notin cut) /\ e.open = {}
    OBVIOUS
<1>7. clock \in Nat /\ visited \in [Constraints -> 0 .. clock]
    BY DEF Inv, Typed, ExactInv, Stamped
<1>8. ASSUME ~ relaxed PROVE Reads(k) /\ UnitsTrue(k) /\ (n \notin cut => AllDone(k))
    <2>1. NodeExact(n)
        BY <1>1, <1>8 DEF ExactInv, AllExact
    <2>2. ~ InRun(n)
        BY DEF InRun, TasksKept
    <2> QED
        BY <1>1, <2>1, <2>2 DEF NodeExact
<1>9. ~ Past(Own(k, x, l), a.val, l, ~ a.open)
    BY DEF IneqValue
<1> DEFINE B == [val |-> b.val, open |-> b.open, ts |-> clock]
<1>10. B \in Bounds /\ B.val = b.val /\ B.open = b.open
    BY <1>3, <1>7 DEF IsNumber, Bounds, Numbers
<1>11. B # Null /\ IsBound(B)
    BY <1>10, BoundNotNull
<1>12. ASSUME ~ s0.r PROVE AtLeast(B, Own(k, x, l), l) /\ ~ AtLeast(Own(k, x, l), B, l)
    <2>1. Less(a.val, b.val, l) \/ (b.val = a.val /\ (a.open => b.open))
        <3>1. ~ TooFine(problem, x, a.val)
            BY <1>5, <1>12
        <3> QED
            BY <1>2, <3>1, NormalizeTight
    <2>2. Own(k, x, l) = Null \/ IsBound(Own(k, x, l))
        BY <1>1, <1>2, OwnIs, ZenonT(40)
    <2> DEFINE v == a.val
               o == a.open
               own == Own(k, x, l)
               ties == ~ a.open
    <2>3. /\ l \in BOOLEAN /\ o \in BOOLEAN /\ IsNumber(v) /\ (own = Null \/ IsBound(own)) /\ IsBound(B) /\ B # Null
          /\ Less(v, B.val, l) \/ (B.val = v /\ (o => B.open))
          /\ ties = (~ o) /\ ~ Past(own, v, l, ties)
        BY <1>2, <1>9, <1>10, <1>11, <2>1, <2>2
    <2> HIDE DEF B, l, own, v, o, ties
    <2>4. AtLeast(B, own, l) /\ ~ AtLeast(own, B, l)
        BY <2>3, CutBetter
    <2> QED
        BY <2>4 DEF own
<1>13. Pushed(k, x, B, l) \in Nodes(problem) /\ Consistent(Pushed(k, x, B, l))
       /\ Own(Pushed(k, x, B, l), x, l) = B
    <2> HIDE DEF B, x, l, k
    <2>1. x \in problem.vars
        BY <1>2
    <2> QED
        BY <1>1, <1>2, <1>10, <2>1, PushedConsistent, PushedIs
<1>14. Good(s0, e)
    <2>1. IsState(s0)
        BY <1>1, <1>5, <1>7 DEF IsState
    <2>2. Timed(s0)
        <3>1. <<>> \in Seq([x : problem.vars, ts : Nat])
            OBVIOUS
        <3> QED
            BY <1>1, <1>5, <1>7, <3>1 DEF Timed
    <2>3. ASSUME ~ s0.r PROVE Exact(s0, e)
        <3>1. ~ relaxed
            BY <1>5, <2>3
        <3>2. Narrowed(k, k)
            BY <1>1, NarrowedSame
        <3>3. Back(s0, e)
            BY <1>5, <1>6, <1>8, <3>1 DEF Back, Reads
        <3>4. e.strict => Tracked(s0, e)
            BY <1>5, <1>6, <1>8, <3>1 DEF Tracked, AllDone
        <3> QED
            BY <1>5, <1>6, <3>2, <3>3, <3>4 DEF Exact
    <2>4. \A m \in problem.points : IsPoint(problem, m)
        BY <1>4, ProblemsSound
    <2>5. e.clock <= s0.t /\ e.clock \in Nat
        <3>1. clock <= clock
            BY <1>7
        <3> QED
            BY <1>5, <1>6, <1>7, <3>1
    <2>7. e.relaxed => s0.r
        BY <1>5, <1>6
    <2>6. Full(s0, e)
        BY <1>1, <1>5, <1>6, <2>2, <2>3, <2>4, <2>5, <2>7 DEF Full
    <2> QED
        BY <1>6, <2>1, <2>6 DEF Good
<1>15. s = Made(s0, x, b, l)
    OBVIOUS
<1>16. s.r = s0.r /\ s.n = Pushed(k, x, B, l)
    BY <1>5, <1>15 DEF Made
<1>17. \A m : m \notin Held(s0, e, x)
    BY <1>2, <1>6 DEF Held
<1>18. Good(s, e)
    <2>1. s0.n = k /\ s0.t = clock
        BY <1>5
    <2>2. Consistent(Pushed(s0.n, x, [val |-> b.val, open |-> b.open, ts |-> s0.t], l))
        BY <1>13, <2>1
    <2>3. s0.r \/ AtLeast([val |-> b.val, open |-> b.open, ts |-> s0.t], Own(s0.n, x, l), l)
        BY <1>12, <2>1
    <2>4. ~ s0.n.conflict
        BY <1>1, <2>1
    <2>5. e.full => /\ ~ s0.n.conflict /\ Consistent(Pushed(s0.n, x, [val |-> b.val, open |-> b.open, ts |-> s0.t], l))
                    /\ s0.r \/ AtLeast([val |-> b.val, open |-> b.open, ts |-> s0.t], Own(s0.n, x, l), l)
        BY <2>2, <2>3, <2>4
    <2>6. \A m \in Held(s0, e, x) : LetsIn(b, l, m[x])
        BY <1>17
    <2>7. x \in problem.vars \ problem.bool /\ l \in BOOLEAN
        BY <1>2
    <2> HIDE DEF x, l, k, B
    <2>8. Good(Made(s0, x, b, l), e)
        BY <1>3, <1>4, <1>14, <2>5, <2>6, <2>7, MadeGood
    <2> QED
        BY <1>15, <2>8
<1>19. ASSUME ~ s.r PROVE ~ relaxed /\ Stricter(k, s.n) /\ (~ s.n.conflict => UnitsTrue(s.n))
    <2>1. ~ s0.r /\ ~ relaxed
        BY <1>5, <1>16, <1>19
    <2>2. ~ AtLeast(Own(k, x, l), Own(s.n, x, l), l)
        BY <1>12, <1>13, <1>16, <2>1
    <2>3. Stricter(k, s.n)
        BY <1>2, <2>2 DEF Stricter
    <2>4. s.n \in Nodes(problem) /\ Consistent(s.n) /\ Narrowed(k, s.n)
        BY <1>6, <1>13, <1>16, <1>18, <1>19 DEF Good, Full, Exact
    <2> DEFINE o == s.n
    <2>5. o \in Nodes(problem) /\ Consistent(o) /\ Narrowed(k, o)
        BY <2>4
    <2> HIDE DEF o, k
    <2>6. ~ o.conflict => UnitsTrue(o)
        BY <1>1, <1>4, <1>8, <2>1, <2>5, UnitsStay
    <2> QED
        BY <2>1, <2>3, <2>6 DEF o
<1> QED
    BY <1>18, <1>19

LEMMA HalfExact ==
    ASSUME OnlySums, Inv, TasksKept, ExactInv, pc \in {"propagating", "splitting"}, pc = "propagating" => Propagated,
           NEW n \in DOMAIN tasks, NEW a, IsAtom(problem, a), a.kind = "ineq", a.x \in Plain(problem) \ problem.bool,
           IneqValue(nodes[n], a) = "undef", NEW c, c \notin DOMAIN nodes, c # 0, BeginHalf(n, c, a),
           problem' = problem, parent'[c] = n, \A j \in DOMAIN nodes : parent'[j] = parent[j], Undecided'
    PROVE  ExactInv'
<1> DEFINE b == Normalize(problem, a.x, a.val, a.lower, a.open)
           s0 == [n |-> nodes[n], q |-> <<>>, t |-> clock, v |-> visited, r |-> relaxed \/ TooFine(problem, a.x, a.val)]
           s == Made(s0, a.x, b, a.lower)
           e == [models |-> {}, points |-> problem.points, from |-> nodes[n], clock |-> clock, relaxed |-> relaxed,
                 full |-> TRUE, strict |-> n \notin cut, open |-> {}, since |-> 0]
<1>1. nodes' = With(nodes, c, s.n) /\ StartAt(c, s, <<>>) /\ cut' = IF n \in cut THEN cut \cup {c} ELSE cut
    BY DEF BeginHalf
<1>2. s0 = [n |-> s0.n, q |-> s0.q, t |-> s0.t, v |-> s0.v, r |-> s0.r] /\ s0.n = nodes[n] /\ s0.q = <<>> /\ s0.t = clock
      /\ s0.v = visited /\ s0.r = (relaxed \/ TooFine(problem, a.x, a.val))
    OBVIOUS
<1>3. e.models = {} /\ e.points = problem.points /\ e.from = nodes[n] /\ e.clock = clock /\ e.relaxed = relaxed
      /\ e.full = TRUE /\ e.strict = (n \notin cut) /\ e.open = {}
    OBVIOUS
<1>4. s = Made(s0, a.x, b, a.lower) /\ b = Normalize(problem, a.x, a.val, a.lower, a.open)
    OBVIOUS
<1> HIDE DEF b, s0, s, e
<1>5. Good(s, e) /\ (~ s.r => ~ relaxed /\ Stricter(nodes[n], s.n) /\ (~ s.n.conflict => UnitsTrue(s.n)))
    <2> DEFINE rough == relaxed \/ TooFine(problem, a.x, a.val)
               whole == n \notin cut
    <2>1. rough = (relaxed \/ TooFine(problem, a.x, a.val)) /\ s0.r = rough /\ whole = (n \notin cut) /\ e.strict = whole
        BY <1>2, <1>3
    <2> HIDE DEF rough, whole
    <2> QED
        BY ONLY OnlySums, Inv, TasksKept, ExactInv, pc \in {"propagating", "splitting"}, n \in DOMAIN tasks,
                IsAtom(problem, a), a.kind = "ineq", a.x \in Plain(problem) \ problem.bool, IneqValue(nodes[n], a) = "undef",
                <1>2, <1>3, <1>4, <2>1, HalfGood, ZenonT(40)
<1>6. at' = c /\ pc' = "propagating" /\ queue' = s.q /\ clock' = s.t /\ visited' = s.v /\ relaxed' = s.r /\ todo' = <<>> /\ since' = s.t
    BY <1>1 DEF StartAt
<1>7. DOMAIN nodes' = DOMAIN nodes \cup {c} /\ nodes'[c] = s.n /\ \A j \in DOMAIN nodes : j # c /\ nodes'[j] = nodes[j]
    BY <1>1 DEF With
<1>8. /\ s.n \in Nodes(problem) /\ s.t \in Nat /\ Consistent(s.n) /\ Timed(s) /\ clock <= s.t
      /\ (~ s.r => Narrowed(nodes[n], s.n) /\ Back(s, e))
    BY <1>3, <1>5 DEF Good, Full, Exact, IsState
<1>9. clock \in Nat /\ cut \subseteq DOMAIN nodes /\ n \in DOMAIN nodes /\ DOMAIN tasks \subseteq DOMAIN nodes
      /\ (\A j \in DOMAIN nodes : nodes[j] \in Nodes(problem)) /\ pc # "init"
    BY DEF Inv, Typed, ExactInv, Stamped, TasksKept
<1>10. Running'
    <2>1. at' \notin cut' => e.strict
        BY <1>1, <1>3, <1>6
    <2>2. \A i \in DOMAIN problem.clauses : i \notin e.open
        BY <1>3
    <2>3. Good(Current, Here)'
        BY <1>3, <1>5, <1>6, <1>7, <2>1, <2>2, Arrived
    <2> QED
        BY <2>3 DEF Running
<1>11. Stamped'
    <2>1. visited' \in [Constraints' -> 0 .. clock'] /\ since' \in Nat /\ cut' \subseteq DOMAIN nodes'
        BY <1>1, <1>6, <1>7, <1>8, <1>9, SameNodes DEF Timed
    <2>2. ASSUME NEW j \in DOMAIN nodes' PROVE Consistent(nodes'[j]) /\ \A x \in problem.vars : Latest(nodes'[j], x, s.t)
        <3>1. CASE j = c
            BY <1>7, <1>8, <3>1 DEF Timed
        <3>2. CASE j # c
            <4>1. j \in DOMAIN nodes /\ nodes'[j] = nodes[j]
                BY <1>7, <3>2
            <4>2. Consistent(nodes[j]) /\ \A x \in problem.vars : Latest(nodes[j], x, clock)
                BY <4>1 DEF ExactInv, Stamped
            <4> QED
                BY <1>8, <1>9, <4>1, <4>2, LaterLatest
        <3> QED
            BY <3>1, <3>2
    <2>3. \A j \in DOMAIN nodes' : Consistent(nodes[j])' /\ \A x \in problem.vars : Latest(nodes'[j], x, s.t)
        BY <2>2, SameNodes
    <2> QED
        BY <1>6, <2>1, <2>3 DEF Stamped
<1>12. AllExact'
    <2> SUFFICES ASSUME ~ s.r, NEW j \in DOMAIN nodes' PROVE NodeExact(j)'
        BY <1>6 DEF AllExact
    <2>1. ~ relaxed /\ \A k \in DOMAIN nodes : NodeExact(k)
        BY <1>5 DEF ExactInv, AllExact
    <2>2. InRun(j)' <=> j = c
        BY <1>6 DEF InRun
    <2>3. CASE j # c
        <3>1. j \in DOMAIN nodes /\ nodes'[j] = nodes[j] /\ NodeExact(j) /\ parent'[j] = parent[j]
            BY <1>7, <2>1, <2>3
        <3>2. j # 0 => parent[j] \in DOMAIN nodes /\ nodes'[parent[j]] = nodes[parent[j]]
            BY <1>7, <3>1 DEF TasksKept
        <3>3. /\ Reads(nodes[j])
              /\ j # 0 => Narrowed(nodes[parent[j]], nodes[j]) /\ Stricter(nodes[parent[j]], nodes[j])
              /\ ~ nodes[j].conflict => UnitsTrue(nodes[j])
            BY <1>9, <3>1 DEF NodeExact
        <3>4. j \notin cut /\ ~ nodes[j].conflict => AllDone(nodes[j])
            <4>1. CASE InRun(j)
                BY <2>1, <4>1, AtDone DEF InRun
            <4>2. CASE ~ InRun(j)
                BY <3>1, <4>2 DEF NodeExact
            <4> QED
                BY <4>1, <4>2
        <3>5. j \notin cut' => j \notin cut
            BY <1>1
        <3>6. Reads(nodes[j])' /\ (~ nodes'[j].conflict => UnitsTrue(nodes[j])')
            BY <3>1, <3>3, SameProblem
        <3>7. j # 0 => Narrowed(nodes[parent[j]], nodes[j])' /\ Stricter(nodes[parent[j]], nodes[j])'
            BY <3>1, <3>2, <3>3, SameProblem, SameNodes
        <3>8. j \notin cut' /\ ~ nodes'[j].conflict => AllDone(nodes[j])'
            BY <3>1, <3>4, <3>5, SameProblem
        <3> QED
            BY <3>6, <3>7, <3>8 DEF NodeExact
    <2>4. CASE j = c
        <3>1. nodes'[j] = s.n /\ parent'[j] = n /\ nodes'[parent'[j]] = nodes[n]
            BY <1>7, <1>9, <2>4
        <3>2. Reads(s.n)
            BY <1>3, <1>8 DEF Back, Reads
        <3>3. Narrowed(nodes[n], s.n) /\ Stricter(nodes[n], s.n) /\ (~ s.n.conflict => UnitsTrue(s.n))
            BY <1>5, <1>8
        <3>4. Reads(nodes[j])' /\ (~ nodes'[j].conflict => UnitsTrue(nodes[j])')
            BY <3>1, <3>2, <3>3, SameProblem
        <3>5. Narrowed(nodes[parent[j]], nodes[j])' /\ Stricter(nodes[parent[j]], nodes[j])'
            BY <3>1, <3>3, SameProblem, SameNodes
        <3> QED
            BY <2>2, <2>4, <3>4, <3>5 DEF NodeExact
    <2> QED
        BY <2>3, <2>4
<1> QED
    BY <1>10, <1>11, <1>12 DEF ExactInv

LEMMA LeftDoneExact ==
    ASSUME OnlySums, Inv, TasksKept, ExactInv, LeftDone
    PROVE  ExactInv'
<1>1. /\ Propagated /\ pc = "propagating" /\ halves # Null /\ at < halves.node
      /\ BeginHalf(halves.from, halves.node, halves.lit) /\ UNCHANGED <<problem, parent, tasks, halves>>
    BY DEF LeftDone, Propagated
<1> SUFFICES ASSUME NEW c, c = halves.node, NEW n, n = halves.from, NEW a, a = halves.lit PROVE ExactInv'
    OBVIOUS
<1>2. /\ c \in Nat /\ at \in {c - 1, c} /\ Size = at + 1 /\ parent[c] = n /\ IsAtom(problem, a) /\ a.kind = "ineq"
    BY <1>1 DEF Inv, HalvesTyped
<1>3. DOMAIN nodes = 0 .. Size - 1 /\ at \in DOMAIN nodes
    BY Ranges
<1>4. c \notin DOMAIN nodes /\ c # 0
    BY <1>1, <1>2, <1>3
<1>5. n \in DOMAIN tasks
    BY <1>1 DEF TasksKept
<1>6. IneqValue(nodes[n], a) = "undef" /\ a.x \in Plain(problem) \ problem.bool
    BY <1>1 DEF ExactInv, Undecided
<1>7. Undecided'
    <2>1. at' = c /\ halves' = halves
        BY <1>1 DEF BeginHalf, StartAt
    <2>2. ~ (c < c)
        BY <1>2
    <2> QED
        BY <2>1, <2>2 DEF Undecided
<1>8. BeginHalf(n, c, a) /\ problem' = problem /\ parent'[c] = n /\ \A j \in DOMAIN nodes : parent'[j] = parent[j]
    BY <1>1, <1>2
<1> QED
    BY <1>1, <1>2, <1>4, <1>5, <1>6, <1>7, <1>8, HalfExact

LEMMA SplitNodeExact ==
    ASSUME OnlySums, Inv, TasksKept, ExactInv, SplitNode
    PROVE  ExactInv'
<1> SUFFICES ASSUME NEW c, c = Size, NEW n, n = task.node PROVE ExactInv'
    OBVIOUS
<1>1. PICK x \in Eligible(nodes[n]) : \E a \in Cuts(nodes[n], x) :
          /\ halves' = [node |-> c + 1, from |-> n, lit |-> OtherHalf(a)]
          /\ parent' = With(With(parent, c, n), c + 1, n)
          /\ BeginHalf(n, c, a)
    BY DEF SplitNode, Size
<1>2. PICK a \in Cuts(nodes[n], x) :
          /\ halves' = [node |-> c + 1, from |-> n, lit |-> OtherHalf(a)]
          /\ parent' = With(With(parent, c, n), c + 1, n)
          /\ BeginHalf(n, c, a)
    BY <1>1
<1>3. pc = "splitting" /\ UNCHANGED <<problem, heap, tasks>>
    BY DEF SplitNode
<1>4. n \in DOMAIN tasks /\ tasks[n] = ToTask(problem, nodes[n]) /\ task.clauses = tasks[n].clauses /\ ~ nodes[n].conflict
    BY <1>3 DEF TasksKept
<1>5. n \in DOMAIN nodes /\ nodes[n] \in Nodes(problem) /\ IsProblem(problem) /\ halves = Null /\ Consistent(nodes[n])
    BY <1>3, <1>4, ProblemFacts DEF Inv, Typed, TasksTyped, HalvesTyped, TasksKept, ExactInv, Stamped
<1>6. \A b \in Lits(task) : IsAtom(problem, b) /\ Value(problem, nodes[n], b) = "undef"
    <2>1. Lits(task) = Lits(ToTask(problem, nodes[n]))
        BY <1>4 DEF Lits
    <2> QED
        BY <1>5, <2>1, TaskType
<1>7. IsAtom(problem, a) /\ a.kind = "ineq"
    BY <1>5, <1>6, CutType
<1>8. IneqValue(nodes[n], a) = "undef" /\ a.x = x /\ x \in Plain(problem) \ problem.bool
    <2> DEFINE k == nodes[n]
    <2>1. k \in Nodes(problem) /\ Consistent(k) /\ ~ k.conflict /\ (\A b \in Lits(task) : IsAtom(problem, b) /\ Value(problem, k, b) = "undef")
          /\ x \in Eligible(k) /\ a \in Cuts(k, x)
        BY <1>4, <1>5, <1>6
    <2> HIDE DEF k
    <2>2. IneqValue(k, a) = "undef" /\ a.x = x
        BY <1>5, <2>1, CutUndecided
    <2> QED
        BY <2>2 DEF k, Eligible
<1>9. a.lower \in BOOLEAN /\ a.open \in BOOLEAN
    BY <1>7, AtomParts
<1>10. c \in Nat \ {0} /\ DOMAIN nodes = 0 .. c - 1
    BY Ranges
<1>11. c \notin DOMAIN nodes /\ c + 1 \notin DOMAIN nodes /\ c # c + 1 /\ c # 0
    BY <1>10
<1>12. parent'[c] = n /\ \A j \in DOMAIN nodes : parent'[j] = parent[j]
    <2>1. DOMAIN parent = DOMAIN nodes
        BY <1>5, <1>10, Ranges DEF Inv, Typed
    <2> QED
        BY <1>2, <1>11, <2>1 DEF With
<1>13. Undecided'
    <2>1. halves'.from = n /\ halves'.lit = OtherHalf(a)
        BY <1>2
    <2>2. nodes'[n] = nodes[n]
        <3>1. PICK k : nodes' = With(nodes, c, k)
            BY <1>2 DEF BeginHalf
        <3> QED
            BY <1>5, <1>11, <3>1 DEF With
    <2>3. IneqValue(nodes[n], OtherHalf(a)) = "undef" /\ OtherHalf(a).x = a.x
        BY <1>8, <1>9, OtherUndecided
    <2>4. Plain(problem)' = Plain(problem)
        BY <1>3 DEF Plain
    <2> QED
        BY <1>3, <1>8, <2>1, <2>2, <2>3, <2>4 DEF Undecided
<1> QED
    BY <1>2, <1>3, <1>4, <1>7, <1>8, <1>11, <1>12, <1>13, HalfExact

-----------------------------------------------------------------------------
(* The theorems.                                                           *)
LEMMA StutterExact ==
    ASSUME ExactInv, UNCHANGED vars
    PROVE  ExactInv'
<1>1. UNCHANGED <<problem, nodes, parent, pc, at, halves, queue, todo, since, clock, visited, cut, relaxed>>
    BY DEF vars, treeVars, propVars
<1>2. Running'
    <2>1. Current' = Current /\ Here' = Here
        BY <1>1 DEF Current, Here, Open
    <2> QED
        BY <1>1, <2>1, SameProblem DEF ExactInv, Running
<1>3. Stamped'
    <2>1. \A n \in DOMAIN nodes : Consistent(nodes[n])' <=> Consistent(nodes[n])
        BY <1>1, SameNodes
    <2> QED
        BY <1>1, <2>1, SameNodes DEF ExactInv, Stamped
<1>4. AllExact'
    <2>1. ASSUME NEW n \in DOMAIN nodes, NodeExact(n) PROVE NodeExact(n)'
        BY <1>1, <2>1, SameNodes, SameProblem DEF NodeExact, InRun
    <2> QED
        BY <1>1, <2>1 DEF ExactInv, AllExact
<1>5. Undecided'
    BY <1>1 DEF ExactInv, Undecided
<1> QED
    BY <1>2, <1>3, <1>4, <1>5 DEF ExactInv

LEMMA NextExact ==
    ASSUME OnlySums, Inv, TasksKept, ExactInv, [Next]_vars
    PROVE  ExactInv'
BY AssertUnitsExact, VisitExact, TakeBoundExact, TimeUpExact, DoneExact, SplitNodeExact, LeftDoneExact, StutterExact DEF Next

LEMMA AllTogether ==
    ASSUME OnlySums
    PROVE  Spec => [](Inv /\ TasksKept /\ ExactInv)
<1>1. Init => Inv /\ TasksKept /\ ExactInv
    BY InitInv, InitTasks, InitExact
<1>2. Inv /\ TasksKept /\ ExactInv /\ [Next]_vars => (Inv /\ TasksKept /\ ExactInv)'
    BY NextInv, NextTasks, NextExact
<1> QED
    BY <1>1, <1>2, PTL DEF Spec

(* Both halves of a node are smaller than it, unless a bound was relaxed.  *)
THEOREM SplitNarrowsHolds ==
    ASSUME OnlySums
    PROVE  Spec => []SplitNarrows
<1>1. ASSUME Inv, ExactInv PROVE SplitNarrows
    <2> SUFFICES ASSUME ~ relaxed, NEW n \in DOMAIN nodes \ {0}
                 PROVE  /\ \A x \in Plain(problem) \ problem.bool, lower \in BOOLEAN :
                              AtLeast(Own(nodes[n], x, lower), Own(nodes[parent[n]], x, lower), lower)
                        /\ \E x \in Plain(problem) \ problem.bool, lower \in BOOLEAN :
                              ~ AtLeast(Own(nodes[parent[n]], x, lower), Own(nodes[n], x, lower), lower)
        BY DEF SplitNarrows
    <2>1. Narrowed(nodes[parent[n]], nodes[n]) /\ Stricter(nodes[parent[n]], nodes[n])
        BY <1>1 DEF ExactInv, AllExact, NodeExact
    <2>2. Plain(problem) \subseteq problem.vars
        BY DEF Plain
    <2> QED
        BY <2>1, <2>2 DEF Narrowed, Stricter
<1> QED
    BY <1>1, AllTogether, PTL

(* A propagation that comes to its end has missed no clause.               *)
THEOREM PropagationCompleteHolds ==
    ASSUME OnlySums
    PROVE  Spec => []PropagationComplete
<1>1. ASSUME Inv, ExactInv PROVE PropagationComplete
    BY <1>1, AtDone DEF PropagationComplete, AllDone
<1> QED
    BY <1>1, AllTogether, PTL

(* What satisfies a task satisfies the problem, unless a bound was relaxed.*)
THEOREM TaskHasOnlyModelsHolds ==
    ASSUME OnlySums
    PROVE  Spec => []TaskHasOnlyModelsUnlessRelaxed
<1>1. ASSUME Inv, TasksKept, ExactInv PROVE TaskHasOnlyModelsUnlessRelaxed
    <2> SUFFICES ASSUME ~ relaxed, NEW n \in DOMAIN tasks, NEW m \in problem.points, InTask(m, tasks[n])
                 PROVE  m \in problem.models
        BY DEF TaskHasOnlyModelsUnlessRelaxed, TaskHasOnlyModels
    <2> DEFINE k == nodes[n]
    <2>1. n \in DOMAIN nodes /\ k \in Nodes(problem) /\ tasks[n] = ToTask(problem, k) /\ ~ Refuted(problem, k) /\ ~ k.conflict
        BY <1>1 DEF TasksKept, Inv, Typed
    <2>2. IsProblem(problem) /\ problem \in Problems
        BY <1>1, ProblemFacts DEF Inv, Typed
    <2>3. IsPoint(problem, m) /\ (IsModel(problem, m) => m \in problem.models)
        BY <2>2, ProblemsSound
    <2>4. pc # "init"
        <3> SUFFICES ASSUME pc = "init" PROVE FALSE
            OBVIOUS
        <3>1. n = at
            BY <1>1, <2>1, Untouched
        <3> QED
            BY <1>1, <3>1 DEF TasksKept
    <2>5. Reads(k) /\ UnitsTrue(k) /\ Consistent(k)
        BY <1>1, <2>1, <2>4 DEF ExactInv, AllExact, NodeExact, Stamped
    <2> HIDE DEF k
    <2>6. Boxed(k, m, Plain(problem)) /\ Claimed(k, m) => Boxed(k, m, problem.vars)
        BY <2>1, <2>5 DEF Reads
    <2>7. \A a \in ToSet(problem.units) : Value(problem, k, a) = "true"
        BY <2>5 DEF UnitsTrue
    <2>8. IsModel(problem, m)
        BY <2>1, <2>2, <2>3, <2>5, <2>6, <2>7, TaskPointSound
    <2> QED
        BY <2>3, <2>8
<1> QED
    BY <1>1, AllTogether, PTL
=============================================================================
