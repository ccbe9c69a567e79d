------------------------------- MODULE Folding -------------------------------
(***************************************************************************)
(* What a fold from left to right computes, for every operator Op with     *)
(* three parameters of its own: there is a run of intermediate results     *)
(* from base to the result (FoldRuns).  Folded is FoldLeft of SequencesExt *)
(* with its definition and those it is made of expanded, so that the       *)
(* module depends on little: the operator is a constant of the module, a   *)
(* module that folds a particular operator instantiates it, and a property *)
(* of the result follows by induction along the run.                       *)
(***************************************************************************)
EXTENDS Integers, Sequences, WellFoundedInduction, TLAPS

CONSTANT Op(_, _, _, _, _)

Greatest(S) == CHOOSE x \in S : \A y \in S : x >= y

Folded(a, b, c, base, seq) ==
    LET iter[s \in SUBSET DOMAIN seq] ==
            IF s = {} THEN base
            ELSE LET x == Greatest(s) IN Op(a, b, c, iter[s \ {x}], seq[x])
    IN  iter[DOMAIN seq]

-----------------------------------------------------------------------------
(* Every nonempty set of natural numbers has a least element; and          *)
(* induction, for a set in place of a predicate.                           *)
LEMMA Least ==
    ASSUME NEW D, D \subseteq Nat, D # {}
    PROVE  \E m \in D : \A d \in D : m <= d
<1>1. PICK m \in D : \A d \in D : <<d, m>> \notin OpToRel(<, Nat)
    BY NatLessThanWellFounded, WFMin
<1>2. ASSUME NEW d \in D, d < m PROVE FALSE
    <2>1. <<d, m>> \in Nat \X Nat /\ <<d, m>>[1] < <<d, m>>[2]
        BY <1>2
    <2>2. <<d, m>> \in OpToRel(<, Nat)
        BY <2>1, Zenon DEF OpToRel
    <2> QED
        BY <1>1, <2>2
<1>3. \A d \in D : m <= d
    BY <1>2
<1> QED
    BY <1>3

LEMMA UpTo ==
    ASSUME NEW n \in Nat, NEW D, 0 \in D, \A k \in 0 .. n - 1 : k \in D => k + 1 \in D
    PROVE  \A k \in 0 .. n : k \in D
<1> DEFINE out == {k \in 0 .. n : k \notin D}
<1>1. SUFFICES ASSUME out # {} PROVE FALSE
    OBVIOUS
<1>2. PICK m \in out : \A d \in out : m <= d
    <2>1. out \subseteq Nat
        OBVIOUS
    <2> HIDE DEF out
    <2> QED
        BY <1>1, <2>1, Least
<1>3. m # 0 /\ m - 1 \in 0 .. n - 1 /\ m - 1 \notin out
    BY <1>2
<1> QED
    BY <1>2, <1>3

-----------------------------------------------------------------------------
(* The function MapThenFoldSet defines, on the subsets of 1 .. n.          *)
Runs(a, b, c, base, seq, h, n) ==
    h = [s \in SUBSET (1 .. n) |->
            IF s = {} THEN base ELSE Op(a, b, c, h[s \ {Greatest(s)}], seq[Greatest(s)])]

LEMMA MaxOf ==
    ASSUME NEW n \in Nat, NEW s \in SUBSET (1 .. n + 1), n + 1 \in s
    PROVE  Greatest(s) = n + 1
<1>1. \A y \in s : n + 1 >= y
    OBVIOUS
<1>2. Greatest(s) \in s /\ \A y \in s : Greatest(s) >= y
    BY <1>1 DEF Greatest
<1>3. Greatest(s) \in 1 .. n + 1 /\ Greatest(s) >= n + 1
    BY <1>2
<1> QED
    BY <1>3

LEMMA MaxIn ==
    ASSUME NEW n \in Nat, NEW s \in SUBSET (1 .. n), s # {}
    PROVE  Greatest(s) \in s
<1>1. \A y \in s : n - y \in Nat
    OBVIOUS
<1> DEFINE D == {n - y : y \in s}
<1>2. PICK m \in D : \A d \in D : m <= d
    <2>1. D \subseteq Nat /\ D # {}
        BY <1>1
    <2> HIDE DEF D
    <2> QED
        BY <2>1, Least
<1>3. n - m \in s /\ \A y \in s : n - m >= y
    BY <1>2
<1> QED
    BY <1>3 DEF Greatest

LEMMA RunsExist ==
    ASSUME NEW a, NEW b, NEW c, NEW base, NEW seq, NEW n \in Nat
    PROVE  \E h : Runs(a, b, c, base, seq, h, n)
<1> DEFINE D == {k \in Nat : \E h : Runs(a, b, c, base, seq, h, k)}
<1>1. 0 \in D
    <2> DEFINE h == [s \in SUBSET (1 .. 0) |-> base]
    <2>1. SUBSET (1 .. 0) = {{}}
        OBVIOUS
    <2>2. Runs(a, b, c, base, seq, h, 0)
        BY <2>1 DEF Runs
    <2> HIDE DEF h
    <2> QED
        BY <2>2
<1>2. ASSUME NEW k \in Nat, k \in D PROVE k + 1 \in D
    <2>1. PICK g : Runs(a, b, c, base, seq, g, k)
        BY <1>2
    <2> DEFINE h == [s \in SUBSET (1 .. k + 1) |->
                        IF k + 1 \in s THEN Op(a, b, c, g[s \ {k + 1}], seq[k + 1]) ELSE g[s]]
    <2>2. ASSUME NEW s \in SUBSET (1 .. k + 1)
          PROVE  h[s] = IF s = {} THEN base ELSE Op(a, b, c, h[s \ {Greatest(s)}], seq[Greatest(s)])
        <3>1. CASE k + 1 \in s
            <4>1. Greatest(s) = k + 1
                BY <3>1, MaxOf
            <4>2. s \ {k + 1} \in SUBSET (1 .. k + 1) /\ k + 1 \notin s \ {k + 1}
                OBVIOUS
            <4>3. h[s \ {k + 1}] = g[s \ {k + 1}]
                BY <4>2
            <4> QED
                BY <3>1, <4>1, <4>3
        <3>2. CASE k + 1 \notin s
            <4>1. s \in SUBSET (1 .. k)
                BY <3>2
            <4>2. s # {} => s \ {Greatest(s)} \in SUBSET (1 .. k)
                BY <4>1
            <4>3. s # {} => h[s \ {Greatest(s)}] = g[s \ {Greatest(s)}]
                BY <4>2
            <4>4. h[s] = g[s]
                BY <3>2
            <4>5. g[s] = IF s = {} THEN base ELSE Op(a, b, c, g[s \ {Greatest(s)}], seq[Greatest(s)])
                BY <2>1, <4>1 DEF Runs
            <4> QED
                BY <4>3, <4>4, <4>5
        <3> QED
            BY <3>1, <3>2
    <2>3. Runs(a, b, c, base, seq, h, k + 1)
        <3>1. h = [s \in SUBSET (1 .. k + 1) |-> h[s]]
            OBVIOUS
        <3> HIDE DEF h
        <3> QED
            BY <2>2, <3>1 DEF Runs
    <2> HIDE DEF h
    <2> QED
        BY <2>3
<1> HIDE DEF D
<1>3. \A k \in 0 .. n : k \in D
    BY <1>1, <1>2, UpTo
<1> QED
    BY <1>3 DEF D

(* FoldLeft goes through the sequence from left to right.                  *)
LEMMA FoldRuns ==
    ASSUME NEW a, NEW b, NEW c, NEW base, NEW seq, Len(seq) \in Nat, DOMAIN seq = 1 .. Len(seq)
    PROVE  \E g : /\ g[0] = base
                  /\ \A k \in 0 .. Len(seq) - 1 : g[k + 1] = Op(a, b, c, g[k], seq[k + 1])
                  /\ Folded(a, b, c, base, seq) = g[Len(seq)]
<1> DEFINE n == Len(seq)
           iter == CHOOSE h : Runs(a, b, c, base, seq, h, n)
           g == [k \in 0 .. n |-> iter[1 .. k]]
<1>1. Runs(a, b, c, base, seq, iter, n)
    BY RunsExist
<1>2. Folded(a, b, c, base, seq) = iter[1 .. n]
    BY DEF Folded, Runs
<1>3. g[0] = base
    <2>1. 1 .. 0 = {} /\ {} \in SUBSET (1 .. n)
        OBVIOUS
    <2> HIDE DEF iter
    <2> QED
        BY <1>1, <2>1 DEF Runs
<1>4. ASSUME NEW k \in 0 .. n - 1 PROVE g[k + 1] = Op(a, b, c, g[k], seq[k + 1])
    <2> HIDE DEF iter
    <2>0. n \in Nat /\ k \in Nat /\ k + 1 \in 1 .. n /\ k \in 0 .. n /\ k + 1 \in 0 .. n
        OBVIOUS
    <2> HIDE DEF n
    <2>1. 1 .. k + 1 \subseteq 1 .. n /\ 1 .. k + 1 # {}
        <3>1. 1 \in 1 .. k + 1
            BY <2>0
        <3>2. ASSUME NEW j \in 1 .. k + 1 PROVE j \in 1 .. n
            BY <2>0
        <3> QED
            BY <3>1, <3>2
    <2>2. Greatest(1 .. k + 1) = k + 1
        BY <2>0, MaxOf
    <2>3. (1 .. k + 1) \ {k + 1} = 1 .. k
        BY <2>0
    <2>4. iter[1 .. k + 1] = Op(a, b, c, iter[1 .. k], seq[k + 1])
        BY <1>1, <2>1, <2>2, <2>3 DEF Runs
    <2> QED
        BY <2>0, <2>4
<1> HIDE DEF g
<1>5. g[n] = iter[1 .. n]
    BY DEF g
<1> QED
    BY <1>2, <1>3, <1>4, <1>5
=============================================================================
