----------------------------- MODULE SpaceProofs ----------------------------
(***************************************************************************)
(* Facts about the tree of subproblems, for every tree that satisfies      *)
(* SpaceShape and SpaceTruth: how the paths to the root lie, and when no   *)
(* solution below a node is lost.                                          *)
(*                                                                         *)
(* The argument.  Nodes have a depth, so of any nodes there is a           *)
(* shallowest and a deepest one.  A claim about all paths is proved for a  *)
(* shallowest node that would break it; the way down from a node to a      *)
(* satisfiable leaf is followed to the deepest node of a set.              *)
(***************************************************************************)
EXTENDS PartitionSpace, FiniteSetTheorems, WellFoundedInduction, TLAPS

(* Every satisfiable leaf at or below n lies at or below a node of H.      *)
Covered(H, n) == \A l \in Leaves \cap Sat : n \in Up[l] => Up[l] \cap H # {}

-----------------------------------------------------------------------------
(* Every node lies on its own path.                                        *)
LEMMA SelfUp == \A n \in Nodes : n \in Up[n]
<1> SUFFICES ASSUME NEW n \in Nodes PROVE n \in Up[n]
    OBVIOUS
<1>1. CASE n = Root
    BY <1>1, SpaceShape
<1>2. CASE n # Root
    <2>1. PICK p \in Nodes : n \in Kids[p]
        BY <1>2, SpaceShape
    <2> QED
        BY <2>1, SpaceShape
<1> QED
    BY <1>1, <1>2

(* A half lies just below the node it was split from.                      *)
LEMMA KidFacts ==
    ASSUME NEW n \in Nodes, NEW k \in Kids[n]
    PROVE  k \in Nodes /\ k # n /\ n \in Above(k) /\ Above(k) = Up[n]
<1>1. k \in Nodes /\ k \notin Up[n] /\ Up[k] = Up[n] \cup {k}
    BY SpaceShape
<1>2. n \in Up[n]
    BY SelfUp
<1> QED
    BY <1>1, <1>2 DEF Above

(* The path above a node stays in the tree.                                *)
LEMMA AboveNodes == \A n \in Nodes : Up[n] \subseteq Nodes /\ Above(n) \subseteq Nodes
BY SpaceShape DEF Above

(* Depths are numbers, and a half lies one deeper than its parent.         *)
LEMMA Depths ==
    /\ \A n \in Nodes : Depth(n) \in Nat /\ Depth(n) <= Cardinality(Nodes)
    /\ \A n \in Nodes : \A k \in Kids[n] : Depth(k) = Depth(n) + 1
    /\ Cardinality(Nodes) \in Nat
<1>1. Cardinality(Nodes) \in Nat /\ IsFiniteSet(Nodes)
    BY SpaceShape, FS_CardinalityType
<1>2. ASSUME NEW n \in Nodes
      PROVE  IsFiniteSet(Up[n]) /\ Depth(n) \in Nat /\ Depth(n) <= Cardinality(Nodes)
    <2>1. Up[n] \in SUBSET Nodes
        BY SpaceShape
    <2>2. IsFiniteSet(Up[n]) /\ Cardinality(Up[n]) <= Cardinality(Nodes)
        BY <1>1, <2>1, FS_Subset
    <2> QED
        BY <2>2, FS_CardinalityType DEF Depth
<1>3. ASSUME NEW n \in Nodes, NEW k \in Kids[n] PROVE Depth(k) = Depth(n) + 1
    <2>1. Up[k] = Up[n] \cup {k} /\ k \notin Up[n]
        BY SpaceShape
    <2> QED
        BY <1>2, <2>1, FS_AddElement DEF Depth
<1> QED
    BY <1>1, <1>2, <1>3

(* A set of numbers that is not empty has a least one.                     *)
LEMMA Least ==
    ASSUME NEW D, D \subseteq Nat, D # {}
    PROVE  \E m \in D : \A d \in D : m <= d
<1>1. PICK m \in D : \A d \in D : <<d, m>> \notin OpToRel(<, Nat)
    BY NatLessThanWellFounded, WFMin
<1>2. ASSUME NEW d \in D, d < m PROVE FALSE
    <2>1. <<d, m>> \in Nat \X Nat /\ <<d, m>>[1] < <<d, m>>[2]
        BY <1>2
    <2>2. <<d, m>> \in OpToRel(<, Nat)
        BY <2>1, Zenon DEF OpToRel
    <2> QED
        BY <1>1, <2>2
<1>3. \A d \in D : m <= d
    BY <1>2
<1> QED
    BY <1>3

(* Of nodes there is a shallowest ...                                      *)
LEMMA Shallowest ==
    ASSUME NEW T, T \subseteq Nodes, T # {}
    PROVE  \E n \in T : \A m \in T : Depth(n) <= Depth(m)
<1> DEFINE D == {Depth(n) : n \in T}
<1>1. D \subseteq Nat /\ D # {}
    BY Depths
<1>2. PICK d \in D : \A e \in D : d <= e
    BY <1>1, Least
<1> QED
    BY <1>2

(* ... and a deepest one.                                                  *)
LEMMA Deepest ==
    ASSUME NEW T, T \subseteq Nodes, T # {}
    PROVE  \E n \in T : \A m \in T : Depth(m) <= Depth(n)
<1> DEFINE c == Cardinality(Nodes)
           D == {c - Depth(n) : n \in T}
<1>1. c \in Nat /\ \A n \in T : Depth(n) \in Nat /\ Depth(n) <= c
    BY Depths
<1> HIDE DEF c
<1>2. D \subseteq Nat /\ D # {}
    BY <1>1
<1>3. PICK d \in D : \A e \in D : d <= e
    BY <1>2, Least
<1>4. PICK n \in T : d = c - Depth(n)
    BY <1>3
<1>5. \A m \in T : c - Depth(n) <= c - Depth(m)
    BY <1>3, <1>4
<1> QED
    BY <1>1, <1>4, <1>5

(* The path of an ancestor is part of the path, the path goes from the     *)
(* root, and it goes on from an ancestor with one of its halves.           *)
LEMMA Paths ==
    ASSUME NEW n \in Nodes
    PROVE  /\ Root \in Up[n]
           /\ \A a \in Up[n] : Up[a] \subseteq Up[n]
           /\ \A a \in Above(n) : \E k \in Kids[a] : k \in Up[n]
<1> DEFINE Good(m) == /\ Root \in Up[m]
                      /\ \A a \in Up[m] : Up[a] \subseteq Up[m]
                      /\ \A a \in Above(m) : \E k \in Kids[a] : k \in Up[m]
           T == {m \in Nodes : ~ Good(m)}
<1> SUFFICES ASSUME T # {} PROVE FALSE
    OBVIOUS
<1>1. PICK m \in T : \A x \in T : Depth(m) <= Depth(x)
    BY Shallowest
<1>2. CASE m = Root
    BY <1>1, <1>2, SpaceShape DEF Above
<1>3. CASE m # Root
    <2>1. PICK p \in Nodes : m \in Kids[p]
        BY <1>1, <1>3, SpaceShape
    <2>2. Depth(m) = Depth(p) + 1 /\ Depth(p) \in Nat
        BY <2>1, Depths
    <2>3. Good(p)
        BY <1>1, <2>2
    <2>4. Up[m] = Up[p] \cup {m} /\ m \notin Up[p] /\ p \in Up[p]
        BY <2>1, SpaceShape, SelfUp
    <2>5. \A a \in Up[m] : Up[a] \subseteq Up[m]
        BY <2>3, <2>4
    <2>6. ASSUME NEW a \in Above(m) PROVE \E k \in Kids[a] : k \in Up[m]
        <3>1. CASE a = p
            BY <2>1, <2>4, <3>1
        <3>2. CASE a # p
            BY <2>3, <2>4, <2>6, <3>2 DEF Above
        <3> QED
            BY <3>1, <3>2
    <2>7. Good(m)
        BY <2>3, <2>4, <2>5, <2>6
    <2> QED
        BY <1>1, <2>7
<1> QED
    BY <1>2, <1>3

(* No two nodes lie above each other.                                      *)
LEMMA NoCycle ==
    ASSUME NEW n \in Nodes, NEW a \in Above(n)
    PROVE  n \notin Up[a]
<1>1. PICK k \in Kids[a] : k \in Up[n]
    BY Paths
<1>2. a \in Nodes /\ k \notin Up[a]
    BY AboveNodes, SpaceShape
<1> QED
    BY <1>1, <1>2, Paths

(* A path is a chain.                                                      *)
LEMMA Chain ==
    ASSUME NEW n \in Nodes, NEW a \in Up[n], NEW b \in Up[n]
    PROVE  a \in Up[b] \/ b \in Up[a]
<1> DEFINE Good(m) == \A x, y \in Up[m] : x \in Up[y] \/ y \in Up[x]
           T == {m \in Nodes : ~ Good(m)}
<1> SUFFICES ASSUME T # {} PROVE FALSE
    OBVIOUS
<1>1. PICK m \in T : \A x \in T : Depth(m) <= Depth(x)
    BY Shallowest
<1>2. CASE m = Root
    BY <1>1, <1>2, SpaceShape
<1>3. CASE m # Root
    <2>1. PICK p \in Nodes : m \in Kids[p]
        BY <1>1, <1>3, SpaceShape
    <2>2. Depth(m) = Depth(p) + 1 /\ Depth(p) \in Nat
        BY <2>1, Depths
    <2>3. Good(p)
        BY <1>1, <2>2
    <2>4. Up[m] = Up[p] \cup {m}
        BY <2>1, SpaceShape
    <2>5. Good(m)
        BY <2>3, <2>4
    <2> QED
        BY <1>1, <2>5
<1> QED
    BY <1>2, <1>3

-----------------------------------------------------------------------------
(* What lies below a covered node is covered.                              *)
LEMMA CoveredBelow ==
    ASSUME NEW H, NEW n \in Nodes, Covered(H, n), NEW d \in Nodes, n \in Up[d]
    PROVE  Covered(H, d)
<1> SUFFICES ASSUME NEW l \in Leaves \cap Sat, d \in Up[l] PROVE Up[l] \cap H # {}
    BY DEF Covered
<1>1. l \in Nodes
    BY DEF Leaves
<1>2. n \in Up[l]
    BY <1>1, Paths
<1> QED
    BY <1>2 DEF Covered

(* A node is covered when everything that leaves the path down to a        *)
(* covered node is: what unsat_push_up asks of an ancestor.                *)
LEMMA CoveredAbove ==
    ASSUME NEW H, NEW n \in Nodes, Covered(H, n), NEW a \in Above(n),
           \A b \in Above(n) : a \in Up[b] => \A k \in Kids[b] \ Up[n] : Covered(H, k)
    PROVE  Covered(H, a)
<1> SUFFICES ASSUME NEW l \in Leaves \cap Sat, a \in Up[l] PROVE Up[l] \cap H # {}
    BY DEF Covered
<1>1. l \in Nodes /\ Kids[l] = {}
    BY DEF Leaves
<1> DEFINE T == {b \in Up[l] \cap Up[n] : a \in Up[b]}
<1>2. a \in Nodes /\ a \in Up[n] /\ a \in T /\ T \subseteq Nodes
    BY <1>1, AboveNodes, SelfUp DEF Above
<1>3. PICK b \in T : \A x \in T : Depth(x) <= Depth(b)
    BY <1>2, Deepest
<1>4. CASE b = n
    BY <1>3, <1>4 DEF Covered
<1>5. CASE b # n
    <2>1. b \in Above(n) /\ b \in Nodes
        BY <1>2, <1>3, <1>5 DEF Above
    <2>2. Kids[b] # {}
        BY <2>1, Paths
    <2>3. b \in Above(l)
        BY <1>1, <1>3, <2>2 DEF Above
    <2>4. PICK k \in Kids[b] : k \in Up[l]
        BY <1>1, <2>3, Paths
    <2>5. k \in Nodes /\ Up[k] = Up[b] \cup {k} /\ Depth(k) = Depth(b) + 1 /\ Depth(b) \in Nat
        BY <2>1, <2>4, SpaceShape, Depths
    <2>6. k \notin Up[n]
        <3>1. SUFFICES ASSUME k \in Up[n] PROVE FALSE
            OBVIOUS
        <3>2. k \in T
            BY <1>3, <2>4, <2>5, <3>1
        <3> QED
            BY <1>3, <2>5, <3>2
    <2>7. Covered(H, k)
        BY <1>3, <2>1, <2>4, <2>6
    <2> QED
        BY <2>4, <2>7 DEF Covered
<1> QED
    BY <1>4, <1>5

(* An unsatisfiable node is covered whatever was split off.                *)
LEMMA CoveredUnsat ==
    ASSUME NEW H, NEW n \in Nodes \ Sat
    PROVE  Covered(H, n)
BY SpaceTruth DEF Covered, Leaves

(* A covered root leaves no satisfiable leaf out.                          *)
LEMMA CoveredRoot ==
    ASSUME NEW H, Covered(H, Root)
    PROVE  \A l \in Leaves \cap Sat : Up[l] \cap H # {}
BY Paths DEF Covered, Leaves
=============================================================================
