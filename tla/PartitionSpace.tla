--------------------------- MODULE PartitionSpace ---------------------------
(***************************************************************************)
(* The space of subproblems one partitioner process can ever create.       *)
(*                                                                         *)
(* The partitioner splits a subproblem into two (split_node,               *)
(* subpaving_t_def.h:3534); the pair of bounds it adds are complementary,  *)
(* so the two children cover their parent.  A node of the model is a       *)
(* position of that binary tree; it stands for the node id the C++ code    *)
(* hands out, which the Python side calls pid.  The constants fix one      *)
(* possible tree and say which of its subproblems are satisfiable; which   *)
(* part of it is ever created is up to the actions.                        *)
(***************************************************************************)
EXTENDS Naturals, FiniteSets

CONSTANTS
    Nodes,      \* positions of the tree
    Root,       \* the formula the round was started on
    Up,         \* Up[n]: n and its ancestors
    Kids,       \* Kids[n]: the two halves of n, or {} when n has no split variable
    LeftKids,   \* the nodes split_node creates first, with the smaller id
    Sat         \* the satisfiable subproblems

(* The shape mk_node gives the tree: every node but the root is one half   *)
(* of one parent and lies below all of that parent's ancestors.            *)
ASSUME SpaceShape ==
    /\ IsFiniteSet(Nodes)
    /\ Root \in Nodes
    /\ Up \in [Nodes -> SUBSET Nodes]
    /\ Kids \in [Nodes -> SUBSET Nodes]
    /\ LeftKids \subseteq Nodes
    /\ Up[Root] = {Root}
    /\ \A n \in Nodes : \A k \in Kids[n] : k \notin Up[n] /\ Up[k] = Up[n] \cup {k}
    /\ \A n \in Nodes \ {Root} : \E p \in Nodes :
          n \in Kids[p] /\ \A q \in Nodes : n \in Kids[q] => q = p
    /\ \A n \in Nodes : Kids[n] # {} =>
          \E l, r \in Nodes : Kids[n] = {l, r} /\ l \in LeftKids /\ r \notin LeftKids

(* A satisfiable node makes its ancestors satisfiable, and a split loses   *)
(* no solution: one of the halves of a satisfiable node is satisfiable.    *)
ASSUME SpaceTruth ==
    /\ Sat \subseteq Nodes
    /\ \A n \in Sat : Up[n] \subseteq Sat
    /\ \A n \in Sat : Kids[n] # {} => Kids[n] \cap Sat # {}

Above(n) == Up[n] \ {n}
Below(n) == {d \in Nodes : n \in Above(d)}
Leaves == {n \in Nodes : Kids[n] = {}}
Depth(n) == Cardinality(Up[n])
ParentOf(n) == {p \in Nodes : n \in Kids[p]}
=============================================================================
