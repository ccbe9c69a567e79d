------------------------------ MODULE MCSpace -------------------------------
(* Small binary trees in heap numbering for the model-checking modules:    *)
(* the halves of n are 2n and 2n+1, node 1 is the root.                    *)
EXTENDS Naturals, FiniteSets

MCUp(S) ==
    LET up[n \in 1 .. 31] == IF n = 1 THEN {1} ELSE {n} \cup up[n \div 2]
    IN  [n \in S |-> up[n]]
MCKids(S) == [n \in S |-> {2 * n, 2 * n + 1} \cap S]
MCLeft(S) == {n \in S : n % 2 = 0}
(* The satisfiable nodes when exactly the leaves in L are satisfiable.     *)
MCSat(S, L) == UNION {MCUp(S)[l] : l \in L}
=============================================================================
