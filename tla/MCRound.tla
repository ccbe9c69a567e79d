------------------------------ MODULE MCRound -------------------------------
(* Instances of the round: trees of five, seven and nine positions in      *)
(* heap numbering.                                                         *)
EXTENDS CoordinatorRound, MCSpace

MC5 == 1 .. 5
MC5Up == MCUp(MC5)
MC5Kids == MCKids(MC5)
MC5Left == MCLeft(MC5)
MC5Sat == MCSat(MC5, {5})
MC5Refutable == MC5 \ MC5Sat

(* Nine positions along one path, all unsatisfiable: the nodes beside the  *)
(* path and both ends of it can be refuted by propagation.                 *)
MC9 == {1, 2, 3, 4, 5, 8, 9, 16, 17}
MC9Up == MCUp(MC9)
MC9Kids == MCKids(MC9)
MC9Left == MCLeft(MC9)
MC9Refutable == {3, 5, 9, 16, 17}

(* Seven positions, one leaf three splits deep: a mark can be pushed down  *)
(* two levels while the satisfiable half of the root stays open.           *)
MCDeep == {1, 2, 3, 4, 5, 8, 9}
MCDeepUp == MCUp(MCDeep)
MCDeepKids == MCKids(MCDeep)
MCDeepLeft == MCLeft(MCDeep)
MCDeepSat == MCSat(MCDeep, {3})
MCDeepRefutable == {4, 8}
MCDeepGivenUp == {1, 3}
=============================================================================
