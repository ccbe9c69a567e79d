----------------------------- MODULE MCIsolated -----------------------------
(* The isolated coordinator on the full tree of depth three, with leaf 5   *)
(* satisfiable, and on a tree of three positions.                          *)
EXTENDS IsolatedRound, MCSpace

MC7 == 1 .. 7
MC7Up == MCUp(MC7)
MC7Kids == MCKids(MC7)
MC7Left == MCLeft(MC7)
MC7Sat == MCSat(MC7, {5})
MC7Refutable == {3, 4, 6, 7}

MC3 == 1 .. 3
MC3Up == MCUp(MC3)
MC3Kids == MCKids(MC3)
MC3Left == MCLeft(MC3)
MC3Sat == MCSat(MC3, {3})
=============================================================================
