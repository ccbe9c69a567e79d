-------------------------- MODULE MCPartitionerOpen -------------------------
(* Seven positions, all unsatisfiable: propagation may refute any of them.                        *)
EXTENDS PartitionerOpen, MCSpace

MCNodes == 1 .. 7
MCUpC == MCUp(MCNodes)
MCKidsC == MCKids(MCNodes)
MCLeftC == MCLeft(MCNodes)
MCSatC == MCSat(MCNodes, {})
MCRefutable == MCNodes \ MCSatC
=============================================================================
