----------------------------- MODULE MCCluster ------------------------------
(* One or two candidate points; p1 is the solution.                        *)
EXTENDS Cluster

CONSTANTS p1, p2

=============================================================================
