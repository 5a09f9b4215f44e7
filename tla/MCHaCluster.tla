--------------------------- MODULE MCHaCluster ---------------------------
(* Small clusters for the checks of HaCluster. *)
EXTENDS HaCluster
CONSTANTS n1, n2
NoNodes == {}
Symmetry == Permutations(Nodes)
=============================================================================
