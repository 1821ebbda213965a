---------------------- MODULE MCClusterServiceBinding ----------------------
(* Model-checking instances of ClusterServiceBinding. *)
EXTENDS ClusterServiceBinding, TLC

Symmetry == Permutations(ID)
============================================================================
