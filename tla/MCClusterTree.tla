--------------------------- MODULE MCClusterTree ---------------------------
(* ClusterTree with a name that is used twice: MCClusterTree.cfg. *)
EXTENDS ClusterTree
=============================================================================
