----------------------- MODULE MCResourceOperations -----------------------
(* Model-checking instances of ResourceOperations. *)
EXTENDS ResourceOperations, TLC

Symmetry == Permutations(Operation)
===========================================================================
