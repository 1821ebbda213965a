------------------------ MODULE MCChangeFeedInformer ------------------------
(* Model-checking instances of ChangeFeedInformer. *)
EXTENDS ChangeFeedInformer
=============================================================================
