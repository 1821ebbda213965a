------------------------- MODULE MCAdminCredentials -------------------------
(* Model-checking instances of AdminCredentials. *)
EXTENDS AdminCredentials
=============================================================================
