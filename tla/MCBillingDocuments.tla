------------------------ MODULE MCBillingDocuments ------------------------
(* BillingDocuments with a name that is used three times: MCBillingDocuments.cfg. *)
EXTENDS BillingDocuments
=============================================================================
