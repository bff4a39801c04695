--------------------------- MODULE MCOdooInstance ---------------------------
(* Small instances of OdooInstance for TLC; the .cfg files give the constants. *)
EXTENDS OdooInstance
=============================================================================
