---------------------------- MODULE MCOdooAddon ----------------------------
(* Small instances of OdooAddon for TLC; the .cfg files give the constants. *)
EXTENDS OdooAddon
=============================================================================
