--------------------------- MODULE MCOdooUpgrade ---------------------------
(* Small instances of OdooUpgrade for TLC. *)
EXTENDS OdooUpgrade

\* Every upgrade names the same instance.
OneInstance == [n \in Names |-> CHOOSE i \in Instances : TRUE]
=============================================================================
