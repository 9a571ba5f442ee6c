------------------------- MODULE MC_OperatorCatalog -------------------------
(* The installation of the operator script; the script has no constants.   *)
EXTENDS OperatorCatalog
=============================================================================
