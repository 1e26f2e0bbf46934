----------------------------- MODULE MCItemCodes -----------------------------
(* Instances of ItemCodes for TLC.                                         *)
EXTENDS ItemCodes
=============================================================================
