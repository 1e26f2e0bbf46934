------------------------------ MODULE MCCatalog ------------------------------
(* Instances of Catalog for TLC.                                           *)
EXTENDS Catalog, TLC

\* Requests appear only in quantifiers and as indices.
RequestSymmetry == Permutations(Requests)
=============================================================================
