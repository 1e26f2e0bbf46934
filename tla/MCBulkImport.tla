----------------------------- MODULE MCBulkImport -----------------------------
(* Instances of BulkImport for TLC. *)
EXTENDS BulkImport, TLC

\* Requests and tokens appear only in quantifiers and as indices.
RequestSymmetry == Permutations(Requests) \union Permutations(Previews)
===============================================================================
