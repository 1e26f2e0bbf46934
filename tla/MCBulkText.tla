----------------------------- MODULE MCBulkText -----------------------------
(***************************************************************************)
(* Every text of up to six lines over two names, blank lines and lines     *)
(* that are not valid: up to three blocks, blocks of up to six lines, a    *)
(* name in several blocks, and every set of names that exist before.       *)
(***************************************************************************)
EXTENDS BulkText, TLC

NameSymmetry == Permutations(Names)
=============================================================================
