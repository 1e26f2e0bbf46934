---------------------------- MODULE MCItemEditing ----------------------------
(* Instances of ItemEditing for TLC.                                       *)
EXTENDS ItemEditing, TLC

\* Windows and texts appear only in quantifiers, as indices and as values.
EditSymmetry == Permutations(Windows) \union Permutations(Texts)
=============================================================================
