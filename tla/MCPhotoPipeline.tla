--------------------------- MODULE MCPhotoPipeline ---------------------------
(* Instances of PhotoPipeline for TLC. *)
EXTENDS PhotoPipeline, TLC

\* Workers run the same code and appear only in quantifiers.
WorkerSymmetry == Permutations(Workers)
=============================================================================
