---------------------------- MODULE MCBatchImage ----------------------------
(* Small instances of BatchImage for TLC. *)
EXTENDS BatchImage, TLC

Symmetry == Permutations(Workers)
=============================================================================
