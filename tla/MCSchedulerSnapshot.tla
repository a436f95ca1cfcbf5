------------------------ MODULE MCSchedulerSnapshot ------------------------
(* Small instances of SchedulerSnapshot for TLC. *)
EXTENDS SchedulerSnapshot, TLC

Symmetry == Permutations(Writers)
=============================================================================
