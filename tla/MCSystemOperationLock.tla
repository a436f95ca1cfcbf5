------------------------ MODULE MCSystemOperationLock ------------------------
(* Small instances of SystemOperationLock for TLC. *)
EXTENDS SystemOperationLock, TLC

\* Every operation has its own id, as buildSystemOperationID gives it without a key; a
\* later attempt of the same operation is a retry with its key.
OwnId == [o \in Ops |-> o]

Symmetry == Permutations(Ops)
=============================================================================
