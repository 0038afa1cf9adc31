--------------------------- MODULE MCManagedQueue ---------------------------
(* Small instances of controlled managed-queue jobs for TLC. *)
EXTENDS ManagedQueue, TLC

Symmetry == Permutations(Worker) \cup Permutations(Job)
=============================================================================
