-------------------------- MODULE MCProviderAction --------------------------
(* Commands of one node, for TLC. *)
EXTENDS ProviderAction, TLC

\* Actions, workers and call keys are interchangeable (used without liveness).
NodeSymmetry == Permutations(Action) \cup Permutations(Worker) \cup Permutations(Call)
=============================================================================
