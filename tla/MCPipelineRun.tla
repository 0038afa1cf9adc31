---------------------------- MODULE MCPipelineRun ----------------------------
(* Small instances of one pipeline run for TLC. *)
EXTENDS PipelineRun, TLC

CONSTANTS first, second

\* The second node waits for the first.
Chain == [n \in Node |-> IF n = second THEN {first} ELSE {}]

\* The nodes are independent.
Parallel == [n \in Node |-> {}]

WorkerSymmetry == Permutations(Worker)
=============================================================================
