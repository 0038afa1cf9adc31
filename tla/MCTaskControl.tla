---------------------------- MODULE MCTaskControl ----------------------------
(* Small instances of the task ledger for TLC. *)
EXTENDS TaskControl, TLC

Symmetry == Permutations(Task) \cup Permutations(Token) \cup Permutations(Attempt)

\* Bounds the instance, not the code: no task asks to be drained on pause and at
\* most one has a publication.  With three tasks registered only the columns that
\* control reads are in use, at most one task is ever claimed, and only that one
\* has a receipt other than its completion.
FamilyOrRows ==
  /\ \A t \in Task : ~entry[t].drain
  /\ \A t, u \in Task : outbox[t] # "none" /\ outbox[u] # "none" => t = u
  /\ \/ \E t \in Task : ~Registered(t)
     \/ /\ Cardinality(admitted) <= 1
        /\ \A t \in Task : attempts[t] = {} /\ outbox[t] = "none"
        /\ \A t \in Task : state[t] \in {"queued", "completed"} \/ t \in admitted
=============================================================================
