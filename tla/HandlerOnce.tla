---------------------------- MODULE HandlerOnce ----------------------------
(***************************************************************************)
(* What controlled execution promises about the handler of one task,       *)
(* whatever the queue, the workers and the database do:                    *)
(*   - the handler body is entered at most once;                           *)
(*   - the task is declared settled only while no body is inside it;       *)
(*   - a settled task's body is never entered afterwards.                  *)
(* Losing a worker ends its body without settling the task: a task may     *)
(* stay "left" and open for ever, but it is never entered again.           *)
(***************************************************************************)
CONSTANT Task

VARIABLES
  body,   \* where the handler body of each task is
  verdict \* what the ledger says of the task

handlerVars == <<body, verdict>>

HandlerTypeOK ==
  /\ body    \in [Task -> {"fresh", "inside", "left"}]
  /\ verdict \in [Task -> {"open", "settled"}]

Init ==
  /\ body    = [t \in Task |-> "fresh"]
  /\ verdict = [t \in Task |-> "open"]

Enter(t) ==
  /\ body[t] = "fresh"
  /\ verdict[t] = "open"
  /\ body' = [body EXCEPT ![t] = "inside"]
  /\ UNCHANGED verdict

Leave(t) ==
  /\ body[t] = "inside"
  /\ body' = [body EXCEPT ![t] = "left"]
  /\ UNCHANGED verdict

Settle(t) ==
  /\ body[t] # "inside"
  /\ verdict[t] = "open"
  /\ verdict' = [verdict EXCEPT ![t] = "settled"]
  /\ UNCHANGED body

Next == \E t \in Task : Enter(t) \/ Leave(t) \/ Settle(t)

Spec == Init /\ [][Next]_handlerVars
=============================================================================
