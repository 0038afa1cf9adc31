----------------------------- MODULE RunsInTurn -----------------------------
(***************************************************************************)
(* What the runs of one conversation thread promise, whatever users,       *)
(* processes and maintenance do:                                           *)
(*   - a run begins once, and only on a thread that no other run holds;    *)
(*   - it works, in tools or in attached tasks, only while it holds the    *)
(*     thread;                                                             *)
(*   - it ends once, with all of its work done, and never begins again.    *)
(* A run need not end.  The thread may be looked at first while a run that *)
(* has done nothing yet holds it.                                          *)
(***************************************************************************)
CONSTANT Run

VARIABLES
  stage,  \* what became of each run
  working \* whether something that it admitted has not come back

turnVars == <<stage, working>>

TurnTypeOK ==
  /\ stage   \in [Run -> {"new", "open", "closed"}]
  /\ working \in [Run -> BOOLEAN]

Open == {r \in Run : stage[r] = "open"}

Init ==
  /\ \E first \in SUBSET Run :
       /\ \A r, s \in first : r = s
       /\ stage = [r \in Run |-> IF r \in first THEN "open" ELSE "new"]
  /\ working = [r \in Run |-> FALSE]

Begin(r) ==
  /\ stage[r] = "new"
  /\ Open = {}
  /\ stage' = [stage EXCEPT ![r] = "open"]
  /\ UNCHANGED working

\* Work is admitted, or the last of it comes back.
Work(r) ==
  /\ stage[r] = "open"
  /\ working' = [working EXCEPT ![r] = ~@]
  /\ UNCHANGED stage

End(r) ==
  /\ stage[r] = "open"
  /\ ~working[r]
  /\ stage' = [stage EXCEPT ![r] = "closed"]
  /\ UNCHANGED working

Next == \E r \in Run : Begin(r) \/ Work(r) \/ End(r)

Spec == Init /\ [][Next]_turnVars
=============================================================================
