------------------------------ MODULE PipelineRun ------------------------------
(***************************************************************************)
(* One managed pipeline run: rounds of work nodes, the durable operations  *)
(* that the coordinator reserves for them, the leased workers that send    *)
(* and observe the external effects, and the commands that cancel the run, *)
(* retry a node and open the next round.                                   *)
(*                                                                         *)
(*   packages/server-ai/src/xpert-project/pipeline/runtime/                *)
(*     pipeline-operation.store.ts, pipeline-operation-runner.service.ts,  *)
(*     pipeline-operation-observer.service.ts, pipeline-cancellation.ts,   *)
(*     pipeline-coordinator.service.ts, pipeline-round-planner.ts,         *)
(*     pipeline-round.service.ts, pipeline-lifecycle.service.ts,           *)
(*     pipeline-resources.ts, pipeline-retry.ts                            *)
(*                                                                         *)
(* Every store method, command and projection runs in one transaction      *)
(* under the project's row lock, so it is one action.  A worker holds no   *)
(* lock between two of them: claim, dispatch mark, the external call, its  *)
(* answer and the settlement are separate actions.                         *)
(*                                                                         *)
(* The executor is outside: it keeps one effect per operation id, answers  *)
(* inspection with the truth or not at all, and a cancellation that        *)
(* reaches it before the start refuses the start.  A request to it may     *)
(* fail, arrive late or never, a cancellation may be without effect.       *)
(* Abstracted: nextCheckAt (a delay), the revision that orders commands,   *)
(* the run's time limit, the drain switch, host compatibility, and nodes   *)
(* other than work.                                                        *)
(***************************************************************************)
EXTENDS Integers, FiniteSets

CONSTANTS
  Node,      \* the work nodes of the template
  Needs,     \* the nodes whose acceptance each one waits for
  Exclusive, \* the nodes that claim the same resource exclusively
  Bridge,    \* the nodes an assistant executes: its end and its output are two facts
  Worker, NoWorker,
  MaxRound, MaxAttempt, Capacity, \* limits of the template and of its binding
  Faults,    \* bounds the workers that crash or outlive their lease
  Env        \* what users, subjects and templates may do

EnvKinds == {"cancel", "next", "retry", "await"}

ASSUME PipelineAssumption ==
  /\ Needs \in [Node -> SUBSET Node] /\ IsFiniteSet(Node)
  /\ Exclusive \subseteq Node /\ Bridge \subseteq Node
  /\ NoWorker \notin Worker
  /\ MaxRound \in Nat \ {0} /\ MaxAttempt \in Nat \ {0} /\ Capacity \in Nat \ {0}
  /\ Faults \in Nat /\ Env \subseteq EnvKinds

\* The operation of a node of a round, by attempt: its id is derived from the three.
Op == (1 .. MaxRound) \X Node \X (1 .. MaxAttempt)
RoundOf(o) == o[1]
NodeOf(o)  == o[2]

VARIABLES
  run,     \* the state of the run
  round,   \* the generation of its current round
  rs,      \* the state of that round
  moved,   \* the subject has a version newer than the round's
  node,    \* lifecycle and runtime of the current round's nodes
  op,      \* the operation rows
  lease,   \* per operation: the owner of a live lease
  job,     \* per worker: the operation it works on, where it is, and what it was told
  effect,  \* per operation: the external effect
  sent,    \* per operation: how often its execution was requested (history)
  faults   \* how many did

runVars == <<run, round, rs, node, op>>
outside == <<moved, faults>>
plVars  == <<run, round, rs, moved, node, op, lease, job, effect, sent, faults>>

Ended    == {"succeeded", "failed", "cancelled"}
Terminal == {"accepted", "rejected", "failed", "cancelled", "superseded"}
Runnable == {"queued", "dispatching", "pending", "unknown", "succeeded"}
\* Fault: work whose outcome is unknown takes no capacity.
InFlightKnown == {"dispatching", "pending"}

InFlight == {"dispatching", "pending", "unknown"}
Receipt  == {"none", "pending", "unknown"} \cup Ended
Answer   == {"none", "pending", "unknown", "uncollected", "accepted", "rejected"} \cup Ended

NoRow   == [state |-> "none", started |-> FALSE, ended |-> FALSE, claimed |-> FALSE,
            cancel |-> "no", receipt |-> "none"]
Queued  == [NoRow EXCEPT !.state = "queued"]
NewNode == [life |-> "pending", runtime |-> "none"]
Idle    == [at |-> "idle", op |-> NoWorker, got |-> "none"]

\* store.isCurrent()
IsCurrent(o) == RoundOf(o) = round /\ rs = "active" /\ run \in {"active", "waiting"}

\* The rows, the leases and the workers keep their types, and a queued row belongs to the
\* current round of a run that goes on: claim() never has to drop one.
PipelineTypeOK ==
  /\ run \in {"active", "waiting", "cancelling", "cancelled", "completed"}
  /\ round \in 1 .. MaxRound
  /\ rs \in {"active", "awaiting_new_subject", "completed", "cancelled"}
  /\ moved \in BOOLEAN
  /\ node \in [Node -> [life : {"pending", "active", "completed", "failed", "cancelled"},
                        runtime : {"none", "queued", "running", "unknown", "cancelling"} \cup Ended]]
  /\ op \in [Op -> [state : {"none"} \cup Runnable \cup Terminal, started : BOOLEAN, ended : BOOLEAN,
                    claimed : BOOLEAN, cancel : {"no", "asked", "sent"}, receipt : Receipt]]
  /\ lease \in [Op -> Worker \cup {NoWorker}]
  /\ job \in [Worker -> [at : {"idle", "claimed", "send", "cancel", "stop", "look", "evaluate", "settle"},
                         op : Op \cup {NoWorker}, got : Answer]]
  /\ effect \in [Op -> {"none", "running"} \cup Ended]
  /\ sent \in [Op -> 0 .. 2]
  /\ faults \in 0 .. Faults
  /\ \A o \in Op : op[o].state = "queued" => IsCurrent(o)

(***************************************************************************)
(* The coordinator: one bounded reduction of the round                     *)
(***************************************************************************)
Attempts(rows, rd, n) == {o \in Op : RoundOf(o) = rd /\ NodeOf(o) = n /\ rows[o].state # "none"}
NextOp(rows, rd, n)   == <<rd, n, Cardinality(Attempts(rows, rd, n)) + 1>>

\* Work whose dependencies are accepted and that has no runtime yet.
Ready(nd) == {n \in Node : nd[n] = NewNode /\ \A m \in Needs[n] : nd[m].life = "completed"}

\* An effect of another round that may still run takes the whole capacity.
Reserved(rows, rd) ==
  IF \E o \in Op : RoundOf(o) # rd /\ rows[o].state \in InFlight THEN Capacity ELSE 0

Free(rows, rd, nd) ==
  Capacity - Reserved(rows, rd)
    - Cardinality({n \in Node : nd[n].runtime \in {"queued", "running", "cancelling", "unknown"}})

\* The sets of nodes that one pass may start: as many ready ones as the capacity allows.
Plans(rows, rd, nd) ==
  {S \in SUBSET Ready(nd) :
     /\ S = {} \/ Cardinality(S) <= Free(rows, rd, nd)
     /\ S = Ready(nd) \/ Cardinality(S) >= Free(rows, rd, nd)}

\* Reserving counts rows where the plan counts nodes; too many rows roll the transaction back.
Reservable(rows, S) ==
  S = {} \/ Cardinality({o \in Op : rows[o].state \in InFlight \cup {"queued"}}) + Cardinality(S) <= Capacity

AdvanceWithinTransaction(rn, rd, st, nd, rows) ==
  /\ round' = rd
  /\ IF st # "active" \/ rn \notin {"active", "waiting"}
     THEN run' = rn /\ rs' = st /\ node' = nd /\ op' = rows
     ELSE \E S \in Plans(rows, rd, nd) :
       /\ Reservable(rows, S)
       /\ node' = [n \in Node |-> IF n \in S THEN [life |-> "active", runtime |-> "queued"] ELSE nd[n]]
       /\ op' = [o \in Op |-> IF \E n \in S : o = NextOp(rows, rd, n) THEN Queued ELSE rows[o]]
       /\ IF \A n \in Node : nd[n].life = "completed"
          THEN IF "await" \in Env THEN run' = "waiting" /\ rs' = "awaiting_new_subject"
                                  ELSE run' = "completed" /\ rs' = "completed"
          ELSE run' = rn /\ rs' = st

PipelineInit ==
  \E S \in SUBSET Node :
    LET fresh == [n \in Node |-> NewNode] none == [o \in Op |-> NoRow] IN
    /\ S \in Plans(none, 1, fresh)
    /\ run = "active" /\ round = 1 /\ rs = "active" /\ moved = FALSE
    /\ node = [n \in Node |-> IF n \in S THEN [life |-> "active", runtime |-> "queued"] ELSE NewNode]
    /\ op = [o \in Op |-> IF \E n \in S : o = <<1, n, 1>> THEN Queued ELSE NoRow]
    /\ lease = [o \in Op |-> NoWorker]
    /\ job = [w \in Worker |-> Idle]
    /\ effect = [o \in Op |-> "none"]
    /\ sent = [o \in Op |-> 0]
    /\ faults = 0

(***************************************************************************)
(* Workers                                                                 *)
(***************************************************************************)
Owns(w) == job[w].op \in Op /\ lease[job[w].op] = w

Goto(w, at)        == job' = [job EXCEPT ![w].at = at]
Told(w, got)       == job' = [job EXCEPT ![w].at = "settle", ![w].got = got]
Leave(w)           == job' = [job EXCEPT ![w] = Idle]
Row(o, row)        == op' = [op EXCEPT ![o] = row]

\* Fault: the resource is free again when the lease runs out.
ResourcesLeased(o) ==
  /\ NodeOf(o) \in Exclusive
  /\ \E p \in Op \ {o} : NodeOf(p) \in Exclusive /\ lease[p] # NoWorker

\* Another operation that claimed the resource has no confirmed end yet.
ResourcesBlock(o) ==
  /\ NodeOf(o) \in Exclusive
  /\ \E p \in Op \ {o} : NodeOf(p) \in Exclusive /\ op[p].claimed /\ ~op[p].ended

\* Fault: a recovered lease repeats the call of a dispatch that left no answer.
ModeResend(o) ==
  IF op[o].cancel = "asked" THEN "cancel"
  ELSE IF op[o].state = "queued" THEN "claimed"
  ELSE IF op[o].state = "dispatching" /\ op[o].started THEN "send"
  ELSE IF IsCurrent(o) /\ op[o].state = "succeeded" THEN "evaluate"
  ELSE "look"

\* Fault: cancellation is never passed on to the executor.
ModeDeaf(o) ==
  IF op[o].state = "queued" THEN "claimed"
  ELSE IF IsCurrent(o) /\ op[o].state = "succeeded" THEN "evaluate"
  ELSE "look"

\* What the lease is for: a cancellation first, then the only dispatch, then reading.
Mode(o) ==
  IF op[o].cancel = "asked" THEN "cancel"
  ELSE IF op[o].state = "queued" THEN "claimed"
  ELSE IF IsCurrent(o) /\ op[o].state = "succeeded" THEN "evaluate"
  ELSE "look"

Claim(w, o) ==
  /\ job[w] = Idle
  /\ op[o].state \in Runnable /\ lease[o] = NoWorker
  /\ Mode(o) = "claimed" => ~ResourcesBlock(o)
  /\ Row(o, [op[o] EXCEPT !.claimed = TRUE,
                          !.state = IF Mode(o) = "claimed" THEN "dispatching"
                                    ELSE IF Mode(o) = "look" /\ @ = "dispatching" THEN "unknown"
                                    ELSE @])
  /\ lease' = [lease EXCEPT ![o] = w]
  /\ job' = [job EXCEPT ![w] = [at |-> Mode(o), op |-> o, got |-> "none"]]
  /\ UNCHANGED <<run, round, rs, node, outside, effect, sent>>

\* The last fence before the effect.
MayDispatch(w) ==
  LET o == job[w].op IN
  Owns(w) /\ op[o].state = "dispatching" /\ ~op[o].started /\ IsCurrent(o)

BeginDispatch(w) ==
  LET o == job[w].op IN
  /\ job[w].at = "claimed"
  /\ MayDispatch(w)
  /\ Row(o, [op[o] EXCEPT !.started = TRUE])
  /\ Goto(w, "send")
  /\ UNCHANGED <<run, round, rs, node, outside, lease, effect, sent>>

\* Refused: a service's worker leaves without a word, an assistant's reports the unknown.
DispatchRefused(w) ==
  /\ job[w].at = "claimed"
  /\ ~MayDispatch(w)
  /\ IF NodeOf(job[w].op) \in Bridge THEN Told(w, "unknown") ELSE Leave(w)
  /\ UNCHANGED <<runVars, outside, lease, effect, sent>>

\* The subject was read again before the mark, and has moved: nothing is sent.
SubjectSuperseded(w) ==
  /\ job[w].at = "claimed"
  /\ moved \/ RoundOf(job[w].op) # round
  /\ Told(w, "unknown")
  /\ UNCHANGED <<runVars, outside, lease, effect, sent>>

\* handler.execute: the request may go out long after the lease expired.  If it throws,
\* the worker reads no answer, and nobody knows whether the request will Arrive.
Send(w) ==
  LET o == job[w].op IN
  /\ job[w].at = "send"
  /\ sent[o] < 2
  /\ sent' = [sent EXCEPT ![o] = @ + 1]
  /\ Goto(w, "look")
  /\ UNCHANGED <<runVars, outside, lease, effect>>

MayCancel(w) == LET o == job[w].op IN Owns(w) /\ op[o].cancel = "asked"

BeginCancel(w) ==
  LET o == job[w].op IN
  /\ job[w].at = "cancel"
  /\ IF MayCancel(w) THEN Row(o, [op[o] EXCEPT !.cancel = "sent"]) /\ Goto(w, "stop")
                     ELSE Leave(w) /\ UNCHANGED op
  /\ UNCHANGED <<run, round, rs, node, outside, lease, effect, sent>>

\* handler.cancel: a running effect ends, a start that has not arrived is refused from
\* then on; or the call throws or is without effect.
Stop(w) ==
  LET o == job[w].op IN
  /\ job[w].at = "stop"
  /\ \E e \in {effect[o], "cancelled"} :
       /\ effect[o] \in Ended => e = effect[o]
       /\ effect' = [effect EXCEPT ![o] = e]
  /\ Goto(w, "look")
  /\ UNCHANGED <<runVars, outside, lease, sent>>

\* What the executor, the collection of outputs and the evaluator may answer.
Answers(o) ==
  {"unknown"} \cup
  CASE effect[o] = "none"      -> {}
    [] effect[o] = "running"   -> {"pending"}
    [] effect[o] = "succeeded" ->
         {"succeeded"} \cup (IF NodeOf(o) \in Bridge THEN {"uncollected"} ELSE {})
           \cup (IF IsCurrent(o) /\ ~moved THEN {"accepted", "rejected"} ELSE {})
    [] OTHER -> {effect[o]}

Look(w) ==
  /\ job[w].at = "look"
  /\ \E a \in Answers(job[w].op) : Told(w, a)
  /\ UNCHANGED <<runVars, outside, lease, effect, sent>>

\* A stored success is only evaluated; an evaluator that cannot answer leaves it pending.
Evaluate(w) ==
  /\ job[w].at = "evaluate"
  /\ \E a \in {"succeeded"} \cup (IF moved THEN {} ELSE {"accepted", "rejected"}) : Told(w, a)
  /\ UNCHANGED <<runVars, outside, lease, effect, sent>>

ReceiptOf(a) == IF a \in {"accepted", "rejected"} THEN "succeeded" ELSE IF a = "uncollected" THEN "unknown" ELSE a

ConfirmsEnd(a) == a \in Ended \cup {"accepted", "rejected", "uncollected"}

\* The row after a settlement.  A superseded operation gets no business outcome, but its
\* effect stays open until its end is confirmed.
Observed(o, a) ==
  LET ended == op[o].ended \/ ConfirmsEnd(a) IN
  [op[o] EXCEPT !.receipt = ReceiptOf(a), !.ended = ended,
     !.state = IF IsCurrent(o) THEN IF a \in {"accepted", "rejected"} THEN a ELSE ReceiptOf(a)
               ELSE IF ~ended /\ ReceiptOf(a) \in {"pending", "unknown"} THEN ReceiptOf(a)
               ELSE "superseded"]

\* Fault: the status of the receipt is shown as it came.
RuntimeRaw(a) == a

RuntimeOf(a) ==
  CASE a \in {"accepted", "rejected", "uncollected"} -> "succeeded"
    [] a = "pending" -> "running"
    [] OTHER -> a

\* Projection of an observation onto the node of a current operation.
Applied(o, a) ==
  [node EXCEPT ![NodeOf(o)] =
     [life |-> CASE a = "accepted" -> "completed"
                 [] a = "cancelled" -> "cancelled"
                 [] a \in {"failed", "rejected"} -> "failed"
                 [] OTHER -> "active",
      runtime |-> RuntimeOf(a)]]

\* Of a superseded operation only a confirmed end reaches its node.
Historical(o, a) ==
  IF RoundOf(o) = round THEN [node EXCEPT ![NodeOf(o)].runtime = RuntimeOf(a)] ELSE node

\* Fault: an operation whose outcome is unknown no longer holds the cancellation.
UnresolvedKnown(rows) == \E o \in Op : rows[o].state \in Runnable \ {"unknown"}

Unresolved(rows) == \E o \in Op : rows[o].state \in Runnable

CancelledNodes(nd) ==
  [n \in Node |-> IF nd[n].life \in {"completed", "failed"} THEN nd[n]
                  ELSE [life |-> "cancelled",
                        runtime |-> IF nd[n].runtime = "cancelling" THEN "cancelled" ELSE nd[n].runtime]]

\* Fault: a confirmed end of an earlier round wakes nobody.
FinishOnly(nd, rows) ==
  IF run = "cancelling" /\ ~Unresolved(rows)
  THEN /\ run' = "cancelled" /\ rs' = "cancelled"
       /\ node' = CancelledNodes(nd) /\ op' = rows /\ UNCHANGED round
  ELSE /\ node' = nd /\ op' = rows /\ UNCHANGED <<run, round, rs>>

\* finishPipelineCancellation(), then the coordinator, which has nothing to do in a run that ends.
FinishOrAdvance(nd, rows) ==
  IF run = "cancelling" /\ ~Unresolved(rows)
  THEN /\ run' = "cancelled" /\ rs' = "cancelled"
       /\ node' = CancelledNodes(nd) /\ op' = rows /\ UNCHANGED round
  ELSE AdvanceWithinTransaction(run, round, rs, nd, rows)

\* The stored success may not be replaced by anything else.
Immutable(o, a) == op[o].receipt = "succeeded" /\ ReceiptOf(a) # "succeeded"

MaySettle(w) ==
  LET o == job[w].op IN
  Owns(w) /\ op[o].state \notin Terminal /\ ~Immutable(o, job[w].got)

Settle(w) ==
  LET o == job[w].op  a == job[w].got  rows == [op EXCEPT ![o] = Observed(o, a)] IN
  /\ job[w].at = "settle"
  /\ MaySettle(w)
  /\ IF IsCurrent(o) THEN AdvanceWithinTransaction(run, round, rs, Applied(o, a), rows)
     ELSE IF ConfirmsEnd(a) THEN FinishOrAdvance(Historical(o, a), rows)
     ELSE op' = rows /\ UNCHANGED <<run, round, rs, node>>
  /\ lease' = [lease EXCEPT ![o] = NoWorker]
  /\ Leave(w)
  /\ UNCHANGED <<outside, effect, sent>>

\* More work is planned than its rows allow: reserve() throws.
RollsBack(w) ==
  LET o == job[w].op  a == job[w].got
      nd == IF IsCurrent(o) THEN Applied(o, a) ELSE Historical(o, a)
      rows == [op EXCEPT ![o] = Observed(o, a)] IN
  /\ rs = "active" /\ run \in {"active", "waiting"}
  /\ IsCurrent(o) \/ ConfirmsEnd(a)
  /\ \A S \in Plans(rows, round, nd) : ~Reservable(rows, S)

\* Stale, contradicted or rolled back: nothing is written, and a lease still held runs out.
SettleRefused(w) ==
  /\ job[w].at = "settle"
  /\ ~MaySettle(w) \/ RollsBack(w)
  /\ Leave(w)
  /\ UNCHANGED <<runVars, outside, lease, effect, sent>>

(***************************************************************************)
(* Commands                                                                *)
(***************************************************************************)
\* Fault: whatever runs is recorded as cancelled at once.
CancelledOutright(o) ==
  IF op[o].state \notin Runnable THEN op[o]
  ELSE [op[o] EXCEPT !.cancel = "asked", !.state = "cancelled", !.receipt = "cancelled", !.ended = TRUE]

\* Work that was not sent is cancelled on the spot and fenced; work that was sent is
\* asked to stop and holds the run in cancelling until its end is confirmed.  The command
\* may be repeated.
CancelledRow(o) ==
  LET r == op[o] IN
  IF r.state \notin Runnable THEN r
  ELSE IF ~r.started
  THEN [r EXCEPT !.cancel = IF @ = "no" THEN "asked" ELSE @,
                 !.state = IF r.ended THEN "superseded" ELSE "cancelled",
                 !.receipt = "cancelled", !.ended = TRUE]
  ELSE [r EXCEPT !.cancel = IF @ = "no" THEN "asked" ELSE @,
                 !.state = IF r.ended THEN "superseded" ELSE @]

Cancel ==
  /\ "cancel" \in Env
  /\ run \in {"active", "waiting", "cancelling"}
  /\ LET rows == [o \in Op |-> CancelledRow(o)]
         open(n) == \E o \in Op : NodeOf(o) = n /\ RoundOf(o) = round /\ rows[o].state \in Runnable
         nd == [n \in Node |->
                  IF node[n].life \in {"completed", "failed"} THEN node[n]
                  ELSE IF open(n) THEN [life |-> "active", runtime |-> "cancelling"]
                  ELSE [life |-> "cancelled",
                        runtime |-> IF node[n].runtime = "queued" THEN "cancelled" ELSE node[n].runtime]]
     IN /\ op' = rows
        /\ lease' = [o \in Op |-> IF op[o].state \in Runnable /\ rows[o].state \in Terminal
                                  THEN NoWorker ELSE lease[o]]
        /\ IF Unresolved(rows) THEN run' = "cancelling" /\ node' = nd /\ UNCHANGED rs
           ELSE run' = "cancelled" /\ rs' = "cancelled" /\ node' = CancelledNodes(nd)
  /\ UNCHANGED <<round, outside, job, effect, sent>>

\* Only a failure that the executor confirmed may be attempted again.
Retry(n) ==
  LET attempts == Attempts(op, round, n) IN
  /\ "retry" \in Env
  /\ run \in {"active", "waiting"} /\ rs = "active"
  /\ node[n].life = "failed"
  /\ \E o \in attempts :
       /\ o[3] = Cardinality(attempts)
       /\ op[o].state = "failed" /\ op[o].receipt = "failed" /\ op[o].ended
  /\ Cardinality(attempts) < MaxAttempt
  /\ AdvanceWithinTransaction(run, round, rs, [node EXCEPT ![n] = NewNode], op)
  /\ UNCHANGED <<outside, lease, job, effect, sent>>

\* A new version of the subject opens a new round; what was not claimed is dropped.
NextRound ==
  /\ "next" \in Env
  /\ run \in {"active", "waiting"} /\ rs \in {"active", "awaiting_new_subject"}
  /\ moved /\ round < MaxRound
  /\ LET rows == [o \in Op |-> IF RoundOf(o) = round /\ op[o].state = "queued"
                               THEN [op[o] EXCEPT !.state = "superseded"] ELSE op[o]]
     IN AdvanceWithinTransaction("active", round + 1, "active", [n \in Node |-> NewNode], rows)
  /\ moved' = FALSE
  /\ UNCHANGED <<lease, job, effect, sent, faults>>

(***************************************************************************)
(* The world outside                                                       *)
(***************************************************************************)
MoveSubject ==
  /\ "next" \in Env /\ ~moved /\ round < MaxRound
  /\ moved' = TRUE
  /\ UNCHANGED <<runVars, lease, job, effect, sent, faults>>

\* A requested execution reaches the executor, which has not refused it.
Arrive(o) ==
  /\ sent[o] > 0 /\ effect[o] = "none"
  /\ effect' = [effect EXCEPT ![o] = "running"]
  /\ UNCHANGED <<runVars, outside, lease, job, sent>>

EndEffect(o) ==
  /\ effect[o] = "running"
  /\ \E e \in {"succeeded", "failed"} : effect' = [effect EXCEPT ![o] = e]
  /\ UNCHANGED <<runVars, outside, lease, job, sent>>

\* Fault: only a lease whose dispatch was never marked runs out.
ExpireUnstarted(o) ==
  /\ lease[o] # NoWorker /\ ~op[o].started
  /\ job[lease[o]].op # o
  /\ lease' = [lease EXCEPT ![o] = NoWorker]
  /\ UNCHANGED <<runVars, outside, job, effect, sent>>

\* A lease that nobody works under runs out; it may also run out under a slow worker.
Expire(o) ==
  /\ lease[o] # NoWorker
  /\ job[lease[o]].op # o
  /\ lease' = [lease EXCEPT ![o] = NoWorker]
  /\ UNCHANGED <<runVars, outside, job, effect, sent>>

Overrun(o) ==
  /\ faults < Faults
  /\ lease[o] # NoWorker /\ job[lease[o]].op = o
  /\ faults' = faults + 1
  /\ lease' = [lease EXCEPT ![o] = NoWorker]
  /\ UNCHANGED <<runVars, moved, job, effect, sent>>

Crash(w) ==
  /\ faults < Faults /\ job[w] # Idle
  /\ faults' = faults + 1
  /\ Leave(w)
  /\ UNCHANGED <<runVars, moved, lease, effect, sent>>

Work(w) ==
  \/ BeginDispatch(w) \/ DispatchRefused(w) \/ SubjectSuperseded(w) \/ Send(w)
  \/ BeginCancel(w) \/ Stop(w) \/ Look(w) \/ Evaluate(w) \/ Settle(w) \/ SettleRefused(w)

PipelineNext ==
  \/ \E w \in Worker : Work(w) \/ Crash(w) \/ \E o \in Op : Claim(w, o)
  \/ \E o \in Op : Arrive(o) \/ EndEffect(o) \/ Expire(o) \/ Overrun(o)
  \/ \E n \in Node : Retry(n)
  \/ Cancel \/ NextRound \/ MoveSubject

PipelineSpec == PipelineInit /\ [][PipelineNext]_plVars

(***************************************************************************)
(* Fairness                                                                *)
(***************************************************************************)
\* Workers run, the recovery scan pages through every due row, leases run out, effects
\* end, and an executor that is asked again and again answers with the outcome.
Learn(w, o) == job[w].op = o /\ Look(w) /\ job'[w].got \in Ended \cup {"accepted", "rejected"}

PipelineFairness ==
  /\ \A w \in Worker : WF_plVars(Work(w))
  /\ \A o \in Op : /\ SF_plVars(\E w \in Worker : Claim(w, o))
                   /\ SF_plVars(\E w \in Worker : Learn(w, o))
                   /\ WF_plVars(EndEffect(o)) /\ WF_plVars(Expire(o))

FairPipelineSpec == PipelineSpec /\ PipelineFairness

(***************************************************************************)
(* Properties                                                              *)
(***************************************************************************)
Running == {o \in Op : effect[o] = "running"}

\* However leases change hands, the execution of an operation is requested at most once,
\* and only under its dispatch mark: claim() turns a lost dispatch into observation.
DispatchedAtMostOnce == \A o \in Op : sent[o] <= 1 /\ (sent[o] = 1 => op[o].started)

\* The effects that really run, those of superseded rounds and of slow workers included,
\* never exceed maxConcurrentExecutions.
CapacityRespected == Cardinality(Running) <= Capacity

\* Two effects that claim the same resource exclusively never run at the same time,
\* though the lease of the first may be long gone.
ResourceHeldOnce == Cardinality({o \in Running : NodeOf(o) \in Exclusive}) <= 1

\* A run that reads cancelled has no effect that runs, and none can start any more: not
\* from a worker that is about to send, nor from a request that is under way.
CancelledRunIsQuiet ==
  run = "cancelled" =>
    /\ Running = {}
    /\ \A o \in Op : op[o].state \notin Runnable
    /\ \A o \in Op : sent[o] > 0 => effect[o] # "none"
    /\ \A w \in Worker : job[w].at = "send" => effect[job[w].op] # "none"

\* What a row records of its effect is what happened: outcomes agree with the effect, a
\* confirmed end is an end, and what was never sent has no effect at all.
OutcomeIsTruth ==
  \A o \in Op :
    /\ op[o].state = "accepted" => effect[o] = "succeeded"
    /\ op[o].state = "failed" => effect[o] = "failed"
    /\ op[o].state = "cancelled" => effect[o] = IF op[o].started THEN "cancelled" ELSE "none"
    /\ op[o].ended /\ op[o].started => effect[o] \in Ended
    /\ ~op[o].started => effect[o] = "none"

\* An operation superseded after its end was known and its output was not.
LostOutput(o) ==
  op[o].state = "superseded" /\ op[o].started /\ op[o].ended /\ op[o].receipt = "unknown"

\* No transaction leaves work that the coordinator could start: capacity that an end gives
\* back reaches the waiting node, in this round or the next.  The one exception is the
\* operation of an earlier round whose output was lost: settle() ends it without a pass.
NothingLeftUnplanned ==
  run \in {"active", "waiting"} /\ rs = "active" =>
    (\E o \in Op : LostOutput(o)) \/ \A S \in Plans(op, round, node) : S = {}

\* An operation that no call has reached: the execution was never received, the one
\* cancellation that beginCancel() lets out neither, and nobody is about to send either.
Unreached(o) ==
  /\ op[o].started /\ op[o].cancel = "sent" /\ effect[o] = "none"
  /\ \A w \in Worker : job[w].at \in {"send", "stop"} => job[w].op # o

\* Every cancellation completes: unsent work at once, sent work when its end is confirmed,
\* also when its cancellation was lost, and a dispatch that never left its worker because
\* the executor refuses it from then on.  The one exception is a run with an operation
\* whose execution and whose cancellation are both lost for good: nothing repeats either.
CancellationCompletes ==
  run = "cancelling" ~> run = "cancelled" \/ \E o \in Op : []Unreached(o)

\* Every effect that ended is eventually recorded as ended, whoever held its lease.
EndIsObserved == \A o \in Op : effect[o] \in Ended ~> op[o].ended
=============================================================================
