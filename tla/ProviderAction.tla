---------------------------- MODULE ProviderAction ----------------------------
(***************************************************************************)
(* The provider actions of one pipeline node: commands that a user submits *)
(* and the external provider carries out, with the native executions that  *)
(* it starts for them.                                                     *)
(*                                                                         *)
(*   packages/server-ai/src/xpert-project/pipeline/                        *)
(*     provider-actions/provider-action.store.ts                           *)
(*     provider-actions/provider-actions.service.ts                        *)
(*     provider-actions/provider-action-worker.service.ts                  *)
(*     runtime/pipeline-native-grant.handler.ts, ...-grant-target.ts       *)
(*                                                                         *)
(* A store method is one transaction under the project lock.  A worker is  *)
(* one call of run(): its uuid owns the lease it claimed, and a slot takes *)
(* a new call only when no lease carries its name, as no uuid comes twice. *)
(* executeAction outlives the 20 seconds that its worker waits for it.     *)
(*                                                                         *)
(* The provider is outside and nothing is assumed of what it says: it may  *)
(* answer anything at any time, and start native executions, each through  *)
(* a grant of its own, for as long as the grants let it.                   *)
(* Abstracted: nextCheckAt, the drain switch, host compatibility, receipt  *)
(* keys and reasons, deleted grants and the content of the projection.     *)
(***************************************************************************)
EXTENDS Naturals, FiniteSets

CONSTANTS
  Action,           \* the actions submitted for the node: ids derived from request ids
  Worker, NoWorker, \* calls of run(), and a null leaseOwner
  Call,             \* the call keys under which an action asks for native executions
  Faults            \* bounds the workers that die or outlive their lease

ASSUME ActionAssumption == NoWorker \notin Worker /\ Faults \in Nat

VARIABLES
  row,     \* state of each action's row; "absent" while there is none
  source,  \* the lease that the dispatch mark was set under and the provider was handed
  pending, \* the actions with projectionPending
  receipt, \* the last receipt's status
  lease,   \* the owner of a live lease
  stale,   \* of the actions not yet begun, those reserved for a revision that is gone
  open,    \* the round is active, and so is its run
  slot,    \* per worker: where it is, the action it works on, what it was told
  native,  \* the grant of each call key and the execution that it allowed
  shown,   \* what the node's synchronizations gave since the last new receipt (history)
  said,    \* the ends the provider has declared, since the call if there is one (history)
  faults   \* failures that have happened

rowVars    == <<row, source, pending, receipt, lease>>
sourceVars == <<stale, open>>
history    == <<shown, said>>
actionVars == <<rowVars, sourceVars, slot, native, history, faults>>

Final    == {"succeeded", "failed"}
Status   == {"pending", "unknown"} \cup Final
RowState == Status \cup {"queued", "dispatching", "superseded"}
Place    == {"idle", "execute", "calling", "inspect", "told", "project", "projected"}
Granted  == {"none", "prepared", "consumed", "running", "over"}

Idle == [at |-> "idle", on |-> NoWorker, got |-> "unknown"]

\* The columns of the row, the workers' locals and the provider's world.
ActionTypeOK ==
  /\ row \in [Action -> RowState \cup {"absent"}]
  /\ source \in [Action -> Worker \cup {NoWorker}] /\ lease \in [Action -> Worker \cup {NoWorker}]
  /\ pending \subseteq Action /\ stale \subseteq Action
  /\ receipt \in [Action -> Status \cup {"none"}]
  /\ open \in BOOLEAN
  /\ slot \in [Worker -> [at : Place, on : Action \cup {NoWorker}, got : Status]]
  /\ native \in [Action -> [Call -> Granted]]
  /\ shown \in [Action -> {"no", "missing", "yes"}]
  /\ said \in [Action -> SUBSET Final]
  /\ faults \in 0 .. Faults

(***************************************************************************)
(* Reads                                                                   *)
(***************************************************************************)
\* Fault: an action in doubt counts as over.
ActiveCertain == {"queued", "dispatching", "pending"}

Active == {"queued", "dispatching", "pending", "unknown"}

\* current(): the node is still the one that the user saw.
Current(a) == open /\ a \notin stale

\* Fault: the lease of another call is as good as one's own.
OwnsAny(w) == TRUE

Owns(w) == lease[slot[w].on] = w

Begun(a) == source[a] # NoWorker

Set(w, at)     == slot' = [slot EXCEPT ![w] = [at |-> at, on |-> @.on, got |-> @.got]]
Told(w, reply) == slot' = [slot EXCEPT ![w] = [at |-> "told", on |-> @.on, got |-> reply]]
Leave(w)       == slot' = [slot EXCEPT ![w] = Idle]

Fail == faults < Faults /\ faults' = faults + 1

(***************************************************************************)
(* The row                                                                 *)
(***************************************************************************)
\* One unresolved action at a time, for the node as it is now.
Reserve(a) ==
  /\ row[a] = "absent"
  /\ open
  /\ \A b \in Action : row[b] \notin Active
  /\ row' = [row EXCEPT ![a] = "queued"]
  /\ UNCHANGED <<source, pending, receipt, lease, sourceVars, slot, native, history, faults>>

Claimable(a) ==
  /\ row[a] \in Active \/ a \in pending
  /\ lease[a] = NoWorker

\* Fault: an action that was claimed before is dispatched again.
ClaimModeAgain(a) ==
  IF row[a] \in {"queued", "dispatching"} THEN "execute"
  ELSE IF a \in pending THEN "project"
  ELSE "inspect"

\* Only the first claim may execute; a later one observes.
ClaimMode(a) ==
  IF row[a] = "queued" THEN "execute"
  ELSE IF a \in pending THEN "project"
  ELSE "inspect"

Claim(w, a) ==
  LET mode == ClaimMode(a)
  IN  /\ slot[w].at = "idle" /\ \A b \in Action : lease[b] # w
      /\ Claimable(a)
      /\ row[a] = "queued" => Current(a)
      /\ row' = [row EXCEPT ![a] = IF mode = "execute" THEN "dispatching"
                                   ELSE IF mode = "inspect" /\ @ = "dispatching" THEN "unknown"
                                   ELSE @]
      /\ lease' = [lease EXCEPT ![a] = w]
      /\ slot' = [slot EXCEPT ![w] = [at |-> mode, on |-> a, got |-> "unknown"]]
      /\ UNCHANGED <<source, pending, receipt, sourceVars, native, history, faults>>

\* A queued action whose node has moved on is never sent.
Supersede(a) ==
  /\ Claimable(a)
  /\ row[a] = "queued" /\ ~Current(a)
  /\ row' = [row EXCEPT ![a] = "superseded"]
  /\ UNCHANGED <<source, pending, receipt, lease, sourceVars, slot, native, history, faults>>

\* The mark is durable before the provider is called, and set once.
Begin(w) ==
  LET a == slot[w].on
  IN  /\ slot[w].at = "execute"
      /\ Owns(w) /\ row[a] = "dispatching" /\ ~Begun(a) /\ Current(a)
      /\ source' = [source EXCEPT ![a] = w]
      /\ said' = [said EXCEPT ![a] = {}]
      /\ Set(w, "calling")
      /\ UNCHANGED <<row, pending, receipt, lease, sourceVars, native, shown, faults>>

\* The call is over without one: superseded, or its lease is gone.
BeginRefused(w) ==
  LET a == slot[w].on
      mine == Owns(w) /\ row[a] = "dispatching" /\ ~Begun(a)
  IN  /\ slot[w].at = "execute"
      /\ mine => ~Current(a)
      /\ row' = [row EXCEPT ![a] = IF mine THEN "superseded" ELSE @]
      /\ lease' = [lease EXCEPT ![a] = IF mine THEN NoWorker ELSE @]
      /\ Leave(w)
      /\ UNCHANGED <<source, pending, receipt, sourceVars, native, history, faults>>

\* The provider does not offer the action any more, or cannot be asked.
NotOffered(w, reply) ==
  /\ slot[w].at = "execute"
  /\ reply \in {"failed", "unknown"}
  /\ Told(w, reply)
  /\ UNCHANGED <<rowVars, sourceVars, native, history, faults>>

\* The answer of executeAction or inspectAction, whatever it is; unknown when it is
\* late or invalid.
Answer(w, reply) ==
  LET a == slot[w].on
  IN  /\ slot[w].at \in {"calling", "inspect"}
      /\ Told(w, reply)
      /\ said' = [said EXCEPT ![a] = @ \cup ({reply} \cap Final)]
      /\ UNCHANGED <<rowVars, sourceVars, native, shown, faults>>

\* The receipt, and the duty to show it, commit together.
Settle(w) ==
  LET a == slot[w].on
      reply == slot[w].got
  IN  /\ slot[w].at = "told"
      /\ IF Owns(w) /\ row[a] \in Active
         THEN /\ row' = [row EXCEPT ![a] = reply]
              /\ receipt' = [receipt EXCEPT ![a] = reply]
              /\ pending' = IF receipt[a] # reply THEN pending \cup {a} ELSE pending
              /\ shown' = [shown EXCEPT ![a] = IF receipt[a] # reply THEN "no" ELSE @]
              /\ lease' = [lease EXCEPT ![a] = NoWorker]
         ELSE UNCHANGED <<row, receipt, pending, shown, lease>>
      /\ Leave(w)
      /\ UNCHANGED <<source, sourceVars, native, said, faults>>

\* The node is read from the provider and written, whoever holds the lease by now,
\* and the instance may get a new revision.  A read that was overtaken by a newer
\* write is refused, which is the failure that Lose stands for.
Synchronize(w) ==
  /\ slot[w].at = "project"
  /\ shown' = [shown EXCEPT ![slot[w].on] = "yes"]
  /\ stale' \in {stale, {a \in Action : row[a] \in {"queued", "dispatching"} /\ ~Begun(a)}}
  /\ Set(w, "projected")
  /\ UNCHANGED <<rowVars, open, native, said, faults>>

\* The provider has no snapshot: nothing is written, and that is no failure.
NotFound(w) ==
  /\ slot[w].at = "project"
  /\ shown' = [shown EXCEPT ![slot[w].on] = IF @ = "no" THEN "missing" ELSE @]
  /\ Set(w, "projected")
  /\ UNCHANGED <<rowVars, sourceVars, native, said, faults>>

Projected(w) ==
  LET a == slot[w].on
  IN  /\ slot[w].at = "projected"
      /\ IF Owns(w)
         THEN /\ pending' = pending \ {a}
              /\ lease' = [lease EXCEPT ![a] = NoWorker]
         ELSE UNCHANGED <<pending, lease>>
      /\ Leave(w)
      /\ UNCHANGED <<row, source, receipt, sourceVars, native, history, faults>>

(***************************************************************************)
(* Failures and other commands                                             *)
(***************************************************************************)
\* The worker's process dies; or it gives up: the drain switch refuses to begin, the
\* synchronization throws, another receipt key is refused.  The lease runs until it
\* expires.
Lose(w) ==
  /\ slot[w].at # "idle"
  /\ Fail
  /\ Leave(w)
  /\ UNCHANGED <<rowVars, sourceVars, native, history>>

\* A lease runs out: its worker is gone, or only slow.
Expire(a) ==
  /\ lease[a] # NoWorker
  /\ IF slot[lease[a]].on = a THEN Fail ELSE UNCHANGED faults
  /\ lease' = [lease EXCEPT ![a] = NoWorker]
  /\ UNCHANGED <<row, source, pending, receipt, sourceVars, slot, native, history>>

\* Another command closes the round or its run.
CloseRound ==
  /\ open
  /\ open' = FALSE
  /\ UNCHANGED <<rowVars, stale, slot, native, history, faults>>

(***************************************************************************)
(* Native grants, and the provider (external) that uses them               *)
(***************************************************************************)
\* pipelineNativeGrantTarget: what the action must still be.
GrantTarget(a) ==
  /\ open
  /\ Begun(a)
  /\ row[a] \in {"dispatching", "pending", "unknown", "succeeded"}

\* A new grant needs the live lease that its action was dispatched under.
Mintable(a) == row[a] = "dispatching" /\ lease[a] = source[a]

Grant(a, k, to) ==
  /\ native' = [native EXCEPT ![a][k] = to]
  /\ UNCHANGED <<rowVars, sourceVars, slot, history, faults>>

Prepare(a, k) ==
  /\ GrantTarget(a) /\ Mintable(a)
  /\ native[a][k] = "none"
  /\ Grant(a, k, "prepared")

\* A prepared grant survives the lease; either way it is consumed once.
Consume(a, k) ==
  /\ GrantTarget(a)
  /\ native[a][k] = "prepared" \/ (native[a][k] = "none" /\ Mintable(a))
  /\ Grant(a, k, "consumed")

\* The start that the grant allows fails or gives an execution.
StartExecution(a, k, to) ==
  /\ native[a][k] = "consumed"
  /\ Grant(a, k, to)

ExecutionEnds(a, k) ==
  /\ native[a][k] = "running"
  /\ Grant(a, k, "over")

(***************************************************************************)
(* The system                                                              *)
(***************************************************************************)
ActionInit ==
  /\ row = [a \in Action |-> "absent"]
  /\ source = [a \in Action |-> NoWorker] /\ lease = [a \in Action |-> NoWorker]
  /\ pending = {} /\ stale = {}
  /\ receipt = [a \in Action |-> "none"]
  /\ open = TRUE
  /\ slot = [w \in Worker |-> Idle]
  /\ native = [a \in Action |-> [k \in Call |-> "none"]]
  /\ shown = [a \in Action |-> "no"]
  /\ said = [a \in Action |-> {}]
  /\ faults = 0

WorkerStep(w) ==
  \/ Begin(w) \/ BeginRefused(w) \/ NotOffered(w, "unknown") \/ NotOffered(w, "failed")
  \/ \E reply \in Status : Answer(w, reply)
  \/ Settle(w) \/ Synchronize(w) \/ NotFound(w) \/ Projected(w)

NativeStep(a, k) ==
  \/ Prepare(a, k) \/ Consume(a, k)
  \/ StartExecution(a, k, "running") \/ StartExecution(a, k, "over")
  \/ ExecutionEnds(a, k)

ActionNext ==
  \/ \E a \in Action : Reserve(a) \/ Supersede(a) \/ Expire(a) \/ \E k \in Call : NativeStep(a, k)
  \/ \E w \in Worker : WorkerStep(w) \/ Lose(w) \/ \E a \in Action : Claim(w, a)
  \/ CloseRound

ActionSpec == ActionInit /\ [][ActionNext]_actionVars

\* A native execution of the action runs, or may start without asking again.
Working(a) == \E k \in Call : native[a][k] \in {"consumed", "running"}

(***************************************************************************)
(* Properties                                                              *)
(***************************************************************************)
\* Two commands of a node are at work side by side only after the provider's own
\* word that one of them is over: an action whose worker died, whose answer was late
\* or whose executions go on keeps the node until then, and no silence frees it.
\* (A grant that was prepared before the word "succeeded" may be consumed after it.)
OverlapIsDeclared ==
  \A a, b \in Action :
    a # b /\ Working(a) /\ Working(b) => \E c \in {a, b} : row[c] \in Final /\ row[c] \in said[c]

\* No end is invented: a final state is the provider's word on the call that was made,
\* or the action failed before any call; a superseded action was never called.  Neither
\* an exception nor a lost worker, nor an answer from before the call, ends an action.
VerdictIsFounded ==
  \A a \in Action :
    /\ row[a] \in Final => row[a] \in said[a] \/ (row[a] = "failed" /\ ~Begun(a))
    /\ row[a] = "superseded" => ~Begun(a)

\* No receipt is forgotten: for an action that owes no projection, the provider's
\* snapshot was fetched since its last new receipt, although workers overlap and
\* outlive their leases.  (If it had none then, the node shows nothing: "missing".)
ReceiptNotForgotten ==
  \A a \in Action : receipt[a] # "none" /\ a \notin pending => shown[a] # "no"
=============================================================================
