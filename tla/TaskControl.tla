---------------------------- MODULE TaskControl ----------------------------
(***************************************************************************)
(* The durable task ledger of the platform:                                *)
(* packages/server/src/task-control/task-control.store.ts.                 *)
(*                                                                         *)
(* Every unit of controlled work (an agent execution, an invocation, a     *)
(* handoff message, a managed-queue job) owns one row.  A mutating method  *)
(* of the store runs in a database transaction that first takes a write    *)
(* lock on the ROOT row of the task's family, so each method is one atomic *)
(* action here.  A method that rejects or returns early leaves the ledger  *)
(* alone; that is a disabled action or a stuttering step.                  *)
(*                                                                         *)
(* TaskSpec is the ledger under its most general client: any method, for   *)
(* any task, at any time.  ManagedQueue and ThreadRun are particular       *)
(* clients.  One obligation is left to the clients: bind and restoreAttempt*)
(* do not look at the state, so a client must not resume a completed task. *)
(*                                                                         *)
(* Abstracted: tenant scope (one tenant), payloads, the revision counter,  *)
(* nextCheckAt and the scan's delivery lease, which only pace the          *)
(* coordinator and never guard a row change.                               *)
(***************************************************************************)
EXTENDS Naturals, FiniteSets

CONSTANTS
  Task,      \* taskControlId values: one per (kind, resource)
  NoTask,    \* a null parentId
  Token,     \* claim uuids
  NoToken,   \* a null claim
  Attempt,   \* execution ids that a task may run as
  NoAttempt, \* a null currentExecutionId
  Mailed,    \* the tasks of kind 'handoff' or 'managed-queue': they may have a publication
  Handoff    \* the tasks of kind 'handoff'

ASSUME NoTaskAssumption    == NoTask \notin Task
ASSUME NoTokenAssumption   == NoToken \notin Token
ASSUME NoAttemptAssumption == NoAttempt \notin Attempt
ASSUME KindAssumption      == Handoff \subseteq Mailed /\ Mailed \subseteq Task

VARIABLES
  entry,    \* what registration fixes for ever: root, parent, policy, ancestors, drainOnPause
  desired,  \* the control intent stored on the row itself
  state,    \* the last receipt; "absent" while there is no row
  claim,    \* the durable execution claim
  outcome,  \* how the claimed handler ended
  admitted, \* history, not in the code: the tasks that some claim has admitted
  current,  \* currentExecutionId
  attempts, \* every execution id the task has run as
  outbox,   \* the publication row: none, due for transport, handed to transport
  result    \* the publication's result column

treeVars == <<entry, desired>>
runVars  == <<state, claim, outcome, admitted>>
execVars == <<current, attempts>>
mailVars == <<outbox, result>>
taskVars == <<entry, desired, state, claim, outcome, admitted, current, attempts, outbox, result>>

Intent   == {"running", "paused", "terminated"}
Policy   == {"attached", "detached"}       \* 'shared' starts new ancestry exactly as 'detached' does
Receipts == {"running", "paused", "completed", "unknown"}
State    == Receipts \cup {"absent", "queued"}
Outcome  == {"none", "succeeded", "failed"}
Answer   == {"answered", "canceled"}

Entry == [root : Task \cup {NoTask}, parent : Task \cup {NoTask}, policy : Policy,
          lineage : SUBSET Task, drain : BOOLEAN]

NoEntry == [root |-> NoTask, parent |-> NoTask, policy |-> "attached",
            lineage |-> {}, drain |-> FALSE]

\* The columns of task_control and of task_control_publication, and no other values.
TypeOK ==
  /\ entry    \in [Task -> Entry]
  /\ desired  \in [Task -> Intent]
  /\ state    \in [Task -> State]
  /\ claim    \in [Task -> Token \cup {NoToken}]
  /\ outcome  \in [Task -> Outcome]
  /\ admitted \subseteq Task
  /\ current  \in [Task -> Attempt \cup {NoAttempt}]
  /\ attempts \in [Task -> SUBSET Attempt]
  /\ outbox   \in [Task -> {"none", "due", "published"}]
  /\ result   \in [Task -> Answer \cup {"none"}]

(***************************************************************************)
(* Reads of the ledger                                                     *)
(***************************************************************************)
Registered(t) == state[t] # "absent"

\* The effective intent: the strongest one stored on the task or an attached ancestor.
IntentOf(t) ==
  IF \E a \in entry[t].lineage : desired[a] = "terminated" THEN "terminated"
  ELSE IF \E a \in entry[t].lineage : desired[a] = "paused" THEN "paused"
  ELSE "running"

Descendants(t) == {d \in Task : t \in entry[d].lineage} \ {t}

\* Fault: a task that a pause does not hold back counts as held back.
QuiescentUnclaimed(t) ==
  state[t] = "paused" \/ (state[t] = "queued" /\ claim[t] = NoToken)

\* No handler of the task can have started: the only unclaimed rows a pause may leave behind.
Quiescent(t) ==
  \/ state[t] = "paused"
  \/ state[t] = "queued" /\ claim[t] = NoToken /\ ~entry[t].drain

\* Fault: only the direct children are asked.
SettledChildren(t, pause) ==
  \A d \in Task : entry[d].parent = t /\ d \in Descendants(t) =>
    state[d] = "completed" \/ (pause /\ Quiescent(d))

Settled(t, pause) ==
  \A d \in Descendants(t) : state[d] = "completed" \/ (pause /\ Quiescent(d))

AncestorsRunning(t) ==
  Registered(t) /\ \A a \in entry[t].lineage \ {t} : desired[a] = "running"

\* execution(id): the task that ran as e, as a set of at most one element.
TaskOf(e) == {t \in Task : e \in attempts[t]}

(***************************************************************************)
(* Writes                                                                  *)
(***************************************************************************)
\* Fault: a completed parent is not refused.
ParentNotTerminated(p) == p # NoTask => Registered(p) /\ IntentOf(p) # "terminated"

ParentOpen(p) ==
  p # NoTask => Registered(p) /\ IntentOf(p) # "terminated" /\ state[p] # "completed"

\* Fault: the ancestry reaches only to the parent.
NewEntryShallow(t, p, pol, drain) ==
  LET attached == p # NoTask /\ pol = "attached"
  IN  [root    |-> IF attached THEN entry[p].root ELSE t,
       parent  |-> p,
       policy  |-> pol,
       lineage |-> IF attached THEN {p, t} ELSE {t},
       drain   |-> drain]

\* Attached work joins its parent's family; detached and shared work starts a new one.
NewEntry(t, p, pol, drain) ==
  LET attached == p # NoTask /\ pol = "attached"
  IN  [root    |-> IF attached THEN entry[p].root ELSE t,
       parent  |-> p,
       policy  |-> pol,
       lineage |-> IF attached THEN entry[p].lineage \cup {t} ELSE {t},
       drain   |-> drain]

\* Inserts the row.  A repeated registration finds the row and changes nothing.
\* Callers look the execution up first, so no execution id gets two tasks.
Register(t, p, pol, drain, e) ==
  /\ ~Registered(t)
  /\ ParentOpen(p)
  /\ e # NoAttempt => TaskOf(e) = {}
  /\ entry'    = [entry EXCEPT ![t] = NewEntry(t, p, pol, drain)]
  /\ state'    = [state EXCEPT ![t] = "queued"]
  /\ current'  = [current EXCEPT ![t] = e]
  /\ attempts' = [attempts EXCEPT ![t] = IF e = NoAttempt THEN {} ELSE {e}]
  /\ UNCHANGED <<desired, claim, outcome, admitted>>

\* A row that is already there is accepted only for the same parent, policy and root.
SameRegistration(t, p, pol) ==
  /\ Registered(t)
  /\ p # NoTask => Registered(p)
  /\ entry[t].parent = p
  /\ entry[t].policy = pol
  /\ entry[t].root = NewEntry(t, p, pol, FALSE).root

\* Registration and the outbox row commit together, before any transport is touched.
Publish(t, p, pol, drain) ==
  /\ t \in Mailed
  /\ outbox[t] = "none"
  /\ \/ Register(t, p, pol, drain, NoAttempt)
     \/ SameRegistration(t, p, pol) /\ UNCHANGED <<treeVars, runVars, execVars>>
  /\ outbox' = [outbox EXCEPT ![t] = "due"]
  /\ UNCHANGED result

\* Marks the row as handed to transport; a failed hand-over only delays the next try.
Published(t) ==
  /\ outbox[t] # "none"
  /\ outbox' = [outbox EXCEPT ![t] = "published"]
  /\ UNCHANGED <<treeVars, runVars, execVars, result>>

\* The first result stays.
PublicationResult(t) ==
  /\ outbox[t] # "none"
  /\ result[t] = "none"
  /\ result' = [result EXCEPT ![t] = "answered"]
  /\ UNCHANGED <<treeVars, runVars, execVars, outbox>>

\* Fault: the last intent wins.
ChangeAlways(t, d) == Registered(t)

\* Termination is a tombstone: no later intent replaces it.
ChangeAllowed(t, d) ==
  Registered(t) /\ (desired[t] = "terminated" => d = "terminated")

Change(t, d) ==
  /\ ChangeAllowed(t, d)
  /\ desired' = [desired EXCEPT ![t] = d]
  /\ UNCHANGED <<entry, runVars, execVars, mailVars>>

\* Fault: an existing claim does not refuse a second one.
ClaimRefusalShared(t) ==
  IF IntentOf(t) = "terminated" \/ state[t] = "completed" THEN "terminated"
  ELSE IF IntentOf(t) = "paused" /\ ~entry[t].drain THEN "paused"
  ELSE "none"

\* Fault: a pause also holds back what a paused node waits for.
ClaimRefusalAll(t) ==
  IF IntentOf(t) = "terminated" \/ state[t] = "completed" THEN "terminated"
  ELSE IF IntentOf(t) = "paused" THEN "paused"
  ELSE IF claim[t] # NoToken THEN "claimed"
  ELSE "none"

ClaimRefusal(t) ==
  IF IntentOf(t) = "terminated" \/ state[t] = "completed" THEN "terminated"
  ELSE IF IntentOf(t) = "paused" /\ ~entry[t].drain THEN "paused"
  ELSE IF claim[t] # NoToken THEN "claimed"
  ELSE "none"

\* The token is a fresh uuid: no row holds it.
Claim(t, k) ==
  /\ Registered(t)
  /\ ClaimRefusal(t) = "none"
  /\ \A u \in Task : claim[u] # k
  /\ claim' = [claim EXCEPT ![t] = k]
  /\ state' = [state EXCEPT ![t] = "running"]
  /\ admitted' = admitted \cup {t}
  /\ UNCHANGED <<treeVars, outcome, execVars, mailVars>>

\* Fault: a late receipt is accepted after completion.
ReceiptAcceptedLate(t, s, k) ==
  /\ Registered(t)
  /\ k # NoToken => claim[t] = k
  /\ s = "paused" => IntentOf(t) # "terminated"

\* k = NoToken is a receipt sent without a claim: it is not compared with the row's.
ReceiptAccepted(t, s, k) ==
  /\ Registered(t)
  /\ k # NoToken => claim[t] = k
  /\ state[t] # "completed"
  /\ s = "paused" => IntentOf(t) # "terminated"

PutReceipt(t, s) ==
  /\ state' = [state EXCEPT ![t] = s]
  /\ claim' = [claim EXCEPT ![t] = IF s \in {"paused", "completed"} THEN NoToken ELSE @]
  /\ UNCHANGED <<outcome, admitted>>

Receipt(t, s, k) ==
  /\ ReceiptAccepted(t, s, k)
  /\ PutReceipt(t, s)
  /\ UNCHANGED <<treeVars, execVars, mailVars>>

\* Fault: the row is settled as the scan read it, whether or not a worker claimed it since.
UnstartedWhenScanned(t) == state[t] \in {"queued", "running"} /\ IntentOf(t) = "terminated"

\* Admission and this check take the same lock, so a task seen unclaimed here never starts.
Unstarted(t) == state[t] = "queued" /\ claim[t] = NoToken /\ IntentOf(t) = "terminated"

SettleUnstarted(t) ==
  /\ Unstarted(t)
  /\ PutReceipt(t, "completed")
  /\ result' = IF t \in Handoff /\ outbox[t] # "none" /\ result[t] = "none"
               THEN [result EXCEPT ![t] = "canceled"] ELSE result
  /\ UNCHANGED <<treeVars, execVars, outbox>>

\* Fault: the outcome lands in the state column.
FinishClaimSwapped(t, k, how) ==
  /\ claim[t] = k
  /\ state[t] # "completed"
  /\ state'   = [state EXCEPT ![t] = how]
  /\ claim'   = [claim EXCEPT ![t] = NoToken]
  /\ UNCHANGED <<treeVars, outcome, admitted, execVars, mailVars>>

FinishClaim(t, k, how) ==
  /\ claim[t] = k
  /\ state[t] # "completed"
  /\ state'   = [state EXCEPT ![t] = "completed"]
  /\ claim'   = [claim EXCEPT ![t] = NoToken]
  /\ outcome' = [outcome EXCEPT ![t] = how]
  /\ UNCHANGED <<treeVars, admitted, execVars, mailVars>>

\* A resumed run continues the same task as a new execution.
Bind(t, e, next) ==
  /\ current[t] = e
  /\ IntentOf(t) = "running"
  /\ TaskOf(next) \subseteq {t}
  /\ current'  = [current EXCEPT ![t] = next]
  /\ attempts' = [attempts EXCEPT ![t] = @ \cup {next}]
  /\ state'    = [state EXCEPT ![t] = "running"]
  /\ UNCHANGED <<treeVars, claim, outcome, admitted, mailVars>>

\* Fault: the intent stays running.
RestoreAttemptRunning(t, e, previous) ==
  /\ current[t] = e /\ previous \in attempts[t] /\ IntentOf(t) # "terminated"
  /\ current' = [current EXCEPT ![t] = previous]
  /\ state'   = [state EXCEPT ![t] = "paused"]
  /\ UNCHANGED <<treeVars, claim, outcome, admitted, attempts, mailVars>>

\* A failed resume returns to the saved boundary, but cannot erase a termination.
RestoreAttempt(t, e, previous) ==
  /\ current[t] = e
  /\ previous \in attempts[t]
  /\ IntentOf(t) # "terminated"
  /\ current' = [current EXCEPT ![t] = previous]
  /\ desired' = [desired EXCEPT ![t] = "paused"]
  /\ state'   = [state EXCEPT ![t] = "paused"]
  /\ UNCHANGED <<entry, claim, outcome, admitted, attempts, mailVars>>

\* The composite transaction of root(): an execution's own task, running from the start.
Open(t, e) ==
  /\ ~Registered(t)
  /\ TaskOf(e) = {}
  /\ entry'    = [entry EXCEPT ![t] = NewEntry(t, NoTask, "attached", FALSE)]
  /\ state'    = [state EXCEPT ![t] = "running"]
  /\ current'  = [current EXCEPT ![t] = e]
  /\ attempts' = [attempts EXCEPT ![t] = {e}]
  /\ UNCHANGED <<desired, claim, outcome, admitted, mailVars>>

\* The composite transaction of settleOrphan: fence a lost owner's task and close it.
Retire(t) ==
  /\ Registered(t)
  /\ state[t] # "completed"
  /\ desired' = [desired EXCEPT ![t] = "terminated"]
  /\ PutReceipt(t, "completed")
  /\ UNCHANGED <<entry, execVars, mailVars>>

(***************************************************************************)
(* The ledger under its most general client                                *)
(***************************************************************************)
TaskInit ==
  /\ entry    = [t \in Task |-> NoEntry]
  /\ desired  = [t \in Task |-> "running"]
  /\ state    = [t \in Task |-> "absent"]
  /\ claim    = [t \in Task |-> NoToken]
  /\ outcome  = [t \in Task |-> "none"]
  /\ admitted = {}
  /\ current  = [t \in Task |-> NoAttempt]
  /\ attempts = [t \in Task |-> {}]
  /\ outbox   = [t \in Task |-> "none"]
  /\ result   = [t \in Task |-> "none"]

TaskNext ==
  \/ \E t \in Task, p \in Task \cup {NoTask}, pol \in Policy, drain \in BOOLEAN :
       \/ \E e \in Attempt \cup {NoAttempt} : Register(t, p, pol, drain, e) /\ UNCHANGED mailVars
       \/ Publish(t, p, pol, drain)
  \/ \E t \in Task :
       \/ Published(t)
       \/ PublicationResult(t)
       \/ SettleUnstarted(t)
       \/ Retire(t)
  \/ \E t \in Task, d \in Intent : Change(t, d)
  \/ \E t \in Task, k \in Token :
       \/ Claim(t, k)
       \/ \E how \in {"succeeded", "failed"} : FinishClaim(t, k, how)
  \/ \E t \in Task, s \in Receipts, k \in Token \cup {NoToken} : Receipt(t, s, k)
  \/ \E t \in Task, e \in Attempt : Open(t, e)
  \/ \E t \in Task, e, f \in Attempt :
       state[t] # "completed" /\ (Bind(t, e, f) \/ RestoreAttempt(t, e, f))

TaskSpec == TaskInit /\ [][TaskNext]_taskVars

(***************************************************************************)
(* What the ledger promises, whoever calls it                              *)
(***************************************************************************)
\* The ancestry that every control decision walks is well formed: an ancestor
\* of an ancestor is an ancestor, a whole family has one root, and that root is
\* the only member that every other member descends from.  intentOf,
\* descendants and the root lock all rely on it, and it is only ever built by
\* appending to the parent's list at registration.
LineageClosed ==
  \A t \in Task : Registered(t) =>
    /\ t \in entry[t].lineage
    /\ entry[t].root \in entry[t].lineage
    /\ \A a \in entry[t].lineage :
         /\ Registered(a)
         /\ entry[a].lineage \subseteq entry[t].lineage
         /\ entry[a].root = entry[t].root

\* A task whose effective intent is terminated stays so, through any change on
\* the task itself or on any of its ancestors, any resume and any failed resume.
TerminationIsTombstone ==
  [][\A t \in Task :
       Registered(t) /\ IntentOf(t) = "terminated" => IntentOf(t)' = "terminated"]_taskVars

\* Once a task and everything under it are completed, that family is closed for
\* good: no late publisher can hang new work below it and nothing in it reopens.
\* finish() and settleOrphan() free a thread on the strength of this.
Sealed(t) == state[t] = "completed" /\ Settled(t, FALSE)

\* No step ever opens a sealed family.
FamilySealed == [][\A t \in Task : Sealed(t) => Sealed(t)']_taskVars

\* A receipt of completion is the last word on a task: a late or duplicated
\* receipt, claim or registration never changes its state, its outcome or its claim.
CompletionIsFinal ==
  [][\A t \in Task : state[t] = "completed" =>
       /\ state'[t] = state[t]
       /\ outcome'[t] = outcome[t]
       /\ claim'[t] = NoToken]_taskVars

\* The answer 'Canceled before dispatch' is written only for a task whose handler never
\* started: the termination reached the task, the task is completed, and no claim ever
\* admitted a handler, so none ran and reported an outcome.  The coordinator's scan, a
\* worker's claim and the settlement may come in any order.
CanceledNeverRan ==
  \A t \in Task : result[t] = "canceled" =>
    /\ state[t] = "completed" /\ IntentOf(t) = "terminated"
    /\ t \notin admitted /\ outcome[t] = "none"
=============================================================================
