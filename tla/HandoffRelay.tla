--------------------------- MODULE HandoffRelay ---------------------------
(***************************************************************************)
(* Controlled handoff messages: publication, the relay, the worker that    *)
(* dispatches a message to its processor, the durable answer, the callers  *)
(* that wait for it, and cancellation.                                     *)
(*                                                                         *)
(*   packages/server-ai/src/handoff/message-queue.service.ts               *)
(*   packages/server-ai/src/handoff/message-dispatcher.service.ts          *)
(*   packages/server-ai/src/handoff/pending-result.service.ts              *)
(*   packages/server-ai/src/handoff/handoff-cancel.service.ts              *)
(*   packages/server-ai/src/handoff/commands/handlers/stop-handoff-...     *)
(*   packages/server-ai/src/agent-invocation/task-control-coordinator...   *)
(*                                                                         *)
(* A message is two tasks: the handoff itself, whose publication row keeps *)
(* the answer, and below it the managed-queue job that carries it.  How a  *)
(* job gets through the queue is ManagedQueue's subject: here the outbox   *)
(* row of a job and its BullMQ entry move together, a refused claim is one *)
(* step, and a receipt that cannot be written is only late.                *)
(*                                                                         *)
(* Abstracted: message content and routing, progress events, delays, and   *)
(* the timeouts of a processor, which abort it as a cancellation does.     *)
(***************************************************************************)
EXTENDS TaskControl

CONSTANTS
  Run,       \* the producing run's own task
  Message,   \* the handoff tasks
  JobOf,     \* the managed-queue task that carries a message
  Process,   \* server processes with one job slot each; claims are named after them
  NoProcess, \* the home of no waiter
  Host,      \* the process that executes the run's graph
  Senders,   \* bounds an instance: the tasks on whose behalf a message may be enqueued
  Env        \* what the environment may do: failures, stop commands, intents set on the run

EnvKinds == {"stop", "paused", "running", "terminated", "slowscan", "crash", "stall", "database", "timeout"}

Jobs == {JobOf[m] : m \in Message}

ASSUME RelayAssumption ==
  /\ Token = Process
  /\ NoProcess \notin Process /\ Host \in Process
  /\ Run \in Task /\ Run \notin Mailed
  /\ Handoff = Message
  /\ JobOf \in [Message -> Mailed \ Message]
  /\ \A m, n \in Message : m # n => JobOf[m] # JobOf[n]
  /\ Senders \in [Message -> SUBSET Task]
  /\ Env \subseteq EnvKinds

VARIABLES
  answer,    \* the value in the publication's result column
  waiter,    \* the promise of enqueueAndWait
  home,      \* the process whose registry holds that promise
  job,       \* the BullMQ job of a message
  pc,        \* where each process's job slot is
  on,        \* the message that it was given
  said,      \* what dispatch returned
  how,       \* the outcome its runner will report
  processed, \* messages whose processor was ever called (history)
  stopping,  \* stop commands between the durable intent and the local promise
  scan       \* messages that the coordinator is past the cancellation check with

waitVars  == <<waiter, home>>
slotVars  == <<pc, on, said, how>>
relayVars == <<taskVars, answer, waitVars, job, slotVars, processed, stopping, scan>>

Reply == {"ok", "retry", "dead"}

SlotAt == {"idle", "delivered", "claimed", "handler", "checking", "body", "storing",
           "outbound", "closing", "resolving", "failing", "withheld", "exited", "dead"}

\* The ledger, the promises and the job slots keep their types.
RelayTypeOK ==
  /\ TypeOK
  /\ answer \in [Message -> Reply \cup {"none"}]
  /\ waiter \in [Message -> Reply \cup {"none", "waiting", "rejected", "gone"}]
  /\ home \in [Message -> Process \cup {NoProcess}]
  /\ job \in [Message -> {"none", "waiting", "finished", "failed"} \cup Process]
  /\ pc \in [Process -> SlotAt]
  /\ on \in [Process -> Message \cup {NoTask}]
  /\ said \in [Process -> Reply \cup {"none"}]
  /\ how \in [Process -> Outcome]
  /\ processed \subseteq Message /\ stopping \subseteq Message /\ scan \subseteq Message

(***************************************************************************)
(* Publishing                                                              *)
(***************************************************************************)
\* Code that may enqueue on behalf of task p: the run's graph, or the processor of
\* the message whose job p is.
Producing(m, p) ==
  /\ p \in Senders[m]
  /\ p = Run \/ \E s \in Process : pc[s] = "body" /\ p = JobOf[on[s]]

\* enqueue: registration and publication row in one transaction.
Enqueue(m, p) ==
  /\ Producing(m, p)
  /\ Publish(m, p, "attached", FALSE)
  /\ UNCHANGED <<answer, waitVars, job, slotVars, processed, stopping, scan>>

\* Fault: a synchronous message is not marked as a dependency of its waiting node.
EnqueueAndWaitHeld(m, p, s) ==
  /\ Producing(m, p)
  /\ waiter[m] = "none"
  /\ IF p = Run THEN s = Host ELSE pc[s] = "body" /\ p = JobOf[on[s]]
  /\ Publish(m, p, "attached", FALSE)
  /\ waiter' = [waiter EXCEPT ![m] = "waiting"]
  /\ home' = [home EXCEPT ![m] = s]
  /\ UNCHANGED <<answer, job, slotVars, processed, stopping, scan>>

\* enqueueAndWait: the promise first, in the memory of the caller's process.
EnqueueAndWait(m, p, s) ==
  /\ Producing(m, p)
  /\ waiter[m] = "none"
  /\ IF p = Run THEN s = Host ELSE pc[s] = "body" /\ p = JobOf[on[s]]
  /\ Publish(m, p, "attached", TRUE)
  /\ waiter' = [waiter EXCEPT ![m] = "waiting"]
  /\ home' = [home EXCEPT ![m] = s]
  /\ UNCHANGED <<answer, job, slotVars, processed, stopping, scan>>

\* publishControlled, by the producer or by the two-second relay: the job's own
\* task and row below the message.  The ledger refuses it once the message is
\* terminated or completed.
PublishControlled(m) ==
  /\ outbox[m] = "due"
  /\ Publish(JobOf[m], m, "attached", entry[m].drain)
  /\ UNCHANGED <<answer, waitVars, job, slotVars, processed, stopping, scan>>

\* The row is marked when its job is on its way or nothing is left to send.
MarkPublished(m) ==
  /\ outbox[m] = "due"
  /\ outbox[JobOf[m]] # "none" \/ state[m] = "completed"
  /\ Published(m)
  /\ UNCHANGED <<answer, waitVars, job, slotVars, processed, stopping, scan>>

\* The managed queue's relay: the entry has the job's id, so it exists once.
AddJob(m) ==
  /\ outbox[JobOf[m]] = "due"
  /\ Published(JobOf[m])
  /\ job' = [job EXCEPT ![m] = IF @ = "none" THEN "waiting" ELSE @]
  /\ UNCHANGED <<answer, waitVars, slotVars, processed, stopping, scan>>

(***************************************************************************)
(* The queue and the runner (see ManagedQueue)                             *)
(***************************************************************************)
Goto(s, label) == pc' = [pc EXCEPT ![s] = label]

Free(s, label) ==
  /\ Goto(s, label)
  /\ on' = [on EXCEPT ![s] = NoTask]
  /\ said' = [said EXCEPT ![s] = "none"]
  /\ how' = [how EXCEPT ![s] = "none"]

\* A slot's last word on its job: nothing once another delivery has it.
Release(s, to) ==
  job' = [m \in Message |-> IF m = on[s] /\ job[m] = s THEN to ELSE job[m]]

Deliver(s, m) ==
  /\ pc[s] = "idle"
  /\ job[m] = "waiting"
  /\ job' = [job EXCEPT ![m] = s]
  /\ Goto(s, "delivered")
  /\ on' = [on EXCEPT ![s] = m]
  /\ UNCHANGED <<taskVars, answer, waitVars, said, how, processed, stopping, scan>>

\* The lock of a job was not renewed: its slot may be dead or only slow.
Stall(m) ==
  /\ "stall" \in Env
  /\ job[m] \in Process
  /\ job' = [job EXCEPT ![m] = "waiting"]
  /\ UNCHANGED <<taskVars, answer, waitVars, slotVars, processed, stopping, scan>>

ClaimJob(s) ==
  /\ pc[s] = "delivered"
  /\ Claim(JobOf[on[s]], s)
  /\ Goto(s, "claimed")
  /\ how' = [how EXCEPT ![s] = "failed"]
  /\ UNCHANGED <<answer, waitVars, job, on, said, processed, stopping, scan>>

\* The claim is refused: a terminated job that nobody runs is closed, any other
\* job comes back later.
TurnAway(s) ==
  LET j == JobOf[on[s]]
      over == state[j] = "completed"
      closes == ~over /\ IntentOf(j) = "terminated" /\ claim[j] = NoToken
  IN  /\ pc[s] = "delivered"
      /\ ClaimRefusal(j) # "none"
      /\ IF closes THEN Receipt(j, "completed", NoToken) ELSE UNCHANGED taskVars
      /\ Release(s, IF over \/ closes THEN "finished" ELSE "waiting")
      /\ Free(s, "idle")
      /\ UNCHANGED <<answer, waitVars, processed, stopping, scan>>

\* The runner asks for the intent once more; a failed read ends it as well.
Begin(s) ==
  /\ pc[s] = "claimed"
  /\ \/ IntentOf(JobOf[on[s]]) # "terminated" /\ Goto(s, "handler")
     \/ IntentOf(JobOf[on[s]]) = "terminated" /\ Goto(s, "exited")
     \/ "database" \in Env /\ Goto(s, "exited")
  /\ UNCHANGED <<taskVars, answer, waitVars, job, on, said, how, processed, stopping, scan>>

\* Only the handler's own return settles the claim.
Finish(s) ==
  LET j == JobOf[on[s]]
  IN  /\ pc[s] = "exited"
      /\ FinishClaim(j, s, how[s]) \/ (claim[j] # s /\ UNCHANGED taskVars)
      /\ Release(s, IF how[s] = "succeeded" THEN "finished" ELSE "failed")
      /\ Free(s, "idle")
      /\ UNCHANGED <<answer, waitVars, processed, stopping, scan>>

\* The process is killed, with its job slot and the promises it holds.
Crash(s) ==
  /\ "crash" \in Env
  /\ pc[s] # "dead"
  /\ Free(s, "dead")
  /\ waiter' = [m \in Message |->
       IF waiter[m] = "waiting" /\ home[m] = s THEN "gone" ELSE waiter[m]]
  /\ UNCHANGED <<taskVars, answer, home, job, processed, stopping, scan>>

\* A new process; the claims of the old one stay on their rows.
Restart(s) ==
  /\ pc[s] = "dead"
  /\ \A m \in Message : job[m] # s /\ claim[JobOf[m]] # s
  /\ Goto(s, "idle")
  /\ UNCHANGED <<taskVars, answer, waitVars, job, on, said, how, processed, stopping, scan>>

(***************************************************************************)
(* The controlled handler                                                  *)
(***************************************************************************)
\* receipt(): ignored once the task is completed.
PutState(m, s) ==
  \/ Receipt(m, s, NoToken)
  \/ state[m] = "completed" /\ UNCHANGED taskVars

\* Fault: the last answer stays.
PutAnswerLast(m, r) ==
  /\ answer' = [answer EXCEPT ![m] = r]
  /\ IF result[m] = "none" THEN PublicationResult(m) ELSE UNCHANGED taskVars

\* publicationResult(): the first answer stays.
PutAnswer(m, r) ==
  IF result[m] = "none"
  THEN PublicationResult(m) /\ answer' = [answer EXCEPT ![m] = r]
  ELSE UNCHANGED <<taskVars, answer>>

\* Fault: the message stays queued until its processor returns.
AdmitSilently(s) ==
  /\ pc[s] = "handler"
  /\ Goto(s, "checking")
  /\ UNCHANGED <<taskVars, answer, waitVars, job, on, said, how, processed, stopping, scan>>

\* The message is marked running before the dispatcher looks for a cancellation.
Admit(s) ==
  /\ pc[s] = "handler"
  /\ PutState(on[s], "running")
  /\ Goto(s, "checking")
  /\ UNCHANGED <<answer, waitVars, job, on, said, how, processed, stopping, scan>>

Call(s) ==
  /\ Goto(s, "body")
  /\ processed' = processed \cup {on[s]}
  /\ UNCHANGED said

\* Fault: a cancelled message is dispatched and left to notice the abort.
DispatchBlind(s) ==
  /\ pc[s] = "checking"
  /\ Call(s)
  /\ UNCHANGED <<taskVars, answer, waitVars, job, on, how, stopping, scan>>

Dispatch(s) ==
  /\ pc[s] = "checking"
  /\ IF IntentOf(on[s]) = "terminated"
     THEN Goto(s, "storing") /\ said' = [said EXCEPT ![s] = "dead"] /\ UNCHANGED processed
     ELSE Call(s)
  /\ UNCHANGED <<taskVars, answer, waitVars, job, on, how, stopping, scan>>

\* The processor settles; it awaits the messages that it sent with enqueueAndWait.
\* An aborted processor is dead whatever it returned, unless it succeeded.
Return(s, r) ==
  /\ pc[s] = "body"
  /\ \A m \in Message : waiter[m] = "waiting" => entry[m].parent # JobOf[on[s]]
  /\ Goto(s, "storing")
  /\ said' = [said EXCEPT ![s] = r]
  /\ UNCHANGED <<taskVars, answer, waitVars, job, on, how, processed, stopping, scan>>

\* The processor throws.
Throw(s) ==
  /\ pc[s] = "body"
  /\ Goto(s, "failing")
  /\ UNCHANGED <<taskVars, answer, waitVars, job, on, said, how, processed, stopping, scan>>

\* The answer is durable before anything is derived from it.
Store(s) ==
  /\ pc[s] = "storing"
  /\ PutAnswer(on[s], said[s])
  /\ Goto(s, IF said[s] = "ok" THEN "outbound" ELSE "closing")
  /\ UNCHANGED <<waitVars, job, on, said, how, processed, stopping, scan>>

\* One outbound message, or none, or the ledger refuses it.
SendOutbound(s) ==
  /\ pc[s] = "outbound"
  /\ \/ \E m \in Message : /\ JobOf[on[s]] \in Senders[m]
                            /\ Publish(m, JobOf[on[s]], "attached", FALSE)
                            /\ Goto(s, "closing")
     \/ UNCHANGED taskVars /\ Goto(s, "closing")
     \/ ~ParentOpen(JobOf[on[s]]) /\ UNCHANGED taskVars /\ Goto(s, "failing")
  /\ UNCHANGED <<answer, waitVars, job, on, said, how, processed, stopping, scan>>

\* A processor that asked for a retry has already run: it is not replayed.
Close(s) ==
  /\ pc[s] = "closing"
  /\ PutState(on[s], IF said[s] = "retry" THEN "unknown" ELSE "completed")
  /\ Goto(s, "resolving")
  /\ UNCHANGED <<answer, waitVars, job, on, said, how, processed, stopping, scan>>

\* The promise is settled directly only when it lives in this process.
Resolve(s) ==
  /\ pc[s] = "resolving"
  /\ Goto(s, "exited")
  /\ how' = [how EXCEPT ![s] = "succeeded"]
  /\ waiter' = IF waiter[on[s]] = "waiting" /\ home[on[s]] = s
               THEN [waiter EXCEPT ![on[s]] = said[s]] ELSE waiter
  /\ UNCHANGED <<taskVars, answer, home, job, on, said, processed, stopping, scan>>

\* catch: the replay is withheld and the message is in doubt.
Fail(s) ==
  /\ pc[s] = "failing"
  /\ PutAnswer(on[s], "dead")
  /\ Goto(s, "withheld")
  /\ UNCHANGED <<waitVars, job, on, said, how, processed, stopping, scan>>

Doubt(s) ==
  /\ pc[s] = "withheld"
  /\ PutState(on[s], "unknown")
  /\ Goto(s, "exited")
  /\ UNCHANGED <<answer, waitVars, job, on, said, how, processed, stopping, scan>>

\* A statement of the handler fails: into its catch from inside the try, out of
\* the handler from before it and from the catch itself.
StatementFails(s) ==
  /\ "database" \in Env
  /\ \/ pc[s] \in {"checking", "storing", "outbound", "closing"} /\ Goto(s, "failing")
     \/ pc[s] \in {"handler", "failing", "withheld"} /\ Goto(s, "exited")
  /\ UNCHANGED <<taskVars, answer, waitVars, job, on, said, how, processed, stopping, scan>>

(***************************************************************************)
(* Waiting                                                                 *)
(***************************************************************************)
\* The 250 ms poll of the durable answer.
Poll(m) ==
  /\ waiter[m] = "waiting"
  /\ result[m] # "none"
  /\ waiter' = [waiter EXCEPT ![m] = answer[m]]
  /\ UNCHANGED <<taskVars, answer, home, job, slotVars, processed, stopping, scan>>

TimeOut(m) ==
  /\ "timeout" \in Env
  /\ waiter[m] = "waiting"
  /\ waiter' = [waiter EXCEPT ![m] = "rejected"]
  /\ UNCHANGED <<taskVars, answer, home, job, slotVars, processed, stopping, scan>>

(***************************************************************************)
(* Cancellation, and the coordinator's scan                                *)
(***************************************************************************)
\* cancelOwnedTargets: the durable intent, before any process is told.
Stop(m) ==
  /\ "stop" \in Env
  /\ m \notin stopping
  /\ Change(m, "terminated")
  /\ stopping' = stopping \cup {m}
  /\ UNCHANGED <<answer, waitVars, job, slotVars, processed, scan>>

\* The command's last step: a promise of its own process is rejected.
StopWaiter(m) ==
  /\ m \in stopping
  /\ stopping' = stopping \ {m}
  /\ \/ waiter[m] = "waiting" /\ waiter' = [waiter EXCEPT ![m] = "rejected"]
     \/ UNCHANGED waiter
  /\ UNCHANGED <<taskVars, answer, home, job, slotVars, processed, scan>>

\* The family's user pauses, resumes or terminates the run.
ControlRun(d) ==
  /\ d \in Env
  /\ desired[Run] # d
  /\ Change(Run, d)
  /\ UNCHANGED <<answer, waitVars, job, slotVars, processed, stopping, scan>>

\* Fault: only jobs are settled before they start.
SettleJobOnly(t) ==
  /\ t \in Jobs
  /\ SettleUnstarted(t)
  /\ UNCHANGED <<answer, waitVars, job, slotVars, processed, stopping, scan>>

\* deliver(): a task that is terminated and was never started is settled.
SettleTask(t) ==
  /\ t \in Message \cup Jobs
  /\ SettleUnstarted(t)
  /\ answer' = [m \in Message |-> IF result'[m] # result[m] THEN "dead" ELSE answer[m]]
  /\ UNCHANGED <<waitVars, job, slotVars, processed, stopping, scan>>

\* It was not, when the scan looked: the scan goes on to the task's children.
ScanOpen(m) == Registered(m) /\ state[m] # "completed" /\ ~Unstarted(m)

ScanOn(m) ==
  /\ "slowscan" \in Env
  /\ ScanOpen(m)
  /\ scan' = scan \cup {m}
  /\ UNCHANGED <<taskVars, answer, waitVars, job, slotVars, processed, stopping>>

\* The message is over when its job is.  In an instance without slow scans nothing
\* happens between the two.
ScanChildren(m) ==
  /\ IF "slowscan" \in Env THEN m \in scan ELSE ScanOpen(m)
  /\ scan' = scan \ {m}
  /\ IF state[JobOf[m]] = "completed" THEN PutState(m, "completed") ELSE UNCHANGED taskVars
  /\ UNCHANGED <<answer, waitVars, job, slotVars, processed, stopping>>

(***************************************************************************)
(* The system                                                              *)
(***************************************************************************)
RelayInit ==
  /\ entry    = [t \in Task |-> IF t = Run THEN NewEntry(Run, NoTask, "attached", FALSE) ELSE NoEntry]
  /\ desired  = [t \in Task |-> "running"]
  /\ state    = [t \in Task |-> IF t = Run THEN "running" ELSE "absent"]
  /\ claim    = [t \in Task |-> NoToken]
  /\ outcome  = [t \in Task |-> "none"]
  /\ admitted = {}
  /\ current  = [t \in Task |-> NoAttempt]
  /\ attempts = [t \in Task |-> {}]
  /\ outbox   = [t \in Task |-> "none"]
  /\ result   = [t \in Task |-> "none"]
  /\ answer   = [m \in Message |-> "none"]
  /\ waiter   = [m \in Message |-> "none"]
  /\ home     = [m \in Message |-> NoProcess]
  /\ job      = [m \in Message |-> "none"]
  /\ pc       = [s \in Process |-> "idle"]
  /\ on       = [s \in Process |-> NoTask]
  /\ said     = [s \in Process |-> "none"]
  /\ how      = [s \in Process |-> "none"]
  /\ processed = {} /\ stopping = {} /\ scan = {}

MessageNext(m) ==
  \/ \E p \in Task : Enqueue(m, p) \/ \E s \in Process : EnqueueAndWait(m, p, s)
  \/ PublishControlled(m) \/ MarkPublished(m) \/ AddJob(m) \/ Stall(m)
  \/ Poll(m) \/ TimeOut(m)
  \/ Stop(m) \/ StopWaiter(m) \/ ScanOn(m) \/ ScanChildren(m)

HandlerStep(s) ==
  \/ Begin(s) \/ Admit(s) \/ Dispatch(s) \/ \E r \in Reply : Return(s, r)
  \/ Store(s) \/ SendOutbound(s) \/ Close(s) \/ Resolve(s) \/ Fail(s) \/ Doubt(s)
  \/ Finish(s)

ProcessNext(s) ==
  \/ \E m \in Message : Deliver(s, m)
  \/ ClaimJob(s) \/ TurnAway(s) \/ HandlerStep(s) \/ Throw(s) \/ StatementFails(s)
  \/ Crash(s) \/ Restart(s)

RelayNext ==
  \/ \E m \in Message : MessageNext(m)
  \/ \E s \in Process : ProcessNext(s)
  \/ \E t \in Task : SettleTask(t)
  \/ \E d \in Intent : ControlRun(d)

RelaySpec == RelayInit /\ [][RelayNext]_relayVars

(***************************************************************************)
(* Fairness: the intervals of the relays, of the coordinator and of the    *)
(* poll run; the queue serves waiting jobs in order and a slot's code runs *)
(* on; a processor returns once what it awaits is settled.  No timeout, no *)
(* stop, no resume and no crash is promised.                               *)
(***************************************************************************)
RelayFairness ==
  /\ \A m \in Message :
       /\ WF_relayVars(PublishControlled(m)) /\ WF_relayVars(MarkPublished(m))
       /\ WF_relayVars(AddJob(m)) /\ WF_relayVars(Poll(m))
       /\ WF_relayVars(ScanOn(m)) /\ WF_relayVars(ScanChildren(m))
       /\ SF_relayVars(\E s \in Process : Deliver(s, m))
       /\ SF_relayVars(\E s \in Process : on[s] = m /\ ClaimJob(s))
       /\ WF_relayVars(job[m] \in Process /\ pc[job[m]] = "dead" /\ Stall(m))
  /\ \A s \in Process :
       WF_relayVars(HandlerStep(s)) /\ WF_relayVars(TurnAway(s)) /\ WF_relayVars(Restart(s))
  /\ \A t \in Task : WF_relayVars(SettleTask(t))

FairRelaySpec == RelaySpec /\ RelayFairness

(***************************************************************************)
(* Properties                                                              *)
(***************************************************************************)
Inside(m) == \E s \in Process : pc[s] = "body" /\ on[s] = m

\* The abstract contract of controlled execution, now for the message and its
\* processor: through the second outbox, redelivery and cancellation a
\* processor is called at most once, and the handoff is never declared
\* completed while it runs, nor is it called after that.
Contract == INSTANCE HandlerOnce WITH
  Task    <- Message,
  body    <- [m \in Message |-> IF m \notin processed THEN "fresh"
                                ELSE IF Inside(m) THEN "inside" ELSE "left"],
  verdict <- [m \in Message |-> IF state[m] = "completed" THEN "settled" ELSE "open"]

\* Controlled handoff messages refine HandlerOnce.
ProcessorOnceSpec == Contract!Spec

\* Every step is one operation of the ledger, or none.
OnlyLedgerSteps == [][TaskNext]_taskVars

\* Both ways to a waiter agree: whatever enqueueAndWait returned, from the
\* registry of its own process or from the durable row, is the durable answer.
AnswersAgree ==
  \A m \in Message : waiter[m] \in Reply => waiter[m] = answer[m]

\* "Canceled before dispatch" is only ever said of a message whose processor
\* was not called and never will be.
CanceledBeforeDispatch ==
  \A m \in Message : result[m] = "canceled" => m \notin processed

\* A process died inside the message's job: nobody may release its claim.
Stranded(m) == claim[JobOf[m]] \in Process /\ pc[claim[JobOf[m]]] = "dead"

\* The message is over and says nothing to whoever waits: a slow scan closed it
\* after its cancellation ended its job, or the row could not be written.
Silent(m) == state[m] = "completed" /\ result[m] = "none"

\* The message waits for one of its own family that will never report.
InDoubt(m) == \E n \in Message : m \in entry[n].lineage /\ (Stranded(n) \/ Silent(n))

\* A cancelled message is confirmed over, wherever the cancellation met it:
\* before its job exists, in the queue, in a processor or after it.
CancelledIsOver ==
  \A m \in Message :
    Registered(m) /\ IntentOf(m) = "terminated" ~> state[m] = "completed" \/ InDoubt(m)

\* A caller that waits is answered without its timeout, also while its family
\* is paused, also when the promise and the processor live in different
\* processes, and also when the waiting caller is itself a processor.
WaiterIsAnswered ==
  \A m \in Message : waiter[m] = "waiting" ~> waiter[m] # "waiting" \/ InDoubt(m)
=============================================================================
