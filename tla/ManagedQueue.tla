---------------------------- MODULE ManagedQueue ----------------------------
(***************************************************************************)
(* Controlled managed-queue jobs: the outbox and its relay, the BullMQ     *)
(* queue, the workers' claim / run / receipt protocol, cancellation, the   *)
(* coordinator, and the run whose family the jobs belong to.               *)
(*                                                                         *)
(*   packages/server/src/managed-queue/managed-queue.service.ts            *)
(*   packages/server/src/managed-queue/controlled-job.ts                   *)
(*   packages/server/src/managed-queue/managed-queue.processor.ts          *)
(*   packages/server/src/task-control/task-control.runner.ts               *)
(*   packages/server-ai/src/agent-invocation/task-control-coordinator...   *)
(*                                                                         *)
(* Each worker below is one job slot of one process, and the claim it      *)
(* takes is named after it.  A slot is reused only when its claim cannot   *)
(* be confused with a later one, as a fresh uuid cannot.                   *)
(***************************************************************************)
EXTENDS TaskControl

CONSTANTS
  Worker,       \* job slots; Token = Worker
  Run,          \* the run's own task: a task of kind 'execution', root of its family
  Env           \* what the environment may do: failures, cancellations, detached jobs

EnvKinds == {"relay", "stall", "database", "crash", "host", "resume", "cancel", "detach"}

Job == Task \ {Run}

ASSUME QueueAssumption ==
  /\ Token = Worker
  /\ Run \in Task /\ Run \notin Mailed
  /\ Mailed = Job /\ Handoff = {}
  /\ Env \subseteq EnvKinds
  /\ Worker \cap {"none", "waiting", "finished", "failed"} = {}   \* a worker is no job state

VARIABLES
  relay,    \* publications read as due whose queue.add has not been issued
  added,    \* publications added to the queue and not yet marked published
  job,      \* the BullMQ job: none, waiting, held by a worker, finished, failed
  pc,       \* where each worker is
  on,       \* the task a worker was given
  why,      \* the reason the store rejected the worker's claim
  how,      \* the outcome the runner will report
  aborted,  \* the worker's AbortController
  owes,     \* the worker's process keeps an unflushed exit receipt
  entered,  \* the tasks whose handler body was ever entered (history)
  removing, \* cancellations between their change(terminated) and their second step
  host,     \* the thread's run state as the queue's tasks can observe it
  code      \* the process that executes the run's graph

relayVars  == <<relay, added>>
workerVars == <<pc, on, why, how, aborted, owes, entered>>
hostVars   == <<host, code>>
mqVars     == <<taskVars, relayVars, job, workerVars, removing, hostVars>>

WorkerAt == {"idle", "delivered", "rejected", "settling", "claimed", "body", "exited",
             "returned", "parked", "dead"}

\* The ledger, the queue and the workers' locals keep their types.
MQTypeOK ==
  /\ TypeOK
  /\ relay \subseteq Job /\ added \subseteq Job
  /\ job \in [Job -> {"none", "waiting", "finished", "failed"} \cup Worker]
  /\ pc \in [Worker -> WorkerAt]
  /\ on \in [Worker -> Job \cup {NoTask}]
  /\ why \in [Worker -> {"none", "terminated", "paused", "claimed"}]
  /\ how \in [Worker -> Outcome]
  /\ aborted \in [Worker -> BOOLEAN] /\ owes \in [Worker -> BOOLEAN]
  /\ entered \subseteq Job
  /\ removing \in [Job -> {"no", "settle", "remove"}]
  /\ host \in {"running", "settling", "pausing", "paused", "resuming", "terminating", "ended"}
  /\ code \in {"live", "starting", "stopped", "orphan", "lost"}

(***************************************************************************)
(* Publishing: outbox first, then the transport                            *)
(***************************************************************************)
\* Code that may publish below p: the run's graph and tools, or p's handler body.
Producing(p) ==
  IF p = Run THEN code = "live" ELSE \E w \in Worker : pc[w] = "body" /\ on[w] = p

PublishJob(p, t, pol, drain) ==
  /\ t \in Job
  /\ Producing(p)
  /\ pol = "detached" => "detach" \in Env
  /\ Publish(t, p, pol, drain)
  /\ relay' = relay \cup {t}
  /\ UNCHANGED <<added, job, workerVars, removing, hostVars>>

\* A process of the cluster lists the row as due.
ReadDue(t) ==
  /\ outbox[t] = "due"
  /\ relay' = relay \cup {t}
  /\ UNCHANGED <<taskVars, added, job, workerVars, removing, hostVars>>

\* queue.add: a no-op for BullMQ when a job of that id exists.
AddJob(t) ==
  /\ t \in relay
  /\ relay' = relay \ {t}
  /\ added' = added \cup {t}
  /\ job' = [job EXCEPT ![t] = IF @ = "none" THEN "waiting" ELSE @]
  /\ UNCHANGED <<taskVars, workerVars, removing, hostVars>>

\* Fault: the row is marked although the queue refused the job.
AddFailsMarked(t) ==
  /\ "relay" \in Env
  /\ t \in relay
  /\ Published(t)
  /\ relay' = relay \ {t}
  /\ UNCHANGED <<added, job, workerVars, removing, hostVars>>

\* The add failed, or its process died: the row stays due.
AddFails(t) ==
  /\ "relay" \in Env
  /\ t \in relay
  /\ relay' = relay \ {t}
  /\ UNCHANGED <<taskVars, added, job, workerVars, removing, hostVars>>

MarkPublished(t) ==
  /\ t \in added
  /\ Published(t)
  /\ added' = added \ {t}
  /\ UNCHANGED <<relay, job, workerVars, removing, hostVars>>

\* The process died after the add: the next relay adds the same job id again.
MarkLost(t) ==
  /\ "relay" \in Env
  /\ t \in added
  /\ added' = added \ {t}
  /\ UNCHANGED <<taskVars, relay, job, workerVars, removing, hostVars>>

(***************************************************************************)
(* BullMQ (external)                                                       *)
(***************************************************************************)
Deliver(w, t) ==
  /\ pc[w] = "idle"
  /\ job[t] = "waiting"
  /\ job' = [job EXCEPT ![t] = w]
  /\ pc' = [pc EXCEPT ![w] = "delivered"]
  /\ on' = [on EXCEPT ![w] = t]
  /\ UNCHANGED <<taskVars, relayVars, why, how, aborted, owes, entered, removing, hostVars>>

\* A job whose lock was not renewed goes back to waiting, or to failed when it
\* stalled too often.  Its worker may be dead or merely slow.
Stall(t, to) ==
  /\ "stall" \in Env
  /\ job[t] \in Worker
  /\ job' = [job EXCEPT ![t] = to]
  /\ UNCHANGED <<taskVars, relayVars, workerVars, removing, hostVars>>

\* What a worker's last word on a job does: nothing once it lost the lock.
Release(w, to) ==
  job' = [t \in Job |-> IF t = on[w] /\ job[t] = w THEN to ELSE job[t]]

(***************************************************************************)
(* The worker: runControlledJob and TaskControlRunner.run                  *)
(***************************************************************************)
Goto(w, label) == pc' = [pc EXCEPT ![w] = label]

\* The locals of a call that is over.
Forget(w, label) ==
  /\ Goto(w, label)
  /\ on' = [on EXCEPT ![w] = NoTask]
  /\ why' = [why EXCEPT ![w] = "none"]
  /\ how' = [how EXCEPT ![w] = "none"]
  /\ aborted' = [aborted EXCEPT ![w] = FALSE]

Keep == UNCHANGED <<on, why, how, aborted>>

ClaimOk(w) ==
  /\ pc[w] = "delivered"
  /\ Claim(on[w], w)
  /\ Goto(w, "claimed")
  /\ how' = [how EXCEPT ![w] = "failed"]
  /\ UNCHANGED <<relayVars, job, on, why, aborted, owes, entered, removing, hostVars>>

ClaimRejected(w) ==
  /\ pc[w] = "delivered"
  /\ ClaimRefusal(on[w]) # "none"
  /\ Goto(w, "rejected")
  /\ why' = [why EXCEPT ![w] = ClaimRefusal(on[w])]
  /\ UNCHANGED <<taskVars, relayVars, job, on, how, aborted, owes, entered, removing, hostVars>>

\* Anything else that throws before the claim (identity lookup, a database read)
\* fails the job, which has a single attempt.
DeliveryFails(w) ==
  /\ "database" \in Env
  /\ pc[w] = "delivered"
  /\ Release(w, "failed")
  /\ Forget(w, "idle")
  /\ UNCHANGED <<taskVars, relayVars, owes, entered, removing, hostVars>>

\* Fault: any completed task counts as a success.
AfterRejectionBlind(w) ==
  LET t == on[w]
  IN  IF state[t] = "completed" THEN "finished"
      ELSE IF why[w] = "terminated" /\ claim[t] = NoToken THEN "settle"
      ELSE "waiting"

\* The row is read again, later than the rejection.
AfterRejection(w) ==
  LET t == on[w]
  IN  IF state[t] = "completed" THEN IF outcome[t] = "failed" THEN "failed" ELSE "finished"
      ELSE IF why[w] = "terminated" /\ claim[t] = NoToken THEN "settle"
      ELSE "waiting"

HandleRejection(w) ==
  /\ pc[w] = "rejected"
  /\ IF AfterRejection(w) = "settle"
     THEN Goto(w, "settling") /\ Keep /\ UNCHANGED job
     ELSE Forget(w, "idle") /\ Release(w, AfterRejection(w))
  /\ UNCHANGED <<taskVars, relayVars, owes, entered, removing, hostVars>>

\* The receipt without a claim, in a transaction of its own.
SettleRejected(w) ==
  /\ pc[w] = "settling"
  /\ \/ Receipt(on[w], "completed", NoToken)
     \/ state[on[w]] = "completed" /\ UNCHANGED taskVars
  /\ Release(w, "finished")
  /\ Forget(w, "idle")
  /\ UNCHANGED <<relayVars, owes, entered, removing, hostVars>>

\* The runner asks for the intent once more before it calls the handler.
Enter(w) ==
  /\ pc[w] = "claimed"
  /\ ~aborted[w]
  /\ IntentOf(on[w]) # "terminated"
  /\ Goto(w, "body")
  /\ entered' = entered \cup {on[w]}
  /\ UNCHANGED <<taskVars, relayVars, job, on, why, how, aborted, owes, removing, hostVars>>

\* Aborted before it began, or the intent could not be read: the body is skipped.
Refuse(w) ==
  /\ pc[w] = "claimed"
  /\ aborted[w] \/ IntentOf(on[w]) = "terminated" \/ "database" \in Env
  /\ Goto(w, "exited")
  /\ UNCHANGED <<taskVars, relayVars, job, on, why, how, aborted, owes, entered, removing, hostVars>>

\* The runner's one-second poll.
Abort(w) ==
  /\ pc[w] \in {"claimed", "body"}
  /\ IntentOf(on[w]) = "terminated"
  /\ ~aborted[w]
  /\ aborted' = [aborted EXCEPT ![w] = TRUE]
  /\ UNCHANGED <<taskVars, relayVars, job, pc, on, why, how, owes, entered, removing, hostVars>>

\* The handler's promise settles; an abort is a request, not an exit.
Exit(w, result0) ==
  /\ pc[w] = "body"
  /\ Goto(w, "exited")
  /\ how' = [how EXCEPT ![w] = result0]
  /\ UNCHANGED <<taskVars, relayVars, job, on, why, aborted, owes, entered, removing, hostVars>>

\* finishClaim, or nothing when the claim is no longer on the row.
PutExit(w) ==
  \/ FinishClaim(on[w], w, how[w])
  \/ claim[on[w]] # w /\ UNCHANGED taskVars

Flush(w) ==
  /\ pc[w] = "exited"
  /\ PutExit(w)
  /\ Goto(w, "returned")
  /\ UNCHANGED <<relayVars, job, on, why, how, aborted, owes, entered, removing, hostVars>>

\* Fault: a receipt that could not be written is forgotten.
FlushForgotten(w) ==
  /\ "database" \in Env
  /\ pc[w] = "exited"
  /\ Goto(w, "returned")
  /\ UNCHANGED <<taskVars, relayVars, job, on, why, how, aborted, owes, entered, removing, hostVars>>

\* The database refused the receipt: the claim stays on the row.
FlushFails(w) ==
  /\ "database" \in Env
  /\ pc[w] = "exited"
  /\ Goto(w, "returned")
  /\ owes' = [owes EXCEPT ![w] = TRUE]
  /\ UNCHANGED <<taskVars, relayVars, job, on, why, how, aborted, entered, removing, hostVars>>

\* The handler's own result decides the job.
Return(w) ==
  /\ pc[w] = "returned"
  /\ Release(w, IF how[w] = "succeeded" THEN "finished" ELSE "failed")
  /\ IF owes[w] THEN Goto(w, "parked") /\ Keep ELSE Forget(w, "idle")
  /\ UNCHANGED <<taskVars, relayVars, owes, entered, removing, hostVars>>

FlushLater(w) ==
  /\ owes[w]
  /\ PutExit(w)
  /\ owes' = [owes EXCEPT ![w] = FALSE]
  /\ IF pc[w] = "parked" THEN Forget(w, "idle") ELSE UNCHANGED pc /\ Keep
  /\ UNCHANGED <<relayVars, job, entered, removing, hostVars>>

\* The process is killed: body, promises and unflushed receipts are gone.
Crash(w) ==
  /\ "crash" \in Env
  /\ pc[w] \notin {"idle", "dead"}
  /\ Forget(w, "dead")
  /\ owes' = [owes EXCEPT ![w] = FALSE]
  /\ UNCHANGED <<taskVars, relayVars, job, entered, removing, hostVars>>

\* A new process.  It knows nothing of the claim its predecessor left behind.
Restart(w) ==
  /\ pc[w] = "dead"
  /\ \A t \in Job : job[t] # w /\ claim[t] # w
  /\ Goto(w, "idle")
  /\ UNCHANGED <<taskVars, relayVars, job, on, why, how, aborted, owes, entered, removing, hostVars>>

(***************************************************************************)
(* Cancellation of one job, and the coordinator's scan                     *)
(***************************************************************************)
\* cancel(): whether the job exists is read first; the termination then commits.
Cancel(t) ==
  /\ "cancel" \in Env
  /\ removing[t] = "no"
  /\ Change(t, "terminated")
  /\ removing' = [removing EXCEPT ![t] = IF job[t] = "none" THEN "settle" ELSE "remove"]
  /\ UNCHANGED <<relayVars, job, workerVars, hostVars>>

\* No job was found: the task is settled if no handler was admitted.
CancelSettle(t) ==
  /\ removing[t] = "settle"
  /\ removing' = [removing EXCEPT ![t] = "no"]
  /\ SettleUnstarted(t) \/ (~Unstarted(t) /\ UNCHANGED taskVars)
  /\ UNCHANGED <<relayVars, job, workerVars, hostVars>>

\* A job was found: it is removed unless a worker holds it or it is over.
CancelRemove(t) ==
  /\ removing[t] = "remove"
  /\ removing' = [removing EXCEPT ![t] = "no"]
  /\ job' = [job EXCEPT ![t] = IF @ = "waiting" THEN "none" ELSE @]
  /\ UNCHANGED <<taskVars, relayVars, workerVars, hostVars>>

\* deliver() for a managed-queue task.
Coordinate(t) ==
  /\ SettleUnstarted(t)
  /\ UNCHANGED <<relayVars, job, workerVars, removing, hostVars>>

(***************************************************************************)
(* The run that owns the family (ThreadRun models it in full)              *)
(***************************************************************************)
envVars == <<relayVars, job, workerVars, removing>>

RequestPause ==
  /\ host = "running"
  /\ Change(Run, "paused")
  /\ host' = "pausing"
  /\ UNCHANGED <<envVars, code>>

\* The graph returned and its tools reported; a paused graph stops at its next node.
GraphStops ==
  /\ code \in {"live", "starting"}
  /\ code = "starting" => host = "terminating"
  /\ code' = "stopped"
  /\ UNCHANGED <<taskVars, envVars, host>>

\* finish(), by the owner or by lease maintenance.  saved: the graph stopped at a
\* checkpoint because of the pause, rather than by reaching its end or an error.
Finish(saved) ==
  /\ code = "stopped"
  /\ host \in {"running", "settling", "pausing", "terminating"}
  /\ LET next == IF IntentOf(Run) = "terminated" THEN "terminating" ELSE host
         quiet == Settled(Run, next = "pausing")
     IN  IF ~quiet
         THEN /\ host' = IF next = "running" THEN "settling" ELSE next
              /\ UNCHANGED taskVars
         ELSE IF next = "pausing" /\ saved
              THEN host' = "paused" /\ Receipt(Run, "paused", NoToken)
              ELSE host' = "ended" /\ Receipt(Run, "completed", NoToken)
  /\ UNCHANGED <<envVars, code>>

\* Fault: the termination is copied to the rows below instead of being inherited.
TerminateCopies ==
  /\ host \in {"running", "settling", "pausing", "paused", "resuming"}
  /\ desired' = [t \in Task |-> IF Run \in entry[t].lineage THEN "terminated" ELSE desired[t]]
  /\ host' = "terminating"
  /\ UNCHANGED <<entry, runVars, execVars, mailVars>>
  /\ UNCHANGED <<envVars, code>>

Terminate ==
  /\ host \in {"running", "settling", "pausing", "paused", "resuming"}
  /\ Change(Run, "terminated")
  /\ host' = "terminating"
  /\ UNCHANGED <<envVars, code>>

ClaimResume ==
  /\ host = "paused"
  /\ Change(Run, "running")
  /\ host' = "resuming"
  /\ code' = "starting"
  /\ UNCHANGED envVars

\* The resumed execution takes over; its task is running again.
BindResumed ==
  /\ host = "resuming" /\ code = "starting"
  /\ Receipt(Run, "running", NoToken)
  /\ host' = "running"
  /\ code' = "live"
  /\ UNCHANGED envVars

\* The resume failed before it was bound: back to the saved boundary.
ReleaseResume ==
  /\ "resume" \in Env
  /\ host = "resuming" /\ code = "starting"
  /\ Change(Run, "paused")
  /\ host' = "paused"
  /\ code' = "stopped"
  /\ UNCHANGED envVars

\* The run's process dies, with or without a tool whose return nobody saw.
HostCrash ==
  /\ "host" \in Env
  /\ code \in {"live", "starting"}
  /\ \E lost \in {"orphan", "lost"} :
       /\ code = "starting" => lost = "orphan"
       /\ code' = lost
  /\ UNCHANGED <<taskVars, envVars, host>>

\* settleOrphan(), once the lease expired.
RecoverOrphan ==
  /\ code \in {"orphan", "lost"}
  /\ host \in {"running", "pausing", "resuming", "terminating"}
  /\ IF code = "orphan" /\ Settled(Run, FALSE)
     THEN Retire(Run) /\ host' = "ended"
     ELSE Change(Run, "terminated") /\ host' = "terminating"
  /\ UNCHANGED <<envVars, code>>

MQInit ==
  /\ entry    = [t \in Task |-> IF t = Run THEN NewEntry(Run, NoTask, "attached", FALSE) ELSE NoEntry]
  /\ desired  = [t \in Task |-> "running"]
  /\ state    = [t \in Task |-> IF t = Run THEN "running" ELSE "absent"]
  /\ claim    = [t \in Task |-> NoToken]
  /\ outcome  = [t \in Task |-> "none"]
  /\ admitted = {}
  /\ current  = [t \in Task |-> NoAttempt]
  /\ attempts = [t \in Task |-> {}]
  /\ outbox   = [t \in Task |-> "none"]
  /\ result   = [t \in Task |-> "none"]
  /\ relay = {} /\ added = {}
  /\ job = [t \in Job |-> "none"]
  /\ pc = [w \in Worker |-> "idle"]
  /\ on = [w \in Worker |-> NoTask]
  /\ why = [w \in Worker |-> "none"]
  /\ how = [w \in Worker |-> "none"]
  /\ aborted = [w \in Worker |-> FALSE]
  /\ owes = [w \in Worker |-> FALSE]
  /\ entered = {}
  /\ removing = [t \in Job |-> "no"]
  /\ host = "running"
  /\ code = "live"

RelayNext(t)  == ReadDue(t) \/ AddJob(t) \/ AddFails(t) \/ MarkPublished(t) \/ MarkLost(t)
CancelNext(t) == Cancel(t) \/ CancelSettle(t) \/ CancelRemove(t) \/ Coordinate(t)

WorkerNext(w) ==
  \/ ClaimOk(w) \/ ClaimRejected(w) \/ DeliveryFails(w) \/ HandleRejection(w)
  \/ SettleRejected(w) \/ Enter(w) \/ Refuse(w) \/ Abort(w)
  \/ \E r \in {"succeeded", "failed"} : Exit(w, r)
  \/ Flush(w) \/ FlushFails(w) \/ Return(w) \/ FlushLater(w) \/ Crash(w) \/ Restart(w)

HostNext ==
  \/ RequestPause \/ GraphStops \/ Terminate \/ ClaimResume \/ BindResumed \/ ReleaseResume
  \/ \E saved \in BOOLEAN : Finish(saved)
  \/ HostCrash \/ RecoverOrphan

MQNext ==
  \/ \E p \in Task, t \in Job, pol \in Policy, drain \in BOOLEAN : PublishJob(p, t, pol, drain)
  \/ \E t \in Job : RelayNext(t) \/ CancelNext(t)
  \/ \E t \in Job, to \in {"waiting", "failed"} : Stall(t, to)
  \/ \E w \in Worker : WorkerNext(w) \/ \E t \in Job : Deliver(w, t)
  \/ HostNext

MQSpec == MQInit /\ [][MQNext]_mqVars

(***************************************************************************)
(* Fairness                                                                *)
(*                                                                         *)
(* Worker steps and their timers run; the relay, the coordinator and lease *)
(* maintenance are intervals; a queue that keeps being asked accepts the   *)
(* job, and it serves waiting jobs in order.  Stalls and failed reads do   *)
(* not hit every delivery of a job (BullMQ bounds its stalls).  A graph    *)
(* stops at its next node once the run is pausing or terminating, and a    *)
(* handler returns.                                                        *)
(* Nothing obliges users, failures or a live worker to do anything.        *)
(***************************************************************************)
WorkerStep(w) ==
  \/ ClaimOk(w) \/ ClaimRejected(w) \/ HandleRejection(w) \/ SettleRejected(w)
  \/ Enter(w) \/ Refuse(w) \/ Abort(w)
  \/ \E r \in {"succeeded", "failed"} : Exit(w, r)
  \/ Flush(w) \/ Return(w) \/ FlushLater(w)

StallDead(t) ==
  /\ job[t] \in Worker /\ pc[job[t]] = "dead"
  /\ \E to \in {"waiting", "failed"} : Stall(t, to)

Fairness ==
  /\ \A t \in Job :
       /\ WF_mqVars(ReadDue(t)) /\ SF_mqVars(AddJob(t)) /\ WF_mqVars(MarkPublished(t))
       /\ WF_mqVars(Coordinate(t))
       /\ SF_mqVars(\E w \in Worker : Deliver(w, t))
       /\ WF_mqVars(StallDead(t))
       /\ SF_mqVars(\E w \in Worker : on[w] = t /\ ClaimOk(w))
  /\ \A w \in Worker : WF_mqVars(WorkerStep(w)) /\ WF_mqVars(Restart(w))
  /\ WF_mqVars(host \in {"pausing", "terminating"} /\ GraphStops)
  /\ WF_mqVars(\E saved \in BOOLEAN : Finish(saved))
  /\ WF_mqVars(BindResumed)
  /\ WF_mqVars(RecoverOrphan)

FairMQSpec == MQSpec /\ Fairness

(***************************************************************************)
(* Properties                                                              *)
(***************************************************************************)
Inside(t) == \E w \in Worker : pc[w] = "body" /\ on[w] = t

\* The composition implements the abstract contract of controlled execution:
\* through redelivery, lost locks, lost receipts, crashes and cancellations a
\* handler body is entered at most once, and a task is declared completed only
\* while nobody is inside its body and nobody enters it later.
Contract == INSTANCE HandlerOnce WITH
  Task    <- Job,
  body    <- [t \in Job |-> IF t \notin entered THEN "fresh"
                            ELSE IF Inside(t) THEN "inside" ELSE "left"],
  verdict <- [t \in Job |-> IF state[t] = "completed" THEN "settled" ELSE "open"]

\* Controlled managed-queue jobs refine HandlerOnce.
HandlerOnceSpec == Contract!Spec

\* Every step of the composition is one operation of the ledger, or none: no
\* client bypasses the store, so what is proved of TaskSpec's steps holds here.
OnlyLedgerSteps == [][TaskNext]_taskVars

\* A failure that a handler already reported is kept: no redelivery, retry or
\* late receipt lets the queue record the job as a success.
FailureNotMasked == \A t \in Job : job[t] = "finished" => outcome[t] # "failed"

\* When the thread is free for the next run, no handler of the previous run's
\* family is running or admitted.
FreedRunIsQuiet ==
  host = "ended" => \A t \in Descendants(Run) : ~Inside(t) /\ claim[t] = NoToken

\* Below the run some handler runs, or holds an admission.
Busy == \E t \in Descendants(Run) : Inside(t) \/ claim[t] # NoToken

\* The one run of the composition keeps the contract that ThreadRun's runs keep, with a
\* family of any shape below it: its handlers work only while it holds the thread.  No
\* run lists this; it is proved.
Turns == INSTANCE RunsInTurn WITH
  Run     <- {Run},
  stage   <- [r \in {Run} |-> IF host = "ended" THEN "closed" ELSE "open"],
  working <- [r \in {Run} |-> Busy]

RunInTurnSpec == Turns!Spec

\* While a run is confirmed paused no handler of its family is running or
\* admitted; only jobs that wait for the resume are left.
PausedRunIsQuiet ==
  host = "paused" => \A t \in Descendants(Run) : ~Inside(t) /\ claim[t] = NoToken

\* A claim held by a worker that no longer exists: nobody may release it.
Stranded(t) == claim[t] \in Worker /\ pc[claim[t]] = "dead"

\* BullMQ gave the job up, after repeated stalls or an error before the claim,
\* while its task still waits to run.
GivenUp(t) == job[t] = "failed" /\ state[t] = "queued"

\* A terminated run always ends, whatever the queue did with its jobs, unless a
\* worker died inside one of its tasks or its own process died with a tool open:
\* those stay in doubt by design.
TerminatedRunEnds ==
  desired[Run] = "terminated" ~>
    (host = "ended" \/ code = "lost" \/ \E t \in Descendants(Run) : Stranded(t))

\* A pause is always confirmed, or replaced by an end: the run never waits for a
\* job that its own pause keeps from starting.
PauseConfirmed ==
  host = "pausing" ~>
    (host # "pausing" \/ code = "lost" \/ \E t \in Descendants(Run) : Stranded(t) \/ GivenUp(t))

\* A published job is handed to a worker and run, although the process that
\* published it may die at any point between its transaction and the queue.
PublishedJobRuns ==
  \A t \in Job : outbox[t] = "due" ~>
    \/ t \in entered
    \/ state[t] = "completed" \/ IntentOf(t) # "running"
    \/ GivenUp(t) \/ Stranded(t)
=============================================================================
