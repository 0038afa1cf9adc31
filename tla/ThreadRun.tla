------------------------------ MODULE ThreadRun ------------------------------
(***************************************************************************)
(* The runs of one conversation thread: start, pause, stop, resume, input  *)
(* wait, finalization, lease expiry and recovery, over the execution       *)
(* ledger (who may admit tools) and the task ledger (who owns what).       *)
(*                                                                         *)
(*   packages/server-ai/src/chat-conversation/thread-run-control.service.ts*)
(*   packages/server-ai/src/execution-control/execution-control.store.ts   *)
(*   packages/server-ai/src/ai/commands/handlers/run-create-stream...      *)
(*   packages/server-ai/src/xpert-agent/commands/handlers/invoke.handler.ts*)
(*                                                                         *)
(* Every method of the service runs under the thread's row lock, so it is  *)
(* one atomic action.  What runs between two methods (a graph, a tool, a   *)
(* resume request, one pass of lease maintenance) is a sequence of actions.*)
(*                                                                         *)
(* An execution is used once: a new run and every resume attempt create a  *)
(* fresh one, so an execution also names the resume claim that brought it  *)
(* (resumeClaimId) and the process that drives it.  Abstracted:            *)
(* pauseId beyond its presence (a paused control has one execution and one *)
(* pauseId), graph revisions, display metadata, inherited pauses.          *)
(***************************************************************************)
EXTENDS TaskControl

CONSTANTS
  Kid, \* one attached child task, standing for the family below the runs
  Env  \* what users and the environment may do

EnvKinds == {"pause", "resume", "input", "cancel", "tool", "kid", "expire", "crash"}

Exec == Attempt

ASSUME RunAssumption ==
  /\ Kid \in Task /\ Task = Exec \cup {Kid} /\ Kid \notin Exec
  /\ Mailed = {} /\ Token # {}
  /\ Env \subseteq EnvKinds

VARIABLES
  ctl,    \* thread.runControl
  status, \* thread.status
  lease,  \* the private lease in thread.metadata
  ledger, \* per execution: the ExecutionControl row
  tool,   \* per execution: an admitted tool call that has not returned, or never will
  drv,    \* where the code that drives each execution is
  exit,   \* how its graph ended
  origin, \* the execution that a resume request continues (resumedFromExecutionId)
  sweep,  \* one pass of maintainLeases over one thread
  asked   \* a pause request was accepted and not yet resumed from (history)

threadVars == <<ctl, status, lease>>
driverVars == <<drv, exit, origin>>
trVars     == <<taskVars, threadVars, ledger, tool, driverVars, sweep, asked>>

NoRun   == [exec |-> NoAttempt, state |-> "none", saved |-> FALSE, claimed |-> FALSE,
            ticket |-> NoAttempt, pend |-> "none", pid |-> FALSE]
NoLease == [exec |-> NoAttempt, by |-> NoAttempt, live |-> FALSE]
NoSweep == [at |-> "idle", exec |-> NoAttempt]

RunState  == {"none", "running", "pausing", "paused", "input_wait", "settling", "terminating"}
Final     == {"idle", "error", "interrupted"}

\* The thread row, its lease, the execution rows and the drivers keep their types.
TRTypeOK ==
  /\ TypeOK
  /\ ctl \in [exec : Exec \cup {NoAttempt}, state : RunState, saved : BOOLEAN, claimed : BOOLEAN,
              ticket : Exec \cup {NoAttempt}, pend : Final \cup {"none"}, pid : BOOLEAN]
  /\ (ctl.exec = NoAttempt) = (ctl.state = "none")
  /\ status \in Final \cup {"busy", "pausing", "paused"}
  /\ lease \in [exec : Exec \cup {NoAttempt}, by : Exec \cup {NoAttempt}, live : BOOLEAN]
  /\ ledger \in [Exec -> [desired : Intent \cup {"none"}, ended : BOOLEAN]]
  /\ tool \in [Exec -> {"none", "open", "lost"}]
  /\ drv \in [Exec -> {"new", "starting", "bound", "running", "stopping", "ending", "returned",
                       "over", "dead"}]
  /\ exit \in [Exec -> Final \cup {"none", "input"}]
  /\ origin \in [Exec -> Exec \cup {NoAttempt}]
  /\ sweep \in [at : {"idle", "listed", "drained"}, exec : Exec \cup {NoAttempt}]
  /\ asked \in BOOLEAN

(***************************************************************************)
(* The execution ledger                                                    *)
(***************************************************************************)
Expired == lease # NoLease /\ ~lease.live

\* intent(): terminated is a tombstone; a resume or a reopened input revives the graph.
Intend(e, d, reopen) ==
  IF ledger[e].desired = "terminated" THEN ledger[e]
  ELSE [desired |-> d, ended |-> ledger[e].ended /\ d # "running" /\ ~reopen]

SetLedger(e, row) == ledger' = [ledger EXCEPT ![e] = row]

\* assertLive(): this execution may admit a tool or register a child now.
Live(e) ==
  /\ \A t \in TaskOf(e) : current[t] = e /\ IntentOf(t) # "terminated"
  /\ ctl.exec = e /\ ctl.state \in {"running", "pausing"}
  /\ ~Expired
  /\ ledger[e].desired \notin {"none", "terminated"} /\ ~ledger[e].ended

AdmitTool(e) ==
  /\ "tool" \in Env
  /\ drv[e] \in {"running", "ending"}
  /\ tool[e] = "none"
  /\ Live(e)
  /\ tool' = [tool EXCEPT ![e] = "open"]
  /\ UNCHANGED <<taskVars, threadVars, ledger, driverVars, sweep, asked>>

\* Only the tool's actual return settles it; its graph may be gone by then.
SettleTool(e) ==
  /\ tool[e] = "open"
  /\ tool' = [tool EXCEPT ![e] = "none"]
  /\ UNCHANGED <<taskVars, threadVars, ledger, driverVars, sweep, asked>>

(***************************************************************************)
(* Starting                                                                *)
(***************************************************************************)
Goto(e, label) == drv' = [drv EXCEPT ![e] = label]

OwnedBy(e) == [exec |-> e, by |-> e, live |-> TRUE]

Start(e) ==
  /\ drv[e] = "new"
  /\ ctl = NoRun
  /\ Open(e, e)
  /\ SetLedger(e, [desired |-> "running", ended |-> FALSE])
  /\ ctl' = [NoRun EXCEPT !.exec = e, !.state = "running"]
  /\ status' = "busy"
  /\ lease' = OwnedBy(e)
  /\ Goto(e, "running")
  /\ UNCHANGED <<tool, exit, origin, sweep, asked>>

\* The user answers an input checkpoint: the same execution goes on, towards the
\* pause if one was requested meanwhile.
StartInput(e) ==
  /\ ctl.exec = e /\ ctl.state = "input_wait"
  /\ drv[e] \in {"over", "dead"}
  /\ ledger[e].desired # "terminated"
  /\ \E t \in TaskOf(e) :
       /\ current[t] = e /\ IntentOf(t) # "terminated"
       /\ IF state[t] = "paused" THEN Receipt(t, "running", NoToken) ELSE UNCHANGED taskVars
  /\ SetLedger(e, Intend(e, ledger[e].desired, TRUE))
  /\ ctl' = [ctl EXCEPT !.state = IF ledger[e].desired = "paused" THEN "pausing" ELSE "running"]
  /\ status' = "busy"
  /\ lease' = OwnedBy(e)
  /\ Goto(e, "running")
  /\ exit' = [exit EXCEPT ![e] = "none"]
  /\ UNCHANGED <<tool, origin, sweep, asked>>

(***************************************************************************)
(* Pausing and stopping                                                    *)
(***************************************************************************)
\* The request is accepted.  A control that already has an active pause answers
\* with that pause and changes nothing.
RequestPause(e) ==
  /\ "pause" \in Env
  /\ ctl.exec = e
  /\ asked' = TRUE
  /\ \/ /\ ctl.state \in {"paused", "pausing"} \/ (ctl.state = "input_wait" /\ ctl.pid)
        /\ UNCHANGED <<taskVars, threadVars, ledger>>
     \/ /\ \/ ctl.state = "running" /\ status = "busy"
           \/ ctl.state = "input_wait" /\ ~ctl.pid
        /\ \E t \in TaskOf(e) : Change(t, "paused")
        /\ SetLedger(e, Intend(e, "paused", FALSE))
        /\ ctl' = [ctl EXCEPT !.state = IF @ = "running" THEN "pausing" ELSE @,
                              !.saved = FALSE, !.pid = TRUE]
        /\ status' = IF ctl.state = "running" THEN "pausing" ELSE status
        /\ UNCHANGED lease
  /\ UNCHANGED <<tool, driverVars, sweep>>

\* Persists the scheduling barrier and the tombstone.  A paused run has no graph
\* left that could report its end, so the end is recorded here.
Cancel(e) ==
  /\ "cancel" \in Env
  /\ ctl.exec = e /\ ctl.state # "terminating"
  /\ \E t \in TaskOf(e) : Change(t, "terminated")
  /\ SetLedger(e, [desired |-> "terminated", ended |-> ledger[e].ended \/ ctl.state = "paused"])
  /\ ctl' = [ctl EXCEPT !.state = "terminating", !.claimed = FALSE]
  /\ status' = "busy"
  /\ UNCHANGED <<lease, tool, driverVars, sweep, asked>>

\* ExecutionControlStore.terminate(): the stop command sends it to every execution it
\* names, whether or not that execution still occupies the thread, so the task that a
\* resumed execution shares with the one it superseded may be terminated behind its back.
Terminate(e) ==
  /\ "cancel" \in Env
  /\ \E t \in TaskOf(e) : Change(t, "terminated")
  /\ SetLedger(e, Intend(e, "terminated", FALSE))
  /\ UNCHANGED <<threadVars, tool, driverVars, sweep, asked>>

(***************************************************************************)
(* Resuming: claim the pause, create an execution, bind it, or give it back*)
(***************************************************************************)
ClaimResume(n) ==
  /\ "resume" \in Env
  /\ drv[n] = "new"
  /\ status = "paused" /\ ctl.state = "paused" /\ ctl.saved
  /\ \E t \in TaskOf(ctl.exec) : AncestorsRunning(t) /\ Change(t, "running")
  /\ SetLedger(ctl.exec, Intend(ctl.exec, "running", FALSE))
  /\ ctl' = [ctl EXCEPT !.state = "running", !.claimed = TRUE, !.ticket = n]
  /\ status' = "busy"
  /\ lease' = [exec |-> ctl.exec, by |-> n, live |-> TRUE]
  /\ Goto(n, "starting")
  /\ origin' = [origin EXCEPT ![n] = ctl.exec]
  /\ asked' = FALSE
  /\ UNCHANGED <<tool, exit, sweep>>

\* Only the request that claimed the pause, and only while nothing replaced the claim.
HoldsClaim(n) == ctl.state = "running" /\ ctl.ticket = n

BindResumed(n) ==
  /\ drv[n] = "starting"
  /\ HoldsClaim(n) /\ ctl.claimed
  /\ \E t \in TaskOf(ctl.exec) : Bind(t, ctl.exec, n)
  /\ ledger' = [ledger EXCEPT ![ctl.exec] = [desired |-> "paused", ended |-> TRUE],
                              ![n] = [desired |-> "running", ended |-> FALSE]]
  /\ ctl' = [ctl EXCEPT !.exec = n, !.claimed = FALSE]
  /\ lease' = OwnedBy(n)
  /\ Goto(n, "bound")
  /\ UNCHANGED <<status, tool, exit, origin, sweep, asked>>

\* The stream exists: the graph runs under this execution.
BeginGraph(n) ==
  /\ drv[n] = "bound"
  /\ Goto(n, "running")
  /\ UNCHANGED <<taskVars, threadVars, ledger, tool, exit, origin, sweep, asked>>

\* A termination of the task cannot be taken back: the transaction of the release fails.
CannotRelease == \E t \in TaskOf(ctl.exec) : IntentOf(t) = "terminated"

\* Creating the execution, binding it or creating its stream failed.  The pause
\* is given back, unless this request no longer holds it.
ReleaseResume(n) ==
  /\ drv[n] \in {"starting", "bound"}
  /\ Goto(n, "over")
  /\ IF ~HoldsClaim(n) \/ CannotRelease THEN UNCHANGED <<taskVars, threadVars, ledger>>
     ELSE \E old \in Exec, t \in TaskOf(ctl.exec) :
       /\ IF drv[n] = "starting"
          THEN /\ old = ctl.exec
               /\ Change(t, "paused")
               /\ SetLedger(old, Intend(old, "paused", FALSE))
          ELSE /\ old = origin[n]
               /\ RestoreAttempt(t, n, old)
               /\ SetLedger(n, Intend(n, "terminated", FALSE))
       /\ ctl' = [ctl EXCEPT !.exec = old, !.state = "paused", !.claimed = FALSE,
                             !.ticket = NoAttempt]
       /\ status' = "paused"
       /\ lease' = NoLease
  /\ UNCHANGED <<tool, exit, origin, sweep, asked>>

(***************************************************************************)
(* The graph                                                               *)
(***************************************************************************)
\* Fault: a node asks the thread alone.
DispossessedThread(e) ==
  \/ lease.exec = e /\ Expired
  \/ ctl.exec # e
  \/ ctl.state \notin {"running", "pausing"}

\* shouldPause() throws: this execution lost the thread, its lease or its right to run.
Dispossessed(e) ==
  \/ \E t \in TaskOf(e) : IntentOf(t) = "terminated" \/ current[t] # e
  \/ lease.exec = e /\ Expired
  \/ ctl.exec # e
  \/ ctl.state \notin {"running", "pausing"}

Returns(e, how) ==
  /\ Goto(e, "returned")
  /\ exit' = [exit EXCEPT ![e] = how]

GraphStep(e) ==
  /\ \/ \* a node or the abort signal finds the execution dispossessed
        drv[e] \in {"running", "stopping", "ending"} /\ Dispossessed(e) /\ Returns(e, "error")
     \/ \* the graph fails
        drv[e] \in {"running", "ending"} /\ Returns(e, "error")
     \/ \* the client unsubscribes from the stream
        drv[e] \in {"running", "ending"} /\ Returns(e, "interrupted")
     \/ \* the guard after the last node sees a pause request, or none: then
        \* nothing asks again before finish()
        /\ drv[e] = "running" /\ ~Dispossessed(e)
        /\ Goto(e, IF ctl.state = "pausing" THEN "stopping" ELSE "ending")
        /\ UNCHANGED exit
     \/ drv[e] = "ending" /\ Returns(e, "idle")
     \/ \* a tool approval stops the graph (stageInput)
        /\ "input" \in Env
        /\ drv[e] = "running" /\ ctl.exec = e /\ ctl.state \in {"running", "pausing"}
        /\ Returns(e, "input")
  /\ UNCHANGED <<taskVars, threadVars, ledger, tool, origin, sweep, asked>>

\* stageCheckpoint, in a transaction after the guard's read; a run stopped before
\* its first node has no checkpoint.  Persisting the message may fail afterwards.
StageCheckpoint(e) ==
  /\ drv[e] = "stopping"
  /\ \/ UNCHANGED ctl
     \/ ctl.exec = e /\ ctl.state = "pausing" /\ ctl' = [ctl EXCEPT !.saved = TRUE]
  /\ \E how \in {"interrupted", "error"} : Returns(e, how)
  /\ UNCHANGED <<taskVars, status, lease, ledger, tool, origin, sweep, asked>>

\* The attached family, as one task whose handler's life ManagedQueue models.
KidStep ==
  /\ "kid" \in Env
  /\ \/ \E e \in Exec, t \in Task, drain \in BOOLEAN :
          /\ drv[e] \in {"running", "ending"} /\ t \in TaskOf(e) /\ current[t] = e
          /\ Register(Kid, t, "attached", drain, NoAttempt) /\ UNCHANGED mailVars
     \/ \E k \in Token : Claim(Kid, k) \/ FinishClaim(Kid, k, "succeeded")
     \/ SettleUnstarted(Kid)
  /\ UNCHANGED <<threadVars, ledger, tool, driverVars, sweep, asked>>

(***************************************************************************)
(* Finalization: finish()                                                  *)
(***************************************************************************)
\* The early returns: a replaced, parked or not yet bound run is left alone, and an
\* expired owner that is terminating is left to recovery.
FinishRefused(e) ==
  \/ ctl.exec # e
  \/ ctl.state \in {"paused", "input_wait"}
  \/ ctl.claimed
  \/ ctl.state = "terminating" /\ lease.exec = e /\ Expired

\* Fault: only the execution is cleared.
FreeHalf(t, how) ==
  /\ ctl' = [ctl EXCEPT !.exec = NoAttempt]
  /\ status' = how /\ lease' = NoLease /\ asked' = FALSE
  /\ Receipt(t, "completed", NoToken)

\* Fault: the task is not told.
FreeSilently(t, how) ==
  /\ ctl' = NoRun /\ status' = how /\ lease' = NoLease /\ asked' = FALSE
  /\ UNCHANGED taskVars

\* The thread is released: the run is over, and its task with it.
Free(t, how) ==
  /\ ctl' = NoRun
  /\ status' = how
  /\ lease' = NoLease
  /\ asked' = FALSE
  /\ Receipt(t, "completed", NoToken)

\* Fault: tools are not waited for.
QuietIgnoringTools(e, t, at) == Settled(t, at = "pausing")

\* Fault: a pause waits for jobs that it keeps from starting.
QuietIgnoringPause(e, t, at) == tool[e] = "none" /\ Settled(t, FALSE)

\* The admitted tool returned and the attached family is safe.
Quiet(e, t, at) == tool[e] = "none" /\ Settled(t, at = "pausing")

\* Fault: the status that was put aside while settling is forgotten.
SaidLast(at, st) == st

\* The status put aside while the run was settling counts.
Said(at, st) == IF at = "settling" THEN ctl.pend ELSE st

PauseReached(at, said) == at = "pausing" /\ ctl.saved /\ said = "interrupted"

\* st is the caller's final status, input its pending operation.
Conclude(e, t, st, input) ==
  LET at     == IF IntentOf(t) = "terminated" THEN "terminating" ELSE ctl.state
      said   == Said(at, st)
      quiet  == Quiet(e, t, at)
      await  == at \in {"running", "pausing"} /\ input
      paused == PauseReached(at, said)
  IN  \/ /\ await
         /\ ctl' = [ctl EXCEPT !.state = "input_wait"]
         /\ status' = "interrupted"
         /\ lease' = NoLease
         /\ Receipt(t, "paused", NoToken)
         /\ UNCHANGED asked
      \/ /\ ~await /\ ~quiet /\ at \in {"running", "settling"}
         /\ ctl' = [ctl EXCEPT !.state = "settling", !.pend = said]
         /\ status' = "busy"
         /\ UNCHANGED <<taskVars, lease, asked>>
      \/ /\ ~await /\ ~quiet /\ at \in {"pausing", "terminating"}
         /\ ctl' = [ctl EXCEPT !.state = at]
         /\ status' = IF at = "terminating" THEN "busy" ELSE status
         /\ UNCHANGED <<taskVars, lease, asked>>
      \/ /\ ~await /\ quiet /\ paused
         /\ ctl' = [ctl EXCEPT !.state = "paused"]
         /\ status' = "paused"
         /\ lease' = NoLease
         /\ Receipt(t, "paused", NoToken)
         /\ UNCHANGED asked
      \/ /\ ~await /\ quiet /\ ~paused
         /\ Free(t, IF at = "terminating" THEN "interrupted" ELSE said)

FinishTx(e, st, input) ==
  IF FinishRefused(e) THEN UNCHANGED <<taskVars, threadVars, ledger, asked>>
  ELSE /\ ledger' = [ledger EXCEPT ![e].ended = TRUE]
       /\ \E t \in TaskOf(e) : Conclude(e, t, st, input)

\* The owner's stream completed.
OwnerFinish(e) ==
  /\ drv[e] = "returned"
  /\ IF exit[e] = "input" THEN FinishTx(e, "interrupted", TRUE) ELSE FinishTx(e, exit[e], FALSE)
  /\ Goto(e, "over")
  /\ UNCHANGED <<tool, exit, origin, sweep>>

(***************************************************************************)
(* Lease maintenance                                                       *)
(***************************************************************************)
\* Fault: a stopped run is left to its owner, who may have gone already.
ListUnstopped ==
  /\ sweep.at = "idle"
  /\ ctl.state \in {"pausing", "settling"}
  /\ sweep' = [at |-> "listed", exec |-> ctl.exec]
  /\ UNCHANGED <<taskVars, threadVars, ledger, tool, driverVars, asked>>

\* One query lists the threads that are stopping ...
ListStopping ==
  /\ sweep.at = "idle"
  /\ ctl.state \in {"terminating", "pausing", "settling"}
  /\ sweep' = [at |-> "listed", exec |-> ctl.exec]
  /\ UNCHANGED <<taskVars, threadVars, ledger, tool, driverVars, asked>>

\* Fault: settled tools alone count as the end of the execution.
CheckTools ==
  /\ sweep.at = "listed"
  /\ sweep' = IF tool[sweep.exec] = "none" THEN [sweep EXCEPT !.at = "drained"] ELSE NoSweep
  /\ UNCHANGED <<taskVars, threadVars, ledger, tool, driverVars, asked>>

\* ... a transaction asks whether the execution is drained ...
CheckDrained ==
  /\ sweep.at = "listed"
  /\ sweep' = IF ledger[sweep.exec].ended /\ tool[sweep.exec] = "none"
              THEN [sweep EXCEPT !.at = "drained"] ELSE NoSweep
  /\ UNCHANGED <<taskVars, threadVars, ledger, tool, driverVars, asked>>

\* ... and another one finishes it.
SweepFinish ==
  /\ sweep.at = "drained"
  /\ FinishTx(sweep.exec, "interrupted", FALSE)
  /\ sweep' = NoSweep
  /\ UNCHANGED <<tool, driverVars>>

\* The owner renews in time while its process lives and reaches the database.
ExpireLease ==
  /\ lease.live
  /\ "expire" \in Env \/ drv[lease.by] = "dead"
  /\ lease' = [lease EXCEPT !.live = FALSE]
  /\ UNCHANGED <<taskVars, ctl, status, ledger, tool, driverVars, sweep, asked>>

Recoverable ==
  /\ Expired /\ lease.exec = ctl.exec
  /\ status \in {"busy", "pausing"}
  /\ ctl.state \notin {"settling", "input_wait"}

\* What settleOrphan asks before it closes a lost owner's run: every task below
\* it completed, every other attempt's graph ended, no tool in doubt.
OrphanSettled(e, t) ==
  /\ Settled(t, FALSE)
  /\ \A a \in attempts[t] : tool[a] = "none" /\ (a # e => ledger[a].ended)

\* recoverExpiredRun(), from maintenance or at the start of any finish().
Recover ==
  /\ Recoverable
  /\ \E t \in TaskOf(ctl.exec) :
       IF OrphanSettled(ctl.exec, t)
       THEN /\ SetLedger(ctl.exec, [desired |-> "terminated", ended |-> TRUE])
            /\ Retire(t)
            /\ ctl' = NoRun
            /\ status' = "error"
            /\ lease' = NoLease
            /\ asked' = FALSE
       ELSE /\ SetLedger(ctl.exec, Intend(ctl.exec, "terminated", FALSE))
            /\ Change(t, "terminated")
            /\ ctl' = [ctl EXCEPT !.state = "terminating"]
            /\ status' = "busy"
            /\ UNCHANGED <<lease, asked>>
  /\ UNCHANGED <<tool, driverVars, sweep>>

\* The process that drives the execution is killed.
Crash(e) ==
  /\ "crash" \in Env
  /\ \/ drv[e] \in {"starting", "bound", "running", "stopping", "ending", "returned"}
     \/ drv[e] = "over" /\ (tool[e] = "open" \/ lease.by = e)
  /\ Goto(e, "dead")
  /\ tool' = [tool EXCEPT ![e] = IF @ = "open" THEN "lost" ELSE @]
  /\ UNCHANGED <<taskVars, threadVars, ledger, exit, origin, sweep, asked>>

TRInit ==
  /\ TaskInit
  /\ ctl = NoRun /\ status = "idle" /\ lease = NoLease
  /\ ledger = [e \in Exec |-> [desired |-> "none", ended |-> FALSE]]
  /\ tool = [e \in Exec |-> "none"]
  /\ drv = [e \in Exec |-> "new"]
  /\ exit = [e \in Exec |-> "none"]
  /\ origin = [e \in Exec |-> NoAttempt]
  /\ sweep = NoSweep
  /\ asked = FALSE

Driver(e) ==
  \/ GraphStep(e) \/ StageCheckpoint(e) \/ OwnerFinish(e)
  \/ BindResumed(e) \/ BeginGraph(e) \/ ReleaseResume(e)

Maintain == ListStopping \/ CheckDrained \/ SweepFinish

TRNext ==
  \/ \E e \in Exec :
       \/ Start(e) \/ StartInput(e) \/ RequestPause(e) \/ Cancel(e) \/ Terminate(e)
       \/ ClaimResume(e)
       \/ Driver(e) \/ AdmitTool(e) \/ SettleTool(e) \/ Crash(e)
  \/ KidStep
  \/ Maintain \/ ExpireLease \/ Recover

TRSpec == TRInit /\ [][TRNext]_trVars

(***************************************************************************)
(* Fairness: maintenance is an interval; a node, a tool and a handler      *)
(* return; a graph that has been told to stop does so at its next node.    *)
(* A graph that nobody stops may run for ever, users owe nothing, and no   *)
(* process has to fail.                                                    *)
(***************************************************************************)
DriverMoves(e) ==
  /\ drv[e] = "running" => Dispossessed(e) \/ ctl.state # "running"
  /\ Driver(e)

Fairness ==
  /\ \A e \in Exec : WF_trVars(DriverMoves(e)) /\ WF_trVars(SettleTool(e))
  /\ WF_trVars(KidStep)
  /\ WF_trVars(Maintain)
  /\ WF_trVars(lease.live /\ drv[lease.by] = "dead" /\ ExpireLease)
  /\ WF_trVars(Recover)

FairTRSpec == TRSpec /\ Fairness

(***************************************************************************)
(* Properties                                                              *)
(***************************************************************************)
\* The execution tasks that are not completed.
OpenTasks == {t \in Task \ {Kid} : Registered(t) /\ state[t] # "completed"}

\* The thread and the task ledger agree: the thread is occupied exactly while one
\* execution task is open, that task currently runs as the thread's execution, and
\* a confirmed pause or an input wait has parked it.
ThreadMatchesTask ==
  IF ctl = NoRun THEN OpenTasks = {}
  ELSE \E t \in Task :
         /\ OpenTasks = {t} /\ current[t] = ctl.exec
         /\ ctl.state \in {"paused", "input_wait"} => state[t] = "paused"

\* What the two ledgers say about the run in progress, through pauses in an input wait,
\* resumes, failed resumes, stops of current and of superseded executions, and recovery:
\* they say the same, and the thread is not being stopped; or the task is terminated, and
\* then because one of its executions was.  Each is written in its own place and read by
\* different guards.
IntentsAgree ==
  \A t \in Task : ctl.exec # NoAttempt /\ ctl.exec \in attempts[t] =>
    IF desired[t] = "terminated" THEN \E e \in attempts[t] : ledger[e].desired = "terminated"
    ELSE ctl.state # "terminating" /\ ledger[ctl.exec].desired = desired[t]

\* No tool call of one execution is open while the thread belongs to another one,
\* is free, or is confirmed paused: nothing overlaps with the next run.
NoOverlap ==
  \A e \in Exec : tool[e] # "none" => ctl.exec = e /\ ctl.state # "paused"

\* Whatever holds an admission descends from the task of the execution that occupies
\* the thread: the next run never shares the thread with a child of the last one.  No
\* run lists this; it is proved.
NoFamilyOverlap ==
  \A d \in Task : claim[d] # NoToken => \E t \in TaskOf(ctl.exec) : d \in Descendants(t)

\* A run is an execution task; its work is a tool call of one of its executions, or an
\* admitted child.
Stage(t) ==
  IF ~Registered(t) THEN "new" ELSE IF state[t] = "completed" THEN "closed" ELSE "open"

Working(t) ==
  \/ \E e \in attempts[t] : tool[e] # "none"
  \/ \E d \in Descendants(t) : claim[d] # NoToken

\* The thread implements the abstract contract of its runs.  No run lists this; it is
\* proved.
Turns == INSTANCE RunsInTurn WITH
  Run     <- Exec,
  stage   <- [t \in Exec |-> Stage(t)],
  working <- [t \in Exec |-> Working(t)]

RunsInTurnSpec == Turns!Spec

\* While the thread is confirmed paused nothing of its family is admitted.  No run
\* lists this; it is proved for a thread that nobody resumes.
PausedThreadIsQuiet == ctl.state = "paused" => \A d \in Task : claim[d] = NoToken

\* A live owner's graph is never finished behind its back: the thread is released
\* only after the graph returned, or when the owner is dead or lost its lease.
LiveGraphNotFreed ==
  [][\A e \in Exec : ctl.exec = e /\ drv[e] \in {"running", "stopping", "ending"} /\ ~Expired =>
       ctl' # NoRun]_trVars

\* The run is being stopped: the thread says so, or its task does and finish() will see it.
Stopping(e) == ctl.state = "terminating" \/ \E t \in TaskOf(e) : IntentOf(t) = "terminated"

\* The final status an owner reported is the one the thread shows, even if a tool
\* or an attached task delays the release and maintenance performs it.  Runs that
\* are being stopped or paused are left out: what the owner said of a pausing run is
\* not kept while it waits for a tool, and maintenance shows it as interrupted.
FinishStatusKept ==
  [][\A e \in Exec : ctl.exec = e /\ ~Stopping(e) /\ ctl.state # "pausing" /\ ~Expired =>
       (ctl' = NoRun /\ drv'[e] = "over" => status' = exit[e])]_trVars

\* A pause is confirmed only for a graph that stopped for it and whose checkpoint
\* and messages were persisted.  The code does not keep this (README, section 6):
\* no run lists it.
ConfirmedPauseIsPersisted ==
  ctl.state = "paused" => ctl.saved /\ exit[ctl.exec] = "interrupted"

\* An accepted pause request is recorded as the intent of the execution it named.
\* The code does not keep this either (README, section 6): no run lists it.
AcceptedPauseIsRecorded ==
  asked /\ ctl.exec # NoAttempt => ledger[ctl.exec].desired # "running"

\* Every step is one operation of the task ledger, or none; in particular no
\* resume and no failed resume ever reopens a completed task.
OnlyLedgerSteps == [][TaskNext]_taskVars

\* A tool call that nobody will ever see return, or a child whose handler died.
InDoubt == \E e \in Exec : tool[e] = "lost"

\* A stop is always confirmed, whoever is alive to report the end of the graph.
StopConfirmed == ctl.state = "terminating" ~> (ctl.state # "terminating" \/ InDoubt)

\* The request that resumed the run gave up and could not, or need not, give the pause
\* back (README, section 6): nobody drives the run, while the process renews its lease.
Undriven == \E n \in Exec : ctl.ticket = n /\ drv[n] = "over" /\ exit[n] = "none"

\* A termination that reached only the task of a run, because it was sent to an execution
\* that a resume has superseded, is obeyed all the same: whoever drives the run stops it, and if
\* its process died, recovery does.
TerminationObeyed ==
  \A e \in Exec :
    (ctl.exec = e /\ ctl.state \in {"running", "pausing"} /\ Stopping(e)) ~>
      (ctl.exec # e \/ ctl.state \notin {"running", "pausing"} \/ Undriven \/ InDoubt)

\* A pause request is always settled: confirmed, overtaken by the end, or stopped.
PauseSettled == ctl.state = "pausing" ~> (ctl.state # "pausing" \/ InDoubt)
=============================================================================
