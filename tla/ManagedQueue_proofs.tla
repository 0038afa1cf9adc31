------------------------ MODULE ManagedQueue_proofs ------------------------
(***************************************************************************)
(* Proofs, for any number of jobs and workers and under every fault, that  *)
(* controlled managed-queue jobs are a client of the task ledger and that  *)
(* they implement HandlerOnce.                                             *)
(***************************************************************************)
EXTENDS ManagedQueue, TaskControl_proofs

USE DEF Registered

(***************************************************************************)
(* The workers' locals                                                     *)
(***************************************************************************)
Reporting == {"claimed", "body", "exited", "returned", "parked"}

\* What a worker's place says of its locals.
LocalsInv ==
  \A w \in Worker :
    /\ pc[w] \notin {"idle", "dead"} => on[w] \in Job
    /\ pc[w] \in Reporting => how[w] \in {"succeeded", "failed"}
    /\ owes[w] => pc[w] \in {"returned", "parked"}

\* The types of everything but the ledger.
QueueTypes ==
  /\ relay \subseteq Job /\ added \subseteq Job
  /\ job \in [Job -> {"none", "waiting", "finished", "failed"} \cup Worker]
  /\ pc \in [Worker -> WorkerAt]
  /\ on \in [Worker -> Job \cup {NoTask}]
  /\ why \in [Worker -> {"none", "terminated", "paused", "claimed"}]
  /\ how \in [Worker -> Outcome]
  /\ aborted \in [Worker -> BOOLEAN] /\ owes \in [Worker -> BOOLEAN]
  /\ entered \subseteq Job
  /\ removing \in [Job -> {"no", "settle", "remove"}]
  /\ host \in {"running", "settling", "pausing", "paused", "resuming", "terminating", "ended"}
  /\ code \in {"live", "starting", "stopped", "orphan", "lost"}

QueueInv == QueueTypes /\ LocalsInv

(***************************************************************************)
(* Every step is a ledger operation or none                                *)
(***************************************************************************)
\* A worker's step calls at most one method of the store, for the worker's job.
LEMMA WorkerStepsLedger ==
  ASSUME QueueInv, NEW w \in Worker, WorkerNext(w)
  PROVE  [TaskNext]_taskVars
<1>1. on[w] \in Job => on[w] \in Task
  BY DEF Job
<1>2. CASE ClaimOk(w)
  <2>1. on[w] \in Task /\ w \in Token /\ Claim(on[w], w)
    BY <1>1, <1>2, QueueAssumption DEF ClaimOk, QueueInv, LocalsInv
  <2>2. QED
    BY <2>1 DEF TaskNext
<1>3. CASE SettleRejected(w)
  <2>1. on[w] \in Task
    BY <1>1, <1>3 DEF SettleRejected, QueueInv, LocalsInv
  <2>2. CASE Receipt(on[w], "completed", NoToken)
    BY <2>1, <2>2 DEF TaskNext, Receipts
  <2>3. QED
    BY <1>3, <2>2 DEF SettleRejected
<1>4. ASSUME PutExit(w), pc[w] \in {"exited", "returned", "parked"}
      PROVE  [TaskNext]_taskVars
  <2>1. on[w] \in Task /\ w \in Token /\ how[w] \in {"succeeded", "failed"}
    BY <1>1, <1>4, QueueAssumption DEF QueueInv, LocalsInv, Reporting
  <2>2. CASE FinishClaim(on[w], w, how[w])
    BY <2>1, <2>2 DEF TaskNext
  <2>3. QED
    BY <1>4, <2>2 DEF PutExit
<1>5. CASE Flush(w)
  BY <1>4, <1>5 DEF Flush
<1>6. CASE FlushLater(w)
  BY <1>4, <1>6 DEF FlushLater, QueueInv, LocalsInv
<1>7. CASE \/ ClaimRejected(w) \/ DeliveryFails(w) \/ HandleRejection(w) \/ Enter(w)
           \/ Refuse(w) \/ Abort(w) \/ (\E r \in {"succeeded", "failed"} : Exit(w, r))
           \/ FlushFails(w) \/ Return(w) \/ Crash(w) \/ Restart(w)
  BY <1>7 DEF ClaimRejected, DeliveryFails, HandleRejection, Enter, Refuse, Abort, Exit,
              FlushFails, Return, Crash, Restart
<1>8. QED
  BY <1>2, <1>3, <1>5, <1>6, <1>7 DEF WorkerNext

\* The thread's step calls at most one method of the store, for the run's task.
LEMMA HostStepsLedger ==
  ASSUME HostNext
  PROVE  [TaskNext]_taskVars
<1>1. Run \in Task
  BY QueueAssumption
<1>2. ASSUME NEW d \in Intent, Change(Run, d)
      PROVE  [TaskNext]_taskVars
  BY <1>1, <1>2 DEF TaskNext
<1>3. ASSUME NEW s \in Receipts, Receipt(Run, s, NoToken)
      PROVE  [TaskNext]_taskVars
  BY <1>1, <1>3 DEF TaskNext
<1>4. CASE RequestPause \/ Terminate \/ ClaimResume \/ ReleaseResume
  BY <1>2, <1>4 DEF RequestPause, Terminate, ClaimResume, ReleaseResume, Intent
<1>5. CASE BindResumed \/ \E saved \in BOOLEAN : Finish(saved)
  BY <1>3, <1>5 DEF BindResumed, Finish, Receipts
<1>6. CASE RecoverOrphan
  <2>1. CASE Retire(Run)
    BY <1>1, <2>1 DEF TaskNext
  <2>2. QED
    BY <1>2, <1>6, <2>1 DEF RecoverOrphan, Intent
<1>7. CASE GraphStops \/ HostCrash
  BY <1>7 DEF GraphStops, HostCrash
<1>8. QED
  BY <1>4, <1>5, <1>6, <1>7 DEF HostNext

\* No step of the composition bypasses the store.
LEMMA StepsLedger ==
  ASSUME QueueInv, [MQNext]_mqVars
  PROVE  [TaskNext]_taskVars
<1>1. ASSUME NEW p \in Task, NEW t \in Job, NEW pol \in Policy, NEW drain \in BOOLEAN,
             PublishJob(p, t, pol, drain)
      PROVE  [TaskNext]_taskVars
  <2>1. t \in Task /\ Publish(t, p, pol, drain)
    BY <1>1 DEF PublishJob, Job
  <2>2. QED
    BY <2>1 DEF TaskNext
<1>2. ASSUME NEW t \in Job, RelayNext(t)
      PROVE  [TaskNext]_taskVars
  <2>1. CASE MarkPublished(t)
    BY <2>1 DEF MarkPublished, TaskNext, Job
  <2>2. CASE ReadDue(t) \/ AddJob(t) \/ AddFails(t) \/ MarkLost(t)
    BY <2>2 DEF ReadDue, AddJob, AddFails, MarkLost
  <2>3. QED
    BY <1>2, <2>1, <2>2 DEF RelayNext
<1>3. ASSUME NEW t \in Job, CancelNext(t)
      PROVE  [TaskNext]_taskVars
  <2>1. t \in Task
    BY DEF Job
  <2>2. CASE Cancel(t)
    BY <2>1, <2>2 DEF Cancel, TaskNext, Intent
  <2>3. CASE SettleUnstarted(t)
    BY <2>1, <2>3 DEF TaskNext
  <2>4. CASE CancelSettle(t) \/ CancelRemove(t) \/ Coordinate(t)
    BY <2>3, <2>4 DEF CancelSettle, CancelRemove, Coordinate
  <2>5. QED
    BY <1>3, <2>2, <2>4 DEF CancelNext
<1>4. ASSUME NEW t \in Job, NEW to \in {"waiting", "failed"}, Stall(t, to)
      PROVE  [TaskNext]_taskVars
  BY <1>4 DEF Stall
<1>5. ASSUME NEW w \in Worker, NEW t \in Job, Deliver(w, t)
      PROVE  [TaskNext]_taskVars
  BY <1>5 DEF Deliver
<1>6. CASE UNCHANGED mqVars
  BY <1>6 DEF mqVars
<1>7. QED
  BY <1>1, <1>2, <1>3, <1>4, <1>5, <1>6, WorkerStepsLedger, HostStepsLedger DEF MQNext

(***************************************************************************)
(* Types and locals are kept                                               *)
(***************************************************************************)
\* The queue starts with nothing in it.
LEMMA QueueInit == MQInit => QueueInv
  BY DEF MQInit, QueueInv, QueueTypes, LocalsInv, WorkerAt, Outcome, Reporting

\* The store names one of three reasons when it rejects a claim.
LEMMA Refusals ==
  ASSUME NEW t, ClaimRefusal(t) # "none"
  PROVE  ClaimRefusal(t) \in {"terminated", "paused", "claimed"}
  BY DEF ClaimRefusal

\* What a delivery becomes after a rejection is a state of its job.
LEMMA AfterRejections ==
  ASSUME NEW w, AfterRejection(w) # "settle"
  PROVE  AfterRejection(w) \in {"finished", "failed", "waiting"}
  BY DEF AfterRejection

\* A worker that forgets its call, and at most gives its job back, keeps them.
LEMMA ForgetKeepsLocals ==
  ASSUME QueueInv, NEW w \in Worker, NEW label \in {"idle", "dead"}, Forget(w, label),
         job' \in [Job -> {"none", "waiting", "finished", "failed"} \cup Worker],
         owes' \in [Worker -> BOOLEAN], ~owes'[w], \A v \in Worker : owes'[v] => owes[v],
         UNCHANGED <<relayVars, entered, removing, hostVars>>
  PROVE  QueueInv'
<1>1. /\ pc'[w] = label /\ \A v \in Worker : v # w => pc'[v] = pc[v] /\ on'[v] = on[v] /\ how'[v] = how[v]
      /\ pc' \in [Worker -> WorkerAt] /\ on' \in [Worker -> Job \cup {NoTask}]
      /\ why' \in [Worker -> {"none", "terminated", "paused", "claimed"}]
      /\ how' \in [Worker -> Outcome] /\ aborted' \in [Worker -> BOOLEAN]
  BY DEF Forget, Goto, QueueInv, QueueTypes, WorkerAt, Outcome
<1>2. QueueTypes'
  BY <1>1 DEF QueueInv, QueueTypes, relayVars, hostVars
<1>3. LocalsInv'
  BY <1>1 DEF QueueInv, LocalsInv, Reporting
<1>4. QED
  BY <1>2, <1>3 DEF QueueInv

\* Giving a job back leaves every job in a state of the queue.
LEMMA ReleaseType ==
  ASSUME QueueInv, NEW w \in Worker, NEW to \in {"finished", "failed", "waiting"}, Release(w, to)
  PROVE  job' \in [Job -> {"none", "waiting", "finished", "failed"} \cup Worker]
  BY DEF Release, QueueInv, QueueTypes

\* Each step of a worker keeps the types and every worker's locals.
LEMMA WorkerKeepsLocals ==
  ASSUME QueueInv, NEW w \in Worker, WorkerNext(w)
  PROVE  QueueInv'
<1> USE DEF QueueInv, QueueTypes, LocalsInv, Goto, relayVars, hostVars, Reporting
<1>1. CASE ClaimOk(w)
  BY <1>1 DEF ClaimOk, WorkerAt, Outcome
<1>2. CASE ClaimRejected(w)
  BY <1>2, Refusals DEF ClaimRejected, WorkerAt
<1>3. CASE DeliveryFails(w)
  BY <1>3 DEF DeliveryFails, Release, Forget, WorkerAt, Outcome
<1>4. CASE HandleRejection(w)
  <2>1. CASE AfterRejection(w) = "settle"
    BY <1>4, <2>1 DEF HandleRejection, Keep, WorkerAt
  <2>2. CASE AfterRejection(w) # "settle"
    <3>1. Forget(w, "idle") /\ Release(w, AfterRejection(w)) /\ ~owes[w] /\ owes' = owes
      BY <1>4, <2>2 DEF HandleRejection
    <3>2. QED
      BY <1>4, <2>2, <3>1, AfterRejections, ReleaseType, ForgetKeepsLocals DEF HandleRejection
  <2>3. QED
    BY <2>1, <2>2
<1>5. CASE SettleRejected(w)
  BY <1>5 DEF SettleRejected, Release, Forget, WorkerAt, Outcome
<1>6. CASE Enter(w)
  BY <1>6 DEF Enter, WorkerAt
<1>7. CASE Refuse(w) \/ Abort(w)
  BY <1>7, ZenonT(40) DEF Refuse, Abort, WorkerAt
<1>8. CASE \E r \in {"succeeded", "failed"} : Exit(w, r)
  BY <1>8 DEF Exit, WorkerAt, Outcome
<1>9. CASE Flush(w) \/ FlushFails(w)
  BY <1>9, ZenonT(40) DEF Flush, FlushFails, WorkerAt
<1>10. CASE Return(w)
  <2>1. CASE owes[w]
    BY <1>10, <2>1 DEF Return, Release, Keep, WorkerAt
  <2>2. CASE ~owes[w]
    <3>1. Forget(w, "idle") /\ owes' = owes
      BY <1>10, <2>2 DEF Return
    <3>2. Release(w, "finished") \/ Release(w, "failed")
      BY <1>10 DEF Return
    <3>3. QED
      BY <1>10, <2>2, <3>1, <3>2, ReleaseType, ForgetKeepsLocals DEF Return
  <2>3. QED
    BY <2>1, <2>2
<1>11. CASE FlushLater(w)
  <2>1. CASE pc[w] = "parked"
    <3>1. Forget(w, "idle") /\ owes' = [owes EXCEPT ![w] = FALSE] /\ job' = job
      BY <1>11, <2>1 DEF FlushLater
    <3>2. QED
      BY <1>11, <3>1, ForgetKeepsLocals DEF FlushLater
  <2>2. CASE pc[w] # "parked"
    BY <1>11, <2>2 DEF FlushLater, Keep
  <2>3. QED
    BY <2>1, <2>2
<1>12. CASE Crash(w)
  BY <1>12 DEF Crash, Forget, WorkerAt, Outcome
<1>13. CASE Restart(w)
  BY <1>13 DEF Restart, WorkerAt
<1>14. QED
  BY <1>1, <1>2, <1>3, <1>4, <1>5, <1>6, <1>7, <1>8, <1>9, <1>10, <1>11, <1>12, <1>13
  DEF WorkerNext

\* Every other step keeps them too.
LEMMA QueueStep ==
  ASSUME QueueInv, [MQNext]_mqVars
  PROVE  QueueInv'
<1> USE DEF QueueInv, QueueTypes, LocalsInv, relayVars, hostVars, workerVars, Reporting
<1>1. ASSUME NEW p \in Task, NEW t \in Job, NEW pol \in Policy, NEW drain \in BOOLEAN,
             PublishJob(p, t, pol, drain)
      PROVE  QueueInv'
  BY <1>1 DEF PublishJob
<1>2. ASSUME NEW t \in Job, RelayNext(t)
      PROVE  QueueInv'
  BY <1>2 DEF RelayNext, ReadDue, AddJob, AddFails, MarkPublished, MarkLost
<1>3. ASSUME NEW t \in Job, CancelNext(t)
      PROVE  QueueInv'
  BY <1>3 DEF CancelNext, Cancel, CancelSettle, CancelRemove, Coordinate
<1>4. ASSUME NEW t \in Job, NEW to \in {"waiting", "failed"}, Stall(t, to)
      PROVE  QueueInv'
  BY <1>4 DEF Stall
<1>5. ASSUME NEW w \in Worker, NEW t \in Job, Deliver(w, t)
      PROVE  QueueInv'
  BY <1>5 DEF Deliver, WorkerAt
<1>6. CASE HostNext
  BY <1>6 DEF HostNext, RequestPause, GraphStops, Finish, Terminate, ClaimResume, BindResumed,
              ReleaseResume, HostCrash, RecoverOrphan, envVars
<1>7. CASE UNCHANGED mqVars
  BY <1>7 DEF mqVars
<1>8. QED
  BY <1>1, <1>2, <1>3, <1>4, <1>5, <1>6, <1>7, WorkerKeepsLocals DEF MQNext

(***************************************************************************)
(* The ledger's invariant holds of the composition                         *)
(***************************************************************************)
\* A row that does not exist has no ancestry to inherit an intent from.
Rootless == \A t \in Task : ~Registered(t) => entry[t].lineage = {}

BaseInv == QueueInv /\ LedgerInv /\ Rootless

\* The run's own row is the only one at the start.
LEMMA BaseInit == MQInit => BaseInv
<1> SUFFICES ASSUME MQInit PROVE BaseInv
  OBVIOUS
<1>1. QueueInv
  BY QueueInit
<1>2. Run \in Task
  BY QueueAssumption
<1>3. TypeOK
  <2>1. NoEntry \in Entry
    BY DEF NoEntry, Entry, Policy
  <2>2. NewEntry(Run, NoTask, "attached", FALSE) \in Entry
    BY <1>2 DEF NewEntry, Entry, Policy
  <2>3. QED
    BY <2>1, <2>2 DEF MQInit, TypeOK, Intent, State, Receipts, Outcome, Answer
<1>4. Blank /\ Unheld
  BY DEF MQInit, Blank, Unheld
<1>5. /\ entry[Run].lineage = {Run} /\ entry[Run].root = Run
      /\ \A t \in Task : t # Run => ~Registered(t) /\ entry[t].lineage = {}
      /\ Registered(Run)
  BY <1>2 DEF MQInit, NoEntry, NewEntry
<1>6. LineageClosed /\ Rootless
  BY <1>2, <1>5 DEF LineageClosed, Rootless
<1>7. QED
  BY <1>1, <1>3, <1>4, <1>6 DEF BaseInv, LedgerInv

\* Each step is a ledger step, so it keeps what ledger steps keep.
LEMMA BaseStep ==
  ASSUME BaseInv, [MQNext]_mqVars
  PROVE  BaseInv'
<1>1. [TaskNext]_taskVars
  BY StepsLedger DEF BaseInv
<1>2. QueueInv' /\ LedgerInv'
  BY <1>1, QueueStep, LedgerInvStep DEF BaseInv
<1>3. Rootless'
  <2>1. Grows
    BY <1>1, Growth DEF BaseInv, LedgerInv
  <2>2. CASE UNCHANGED entry /\ \A u \in Task : Registered(u)' = Registered(u)
    BY <2>2 DEF Rootless, BaseInv
  <2>3. ASSUME NEW t \in Task, NEW p \in Task \cup {NoTask}, NEW pol \in Policy,
               NEW drain \in BOOLEAN, Appears(t, p, pol, drain)
        PROVE  Rootless'
    BY <2>3 DEF Appears, Rootless, BaseInv, LedgerInv, TypeOK
  <2>4. QED
    BY <2>1, <2>2, <2>3 DEF Grows
<1>4. QED
  BY <1>2, <1>3 DEF BaseInv

\* Ledger, types and locals are right in every reachable state.
LEMMA BaseInvariant == MQSpec => []BaseInv
  BY BaseInit, BaseStep, PTL DEF MQSpec

\* The ledger, the outbox, the queue and the workers' locals keep their types.
THEOREM QueueTypeCorrect == MQSpec => []MQTypeOK
<1>1. BaseInv => MQTypeOK
  BY DEF BaseInv, QueueInv, QueueTypes, LedgerInv, MQTypeOK
<1>2. QED
  BY <1>1, BaseInvariant, PTL

\* For any number of jobs and workers and under every fault, the composition
\* changes the ledger only by the store's methods, so each theorem about steps
\* of TaskSpec holds of it.
THEOREM QueueIsLedgerClient == MQSpec => OnlyLedgerSteps
<1>1. BaseInv /\ [MQNext]_mqVars => [TaskNext]_taskVars
  BY StepsLedger DEF BaseInv
<1>2. QED
  BY <1>1, BaseInvariant, PTL DEF MQSpec, OnlyLedgerSteps

(***************************************************************************)
(* What a step does to a job's row                                         *)
(***************************************************************************)
Closed(t) == state[t] = "completed" \/ IntentOf(t) = "terminated"

\* The row's claim and completion stay.
Kept(t) == claim'[t] = claim[t] /\ (state'[t] = "completed" <=> state[t] = "completed")

\* The row is completed, and its claim, if any, is that of a worker outside the body.
Ends(t) ==
  /\ state[t] # "completed" /\ state'[t] = "completed" /\ claim'[t] = NoToken
  /\ \/ claim[t] = NoToken
     \/ \E u \in Worker : claim[t] = u /\ pc[u] \notin {"claimed", "body"}

\* The row's handler is admitted.
Admits(t) == claim[t] = NoToken /\ ~Closed(t) /\ claim'[t] \in Worker /\ state'[t] # "completed"

Row(t) == Kept(t) \/ Ends(t) \/ Admits(t)

\* A task that may not start any more stays so.
LEMMA ClosedStep ==
  ASSUME BaseInv, [MQNext]_mqVars, NEW t \in Task, Closed(t)
  PROVE  Closed(t)'
<1>1. [TaskNext]_taskVars
  BY StepsLedger DEF BaseInv
<1>2. CASE state[t] = "completed"
  BY <1>1, <1>2, Progress DEF BaseInv, LedgerInv, Advances, Closed
<1>3. CASE IntentOf(t) = "terminated"
  <2>1. Registered(t)
    BY <1>3, IntentTerminated DEF BaseInv, Rootless
  <2>2. QED
    BY <1>1, <1>3, <2>1, TombstoneStep DEF BaseInv, Closed
<1>4. QED
  BY <1>2, <1>3 DEF Closed

\* What holds between a worker's place, its job's row and the bodies entered so far.
Admitted(w) ==
  /\ pc[w] \in {"claimed", "body"} => claim[on[w]] = w
  /\ pc[w] = "claimed" => on[w] \notin entered
  /\ pc[w] = "body" => on[w] \in entered
  /\ pc[w] = "rejected" /\ why[w] = "terminated" => Closed(on[w])
  /\ pc[w] = "settling" =>
       state[on[w]] = "completed" \/ (IntentOf(on[w]) = "terminated" /\ claim[on[w]] = NoToken)

\* A body that was ever entered keeps its claim until the task is completed, so no
\* later delivery is admitted.
EnteredInv == \A t \in entered : state[t] = "completed" \/ claim[t] # NoToken

AdmissionInv == BaseInv /\ (\A w \in Worker : Admitted(w)) /\ EnteredInv

\* A claim is never the null claim.
LEMMA WorkersAreTokens == \A w \in Worker : w # NoToken
  BY NoTokenAssumption, QueueAssumption

\* The exit receipt of a worker outside the body ends its row or leaves it alone.
LEMMA PutExitRow ==
  ASSUME BaseInv, NEW w \in Worker, on[w] \in Job, PutExit(w),
         pc[w] \notin {"claimed", "body"}, NEW t \in Job
  PROVE  Kept(t) \/ Ends(t)
<1>1. t \in Task /\ on[w] \in Task
  BY DEF Job
<1>2. CASE FinishClaim(on[w], w, how[w])
  BY <1>1, <1>2 DEF FinishClaim, Kept, Ends, BaseInv, LedgerInv, TypeOK
<1>3. CASE UNCHANGED taskVars
  BY <1>3 DEF Kept, taskVars
<1>4. QED
  BY <1>2, <1>3 DEF PutExit

\* Every step of a worker treats every job's row in one of the three ways.
LEMMA WorkerRow ==
  ASSUME AdmissionInv, NEW w \in Worker, WorkerNext(w), NEW t \in Job
  PROVE  Row(t)
<1>1. t \in Task /\ (on[w] \in Job => on[w] \in Task)
  BY DEF Job
<1>2. CASE ClaimOk(w)
  <2>1. Claim(on[w], w) /\ on[w] \in Task
    BY <1>1, <1>2 DEF ClaimOk, AdmissionInv, BaseInv, QueueInv, LocalsInv
  <2>2. claim[on[w]] = NoToken /\ ~Closed(on[w])
    BY <2>1 DEF Claim, ClaimRefusal, Closed
  <2>3. QED
    BY <1>1, <2>1, <2>2 DEF Claim, Row, Kept, Admits, AdmissionInv, BaseInv, LedgerInv, TypeOK
<1>3. CASE SettleRejected(w)
  <2>1. on[w] \in Task /\ pc[w] = "settling"
    BY <1>1, <1>3 DEF SettleRejected, AdmissionInv, BaseInv, QueueInv, LocalsInv
  <2>2. CASE Receipt(on[w], "completed", NoToken)
    <3>1. claim[on[w]] = NoToken /\ state[on[w]] # "completed"
      BY <2>1, <2>2 DEF Receipt, ReceiptAccepted, AdmissionInv, Admitted
    <3>2. QED
      BY <1>1, <2>1, <2>2, <3>1
      DEF Receipt, PutReceipt, Row, Kept, Ends, AdmissionInv, BaseInv, LedgerInv, TypeOK
  <2>3. CASE UNCHANGED taskVars
    BY <2>3 DEF Row, Kept, taskVars
  <2>4. QED
    BY <1>3, <2>2, <2>3 DEF SettleRejected
<1>4. CASE Flush(w)
  BY <1>4, PutExitRow DEF Flush, Row, AdmissionInv, BaseInv, QueueInv, LocalsInv
<1>5. CASE FlushLater(w)
  BY <1>5, PutExitRow DEF FlushLater, Row, AdmissionInv, BaseInv, QueueInv, LocalsInv
<1>6. CASE UNCHANGED taskVars
  BY <1>6 DEF Row, Kept, taskVars
<1>7. QED
  BY <1>2, <1>3, <1>4, <1>5, <1>6 DEF WorkerNext, ClaimRejected, DeliveryFails, HandleRejection,
    Enter, Refuse, Abort, Exit, FlushFails, Return, Crash, Restart

\* Settling a task that never started ends its row.
LEMMA SettleRow ==
  ASSUME BaseInv, NEW u \in Task, SettleUnstarted(u), NEW t \in Task
  PROVE  Row(t)
  BY DEF SettleUnstarted, Unstarted, PutReceipt, Row, Kept, Ends, BaseInv, LedgerInv, TypeOK

\* A step that no worker takes settles a task that never started, or keeps each row.
LEMMA OtherRow ==
  ASSUME BaseInv, [MQNext]_mqVars, ~(\E w \in Worker : WorkerNext(w)),
         ~(\E u \in Job : SettleUnstarted(u)), NEW t \in Job
  PROVE  Kept(t)
<1>1. t \in Task /\ t # Run /\ Run \in Task
  BY QueueAssumption DEF Job
<1>2. ASSUME NEW p \in Task, NEW u \in Job, NEW pol \in Policy, NEW drain \in BOOLEAN,
             PublishJob(p, u, pol, drain)
      PROVE  Kept(t)
  <2>1. CASE Register(u, p, pol, drain, NoAttempt)
    BY <1>1, <2>1 DEF Register, Kept, BaseInv, LedgerInv, TypeOK
  <2>2. QED
    BY <1>2, <2>1 DEF PublishJob, Publish, Kept, runVars
<1>3. ASSUME NEW u \in Job, RelayNext(u)
      PROVE  Kept(t)
  BY <1>3 DEF RelayNext, ReadDue, AddJob, AddFails, MarkPublished, MarkLost, Published,
              Kept, runVars, taskVars
<1>4. ASSUME NEW u \in Job, CancelNext(u)
      PROVE  Kept(t)
  BY <1>4 DEF CancelNext, Cancel, CancelSettle, CancelRemove, Coordinate, Change,
              Kept, runVars, taskVars
<1>5. CASE HostNext
  <2>1. ASSUME NEW s, Receipt(Run, s, NoToken)
        PROVE  Kept(t)
    BY <1>1, <2>1 DEF Receipt, PutReceipt, Kept, BaseInv, LedgerInv, TypeOK
  <2>2. CASE Retire(Run)
    BY <1>1, <2>2 DEF Retire, PutReceipt, Kept, BaseInv, LedgerInv, TypeOK
  <2>3. CASE UNCHANGED runVars
    BY <2>3 DEF runVars, Kept
  <2>4. UNCHANGED runVars \/ Retire(Run) \/ \E s \in Receipts : Receipt(Run, s, NoToken)
    BY <1>5 DEF HostNext, RequestPause, GraphStops, Finish, Terminate, ClaimResume, BindResumed,
                ReleaseResume, HostCrash, RecoverOrphan, Change, taskVars, runVars, Receipts
  <2>5. QED
    BY <2>1, <2>2, <2>3, <2>4
<1>6. ASSUME UNCHANGED taskVars
      PROVE  Kept(t)
  BY <1>6 DEF Kept, taskVars
<1>7. QED
  BY <1>2, <1>3, <1>4, <1>5, <1>6 DEF MQNext, Stall, Deliver, mqVars

\* Every step of the composition treats every job's row in one of the three ways.
LEMMA RowStep ==
  ASSUME AdmissionInv, [MQNext]_mqVars, NEW t \in Job
  PROVE  Row(t)
<1>1. CASE \E w \in Worker : WorkerNext(w)
  BY <1>1, WorkerRow
<1>2. CASE \E u \in Job : SettleUnstarted(u)
  BY <1>2, SettleRow DEF AdmissionInv, Job
<1>3. QED
  BY <1>1, <1>2, OtherRow DEF AdmissionInv, Row

(***************************************************************************)
(* Admission                                                               *)
(***************************************************************************)
\* A worker that does not move is not disturbed by what others do to the rows.
LEMMA Undisturbed ==
  ASSUME AdmissionInv, [MQNext]_mqVars, NEW v \in Worker,
         pc'[v] = pc[v], on'[v] = on[v], why'[v] = why[v],
         \/ entered' = entered
         \/ \E w \in Worker : w # v /\ claim[on[w]] = w /\ entered' = entered \cup {on[w]}
  PROVE  Admitted(v)'
<1>1. CASE pc[v] \in {"idle", "dead"}
  BY <1>1 DEF Admitted
<1>2. CASE pc[v] \notin {"idle", "dead"}
  <2>1. on[v] \in Job /\ on[v] \in Task
    BY <1>2 DEF AdmissionInv, BaseInv, QueueInv, LocalsInv, Job
  <2>2. Row(on[v]) /\ (Closed(on[v]) => Closed(on[v])')
    BY <2>1, RowStep, ClosedStep DEF AdmissionInv
  <2>3. v # NoToken /\ Admitted(v)
    BY WorkersAreTokens DEF AdmissionInv
  <2>4. pc[v] \in {"claimed", "body"} => claim'[on[v]] = v
    <3>1. HAVE pc[v] \in {"claimed", "body"}
    <3>2. claim[on[v]] = v
      BY <2>3, <3>1 DEF Admitted
    <3>3. ~Ends(on[v]) /\ ~Admits(on[v])
      BY <2>3, <3>1, <3>2 DEF Ends, Admits
    <3>4. QED
      BY <2>2, <3>2, <3>3 DEF Row, Kept
  <2>5. pc[v] = "claimed" => on[v] \notin entered'
    BY <2>3 DEF Admitted
  <2>6. pc[v] = "body" => on[v] \in entered'
    BY <2>3 DEF Admitted
  <2>7. pc[v] = "settling" =>
          state'[on[v]] = "completed" \/ (IntentOf(on[v])' = "terminated" /\ claim'[on[v]] = NoToken)
    <3>1. HAVE pc[v] = "settling"
    <3>2. Closed(on[v]) /\ (state[on[v]] = "completed" \/ claim[on[v]] = NoToken)
      BY <2>3, <3>1 DEF Admitted, Closed
    <3>3. Kept(on[v]) \/ Ends(on[v])
      BY <2>2, <3>2 DEF Row, Admits
    <3>4. QED
      BY <2>2, <3>2, <3>3 DEF Kept, Ends, Closed
  <2>8. QED
    BY <2>2, <2>3, <2>4, <2>5, <2>6, <2>7 DEF Admitted, Closed
<1>3. QED
  BY <1>1, <1>2

\* A worker's own steps establish what its new place says.
LEMMA AdmittedStep ==
  ASSUME AdmissionInv, NEW w \in Worker, WorkerNext(w), [MQNext]_mqVars
  PROVE  Admitted(w)'
<1>1. /\ pc \in [Worker -> WorkerAt] /\ on \in [Worker -> Job \cup {NoTask}]
      /\ why \in [Worker -> {"none", "terminated", "paused", "claimed"}]
      /\ Admitted(w)
  BY DEF AdmissionInv, BaseInv, QueueInv, QueueTypes
<1>2. pc[w] \notin {"idle", "dead"} => on[w] \in Job /\ on[w] \in Task
  BY DEF AdmissionInv, BaseInv, QueueInv, LocalsInv, Job
<1>3. CASE ClaimOk(w)
  <2>1. pc'[w] = "claimed" /\ on'[w] = on[w] /\ entered' = entered /\ Claim(on[w], w)
    BY <1>1, <1>3 DEF ClaimOk, Goto
  <2>2. on[w] \in Task
    BY <1>2, <1>3 DEF ClaimOk
  <2>3. claim'[on[w]] = w /\ claim[on[w]] = NoToken /\ state[on[w]] # "completed"
    BY <2>1, <2>2 DEF Claim, ClaimRefusal, AdmissionInv, BaseInv, LedgerInv, TypeOK
  <2>4. on[w] \notin entered
    BY <2>3 DEF AdmissionInv, EnteredInv
  <2>5. QED
    BY <2>1, <2>3, <2>4 DEF Admitted
<1>4. CASE ClaimRejected(w)
  <2>1. /\ pc'[w] = "rejected" /\ on'[w] = on[w] /\ why'[w] = ClaimRefusal(on[w])
        /\ state' = state /\ IntentOf(on[w])' = IntentOf(on[w])
    BY <1>1, <1>4 DEF ClaimRejected, Goto, taskVars, IntentOf
  <2>2. ClaimRefusal(on[w]) = "terminated" => Closed(on[w])
    BY DEF ClaimRefusal, Closed
  <2>3. QED
    BY <2>1, <2>2 DEF Admitted, Closed
<1>5. CASE HandleRejection(w)
  <2>1. CASE AfterRejection(w) = "settle"
    <3>1. /\ pc'[w] = "settling" /\ on'[w] = on[w] /\ claim' = claim /\ state' = state
          /\ IntentOf(on[w])' = IntentOf(on[w]) /\ pc[w] = "rejected"
      BY <1>1, <1>5, <2>1 DEF HandleRejection, Goto, Keep, taskVars, IntentOf
    <3>2. why[w] = "terminated" /\ claim[on[w]] = NoToken
      BY <2>1 DEF AfterRejection
    <3>3. QED
      BY <1>1, <3>1, <3>2 DEF Admitted, Closed
  <2>2. CASE AfterRejection(w) # "settle"
    <3>1. pc'[w] = "idle"
      BY <1>1, <1>5, <2>2 DEF HandleRejection, Forget, Goto
    <3>2. QED
      BY <3>1 DEF Admitted
  <2>3. QED
    BY <2>1, <2>2
<1>6. CASE Enter(w)
  <2>1. /\ pc'[w] = "body" /\ on'[w] = on[w] /\ entered' = entered \cup {on[w]}
        /\ claim' = claim /\ pc[w] = "claimed"
    BY <1>1, <1>6 DEF Enter, Goto, taskVars
  <2>2. QED
    BY <1>1, <2>1 DEF Admitted
<1>7. CASE Abort(w)
  BY <1>7, Undisturbed DEF Abort
<1>8. CASE FlushLater(w) /\ pc[w] # "parked"
  BY <1>8, Undisturbed DEF FlushLater, Keep
<1>9. pc'[w] \in {"idle", "dead", "exited", "returned", "parked"} => Admitted(w)'
  BY DEF Admitted
<1>10. CASE \/ DeliveryFails(w) \/ SettleRejected(w) \/ Refuse(w) \/ Flush(w) \/ FlushFails(w)
            \/ (\E r \in {"succeeded", "failed"} : Exit(w, r)) \/ Crash(w) \/ Restart(w)
  BY <1>1, <1>9, <1>10 DEF DeliveryFails, SettleRejected, Refuse, Flush, FlushFails, Exit, Crash,
                           Restart, Forget, Goto
<1>11. CASE Return(w)
  BY <1>1, <1>9, <1>11 DEF Return, Forget, Goto
<1>12. CASE FlushLater(w) /\ pc[w] = "parked"
  BY <1>1, <1>9, <1>12 DEF FlushLater, Forget, Goto
<1>13. QED
  BY <1>3, <1>4, <1>5, <1>6, <1>7, <1>8, <1>10, <1>11, <1>12 DEF WorkerNext

\* A worker's step leaves the other workers' locals alone.
LEMMA OthersStay ==
  ASSUME AdmissionInv, NEW w \in Worker, WorkerNext(w), NEW v \in Worker, v # w
  PROVE  /\ pc'[v] = pc[v] /\ on'[v] = on[v] /\ why'[v] = why[v]
         /\ entered' = entered \/ (claim[on[w]] = w /\ entered' = entered \cup {on[w]})
<1>1. /\ pc \in [Worker -> WorkerAt] /\ on \in [Worker -> Job \cup {NoTask}]
      /\ why \in [Worker -> {"none", "terminated", "paused", "claimed"}]
  BY DEF AdmissionInv, BaseInv, QueueInv, QueueTypes
<1>2. CASE Enter(w)
  BY <1>1, <1>2 DEF Enter, Goto, AdmissionInv, Admitted
<1>3. CASE ClaimOk(w) \/ ClaimRejected(w) \/ DeliveryFails(w)
  BY <1>1, <1>3 DEF ClaimOk, ClaimRejected, DeliveryFails, Goto, Forget
<1>4. CASE HandleRejection(w) \/ SettleRejected(w)
  BY <1>1, <1>4 DEF HandleRejection, SettleRejected, Goto, Forget, Keep
<1>5. CASE \/ Refuse(w) \/ Abort(w) \/ (\E r \in {"succeeded", "failed"} : Exit(w, r))
           \/ Flush(w) \/ FlushFails(w)
  BY <1>1, <1>5 DEF Refuse, Abort, Exit, Flush, FlushFails, Goto
<1>6. CASE Return(w)
  BY <1>1, <1>6 DEF Return, Goto, Forget, Keep
<1>7. CASE FlushLater(w)
  BY <1>1, <1>7 DEF FlushLater, Goto, Forget, Keep
<1>8. CASE Crash(w) \/ Restart(w)
  BY <1>1, <1>8 DEF Crash, Restart, Goto, Forget
<1>9. QED
  BY <1>2, <1>3, <1>4, <1>5, <1>6, <1>7, <1>8 DEF WorkerNext

\* Nobody but the worker itself moves a worker, except that the queue delivers to it.
LEMMA Movers ==
  ASSUME QueueInv, MQNext
  PROVE  \/ UNCHANGED <<pc, on, why, entered>>
         \/ \E w \in Worker : WorkerNext(w)
         \/ \E w \in Worker, t \in Job : Deliver(w, t)
  BY DEF MQNext, PublishJob, RelayNext, ReadDue, AddJob, AddFails, MarkPublished, MarkLost,
         CancelNext, Cancel, CancelSettle, CancelRemove, Coordinate, Stall, HostNext,
         RequestPause, GraphStops, Finish, Terminate, ClaimResume, BindResumed, ReleaseResume,
         HostCrash, RecoverOrphan, envVars, workerVars

\* The admission invariant is kept by every step.
LEMMA AdmissionStep ==
  ASSUME AdmissionInv, [MQNext]_mqVars
  PROVE  AdmissionInv'
<1>1. BaseInv'
  BY BaseStep DEF AdmissionInv
<1>2. \A w \in Worker : Admitted(w)'
  <2>1. CASE UNCHANGED <<pc, on, why, entered>>
    BY <2>1, Undisturbed
  <2>2. ASSUME NEW w \in Worker, WorkerNext(w), NEW v \in Worker
        PROVE  Admitted(v)'
    <3>1. CASE v = w
      BY <2>2, <3>1, AdmittedStep
    <3>2. CASE v # w
      <4>1. /\ pc'[v] = pc[v] /\ on'[v] = on[v] /\ why'[v] = why[v]
            /\ entered' = entered \/ (claim[on[w]] = w /\ entered' = entered \cup {on[w]})
        BY <2>2, <3>2, OthersStay
      <4>2. QED
        BY <3>2, <4>1, Undisturbed
    <3>3. QED
      BY <3>1, <3>2
  <2>3. ASSUME NEW w \in Worker, NEW t \in Job, Deliver(w, t), NEW v \in Worker
        PROVE  Admitted(v)'
    <3>1. pc \in [Worker -> WorkerAt] /\ on \in [Worker -> Job \cup {NoTask}]
      BY DEF AdmissionInv, BaseInv, QueueInv, QueueTypes
    <3>2. CASE v = w
      BY <2>3, <3>1, <3>2 DEF Deliver, Admitted
    <3>3. CASE v # w
      BY <2>3, <3>1, <3>3, Undisturbed DEF Deliver
    <3>4. QED
      BY <3>2, <3>3
  <2>4. CASE UNCHANGED mqVars
    BY <2>1, <2>4 DEF mqVars, workerVars
  <2>5. QED
    BY <2>1, <2>2, <2>3, <2>4, Movers DEF AdmissionInv, BaseInv
<1>3. EnteredInv'
  <2>1. SUFFICES ASSUME NEW t \in entered'
                 PROVE  state'[t] = "completed" \/ claim'[t] # NoToken
    BY DEF EnteredInv
  <2>2. t \in Job /\ Row(t)
    BY <1>1, RowStep DEF BaseInv, QueueInv, QueueTypes
  <2>3. CASE t \in entered
    <3>1. state[t] = "completed" \/ claim[t] # NoToken
      BY <2>3 DEF AdmissionInv, EnteredInv
    <3>2. QED
      BY <2>2, <3>1, WorkersAreTokens DEF Row, Kept, Ends, Admits
  <2>4. CASE t \notin entered
    <3>1. PICK w \in Worker : WorkerNext(w) /\ entered' # entered
      BY <2>4, Movers DEF AdmissionInv, BaseInv, mqVars, workerVars, Deliver
    <3>2. Enter(w)
      BY <3>1 DEF WorkerNext, ClaimOk, ClaimRejected, DeliveryFails, HandleRejection, SettleRejected,
                  Refuse, Abort, Exit, Flush, FlushFails, Return, FlushLater, Crash, Restart
    <3>3. t = on[w] /\ claim'[t] = claim[t] /\ claim[on[w]] = w
      BY <2>4, <3>2 DEF Enter, taskVars, AdmissionInv, Admitted
    <3>4. QED
      BY <3>3, WorkersAreTokens
  <2>5. QED
    BY <2>3, <2>4
<1>4. QED
  BY <1>1, <1>2, <1>3 DEF AdmissionInv

\* At the start nobody was admitted.
LEMMA AdmissionInit == MQInit => AdmissionInv
  BY BaseInit DEF MQInit, AdmissionInv, Admitted, EnteredInv

\* Claims and bodies agree in every reachable state.
LEMMA AdmissionInvariant == MQSpec => []AdmissionInv
  BY AdmissionInit, AdmissionStep, PTL DEF MQSpec

(***************************************************************************)
(* The refinement                                                          *)
(***************************************************************************)
BodyOf == [t \in Job |-> IF t \notin entered THEN "fresh"
                         ELSE IF Inside(t) THEN "inside" ELSE "left"]

VerdictOf == [t \in Job |-> IF state[t] = "completed" THEN "settled" ELSE "open"]

\* A worker inside a body holds the claim of an uncompleted task.
LEMMA InsideHolds ==
  ASSUME AdmissionInv, NEW w \in Worker, pc[w] \in {"claimed", "body"}
  PROVE  on[w] \in Job /\ claim[on[w]] = w /\ state[on[w]] # "completed"
<1>1. on[w] \in Job /\ on[w] \in Task /\ claim[on[w]] = w
  BY DEF AdmissionInv, BaseInv, QueueInv, LocalsInv, Admitted, Job
<1>2. QED
  BY <1>1, WorkersAreTokens DEF AdmissionInv, BaseInv, LedgerInv, Unheld

\* At most one worker is inside a body.
LEMMA OneInside ==
  ASSUME AdmissionInv, NEW v \in Worker, NEW w \in Worker,
         pc[v] \in {"claimed", "body"}, pc[w] \in {"claimed", "body"}, on[v] = on[w]
  PROVE  v = w
  BY InsideHolds

\* If nobody enters or leaves a body, the abstract bodies stay.
LEMMA BodyStays ==
  ASSUME entered' = entered, \A t \in Job : Inside(t)' <=> Inside(t)
  PROVE  BodyOf' = BodyOf
  BY DEF BodyOf

\* If no row is completed or reopened, the abstract verdicts stay.
LEMMA VerdictStays ==
  ASSUME \A t \in Job : state'[t] = "completed" <=> state[t] = "completed"
  PROVE  VerdictOf' = VerdictOf
  BY DEF VerdictOf

\* A step that completes one task around which nobody is inside is Settle.
LEMMA Settling ==
  ASSUME AdmissionInv, [MQNext]_mqVars, NEW u \in Job, Ends(u), BodyOf' = BodyOf,
         \A t \in Job : t # u => state'[t] = state[t]
  PROVE  Contract!Next
<1>1. BodyOf[u] # "inside"
  <2>1. ~Inside(u)
    <3>1. ASSUME NEW w \in Worker, pc[w] = "body", on[w] = u
          PROVE  FALSE
      BY <3>1, InsideHolds, WorkersAreTokens DEF Ends
    <3>2. QED
      BY <3>1 DEF Inside
  <2>2. QED
    BY <2>1 DEF BodyOf
<1>2. VerdictOf[u] = "open" /\ VerdictOf' = [VerdictOf EXCEPT ![u] = "settled"]
  BY DEF VerdictOf, Ends
<1>3. QED
  BY <1>1, <1>2 DEF Contract!Next, Contract!Settle, BodyOf, VerdictOf

\* Steps that take nobody into or out of a body leave the abstract bodies alone.
LEMMA NobodyMoves ==
  ASSUME entered' = entered,
         \A v \in Worker : /\ pc'[v] = "body" <=> pc[v] = "body"
                           /\ pc[v] = "body" => on'[v] = on[v]
  PROVE  BodyOf' = BodyOf
<1>1. ASSUME NEW t \in Job
      PROVE  Inside(t)' <=> Inside(t)
  <2>1. \A v \in Worker : pc'[v] = "body" /\ on'[v] = t <=> pc[v] = "body" /\ on[v] = t
    OBVIOUS
  <2>2. QED
    BY <2>1 DEF Inside
<1>2. QED
  BY <1>1, BodyStays

\* The steps of a worker into and out of the body.
LEMMA BodySteps ==
  ASSUME AdmissionInv, [MQNext]_mqVars, NEW w \in Worker,
         Enter(w) \/ (\E r \in {"succeeded", "failed"} : Exit(w, r)) \/ (Crash(w) /\ pc[w] = "body")
  PROVE  Contract!Next
<1>1. /\ on[w] \in Job /\ pc[w] \in {"claimed", "body"} /\ state[on[w]] # "completed"
      /\ pc \in [Worker -> WorkerAt] /\ on \in [Worker -> Job \cup {NoTask}]
  BY InsideHolds DEF Enter, Exit, AdmissionInv, BaseInv, QueueInv, QueueTypes
<1>2. VerdictOf' = VerdictOf
  BY VerdictStays DEF Enter, Exit, Crash, taskVars
<1>3. \A v \in Worker : v # w /\ pc[v] = "body" => on[v] # on[w]
  BY <1>1, OneInside
<1>4. CASE Enter(w)
  <2>1. /\ pc[w] = "claimed" /\ pc' = [pc EXCEPT ![w] = "body"] /\ on' = on
        /\ entered' = entered \cup {on[w]} /\ on[w] \notin entered
    BY <1>4 DEF Enter, Goto, AdmissionInv, Admitted
  <2>2. Inside(on[w])'
    BY <1>1, <2>1 DEF Inside
  <2>3. \A t \in Job : t # on[w] => (Inside(t)' <=> Inside(t))
    BY <1>1, <2>1 DEF Inside
  <2>4. BodyOf[on[w]] = "fresh" /\ BodyOf' = [BodyOf EXCEPT ![on[w]] = "inside"]
    BY <1>1, <2>1, <2>2, <2>3 DEF BodyOf
  <2>5. VerdictOf[on[w]] = "open"
    BY <1>1 DEF VerdictOf
  <2>6. QED
    BY <1>1, <1>2, <2>4, <2>5 DEF Contract!Next, Contract!Enter, BodyOf, VerdictOf
<1>5. CASE pc[w] = "body" /\ ((\E r \in {"succeeded", "failed"} : Exit(w, r)) \/ Crash(w))
  <2>1. /\ entered' = entered /\ on[w] \in entered /\ pc'[w] # "body"
        /\ \A v \in Worker : v # w => pc'[v] = pc[v] /\ on'[v] = on[v]
    BY <1>1, <1>5 DEF Exit, Crash, Forget, Goto, AdmissionInv, Admitted
  <2>2. ASSUME NEW t \in Job
        PROVE  Inside(t)' <=> Inside(t) /\ t # on[w]
    <3>1. \A v \in Worker :
            pc'[v] = "body" /\ on'[v] = t <=> pc[v] = "body" /\ on[v] = t /\ t # on[w]
      BY <1>3, <1>5, <2>1
    <3>2. QED
      BY <3>1 DEF Inside
  <2>3. Inside(on[w])
    BY <1>5 DEF Inside
  <2>4. BodyOf[on[w]] = "inside" /\ BodyOf' = [BodyOf EXCEPT ![on[w]] = "left"]
    BY <1>1, <2>1, <2>2, <2>3 DEF BodyOf
  <2>5. QED
    BY <1>1, <1>2, <2>4 DEF Contract!Next, Contract!Leave, BodyOf, VerdictOf
<1>6. QED
  BY <1>4, <1>5 DEF Exit

\* The steps of a worker that write a receipt.
LEMMA ReceiptSteps ==
  ASSUME AdmissionInv, [MQNext]_mqVars, NEW w \in Worker,
         SettleRejected(w) \/ Flush(w) \/ FlushLater(w)
  PROVE  Contract!Next \/ (BodyOf' = BodyOf /\ VerdictOf' = VerdictOf)
<1>1. /\ pc \in [Worker -> WorkerAt] /\ on \in [Worker -> Job \cup {NoTask}]
      /\ pc[w] \in {"settling", "exited", "returned", "parked"}
      /\ on[w] \in Job /\ on[w] \in Task
  BY DEF SettleRejected, Flush, FlushLater, AdmissionInv, BaseInv, QueueInv, QueueTypes, LocalsInv, Job
<1>2. BodyOf' = BodyOf
  <2>1. /\ entered' = entered /\ pc'[w] # "body"
        /\ \A v \in Worker : v # w => pc'[v] = pc[v] /\ on'[v] = on[v]
    BY <1>1 DEF SettleRejected, Flush, FlushLater, Forget, Goto, Keep
  <2>2. QED
    BY <1>1, <2>1, NobodyMoves
<1>3. CASE UNCHANGED taskVars
  BY <1>2, <1>3, VerdictStays DEF taskVars
<1>4. CASE Receipt(on[w], "completed", NoToken) \/ FinishClaim(on[w], w, how[w])
  <2>1. /\ state[on[w]] # "completed" /\ state'[on[w]] = "completed" /\ claim'[on[w]] = NoToken
        /\ \A t \in Job : t # on[w] => state'[t] = state[t]
    <3>1. /\ state \in [Task -> State] /\ claim \in [Task -> Token \cup {NoToken}]
          /\ \A t \in Job : t \in Task
      BY DEF AdmissionInv, BaseInv, LedgerInv, TypeOK, Job
    <3>2. CASE Receipt(on[w], "completed", NoToken)
      BY <1>1, <3>1, <3>2 DEF Receipt, ReceiptAccepted, PutReceipt
    <3>3. CASE FinishClaim(on[w], w, how[w])
      BY <1>1, <3>1, <3>3 DEF FinishClaim
    <3>4. QED
      BY <1>4, <3>2, <3>3
  <2>2. Row(on[w])
    BY <1>1, RowStep
  <2>3. Ends(on[w])
    BY <2>1, <2>2 DEF Row, Kept, Admits
  <2>4. QED
    BY <1>1, <1>2, <2>1, <2>3, Settling
<1>5. QED
  BY <1>3, <1>4 DEF SettleRejected, Flush, FlushLater, PutExit

\* All other steps of a worker are invisible.
LEMMA QuietWorkerSteps ==
  ASSUME AdmissionInv, NEW w \in Worker, WorkerNext(w),
         ~(Enter(w) \/ (\E r \in {"succeeded", "failed"} : Exit(w, r)) \/ (Crash(w) /\ pc[w] = "body")),
         ~(SettleRejected(w) \/ Flush(w) \/ FlushLater(w))
  PROVE  BodyOf' = BodyOf /\ VerdictOf' = VerdictOf
<1>1. pc \in [Worker -> WorkerAt] /\ on \in [Worker -> Job \cup {NoTask}]
  BY DEF AdmissionInv, BaseInv, QueueInv, QueueTypes
<1>2. CASE ClaimOk(w)
  <2>1. on[w] \in Task /\ Claim(on[w], w)
    BY <1>2 DEF ClaimOk, AdmissionInv, BaseInv, QueueInv, LocalsInv, Job
  <2>2. \A t \in Job : state'[t] = "completed" <=> state[t] = "completed"
    BY <2>1 DEF Claim, ClaimRefusal, AdmissionInv, BaseInv, LedgerInv, TypeOK
  <2>3. BodyOf' = BodyOf
    BY <1>1, <1>2, NobodyMoves DEF ClaimOk, Goto
  <2>4. QED
    BY <2>2, <2>3, VerdictStays
<1>3. CASE \/ ClaimRejected(w) \/ DeliveryFails(w) \/ HandleRejection(w) \/ Refuse(w) \/ Abort(w)
           \/ FlushFails(w) \/ Return(w) \/ Crash(w) \/ Restart(w)
  <2>1. state' = state
    BY <1>3 DEF ClaimRejected, DeliveryFails, HandleRejection, Refuse, Abort, FlushFails, Return,
                Crash, Restart, taskVars
  <2>2. ASSUME ClaimRejected(w) \/ Refuse(w) \/ Abort(w) \/ FlushFails(w) \/ Restart(w)
        PROVE  BodyOf' = BodyOf
    BY <1>1, <2>2, NobodyMoves DEF ClaimRejected, Refuse, Abort, FlushFails, Restart, Goto
  <2>3. ASSUME DeliveryFails(w) \/ HandleRejection(w) \/ Return(w) \/ Crash(w)
        PROVE  BodyOf' = BodyOf
    <3>1. /\ entered' = entered /\ pc[w] # "body" /\ pc'[w] # "body"
          /\ \A v \in Worker : v # w => pc'[v] = pc[v] /\ on'[v] = on[v]
      BY <1>1, <2>3 DEF DeliveryFails, HandleRejection, Return, Crash, Forget, Goto, Keep
    <3>2. QED
      BY <3>1, NobodyMoves
  <2>4. QED
    BY <1>3, <2>1, <2>2, <2>3, VerdictStays
<1>4. QED
  BY <1>2, <1>3 DEF WorkerNext

\* A step that no worker takes at most settles one task.
LEMMA OtherSteps ==
  ASSUME AdmissionInv, [MQNext]_mqVars, ~(\E w \in Worker : WorkerNext(w))
  PROVE  Contract!Next \/ (BodyOf' = BodyOf /\ VerdictOf' = VerdictOf)
<1>1. BodyOf' = BodyOf
  <2>1. pc \in [Worker -> WorkerAt] /\ on \in [Worker -> Job \cup {NoTask}]
    BY DEF AdmissionInv, BaseInv, QueueInv, QueueTypes
  <2>2. \/ UNCHANGED <<pc, on, entered>>
        \/ \E w \in Worker, t \in Job : Deliver(w, t)
    BY Movers DEF mqVars, workerVars, AdmissionInv, BaseInv
  <2>3. QED
    BY <2>1, <2>2, NobodyMoves DEF Deliver
<1>2. CASE \E u \in Job : SettleUnstarted(u)
  <2>1. PICK u \in Job : SettleUnstarted(u)
    BY <1>2
  <2>2. u \in Task
    BY DEF Job
  <2>3. Ends(u) /\ \A t \in Job : t # u => state'[t] = state[t]
    BY <2>1, <2>2 DEF SettleUnstarted, Unstarted, PutReceipt, Ends, Job,
                      AdmissionInv, BaseInv, LedgerInv, TypeOK
  <2>4. QED
    BY <1>1, <2>3, Settling
<1>3. CASE ~(\E u \in Job : SettleUnstarted(u))
  <2>1. \A t \in Job : Kept(t)
    BY <1>3, OtherRow DEF AdmissionInv
  <2>2. QED
    BY <1>1, <2>1, VerdictStays DEF Kept
<1>4. QED
  BY <1>2, <1>3

\* Every step of the composition is a step of the contract, or invisible to it.
LEMMA ContractStep ==
  ASSUME AdmissionInv, [MQNext]_mqVars
  PROVE  [Contract!Next]_(Contract!handlerVars)
<1>1. Contract!Next \/ (BodyOf' = BodyOf /\ VerdictOf' = VerdictOf)
  BY BodySteps, ReceiptSteps, QuietWorkerSteps, OtherSteps
<1>2. QED
  BY <1>1 DEF Contract!handlerVars, BodyOf, VerdictOf

\* Before anything is published every job is fresh and open.
LEMMA ContractInit == MQInit => Contract!Init
  BY QueueAssumption DEF MQInit, Contract!Init, Job

\* For any number of jobs and workers, under stalls, lost receipts, database errors,
\* crashes and cancellation, a handler body is entered at most once and its task is
\* completed only while nobody is inside: the composition implements HandlerOnce.
THEOREM HandlerRunsOnce == MQSpec => HandlerOnceSpec
  BY AdmissionInvariant, ContractInit, ContractStep, PTL DEF MQSpec, HandlerOnceSpec, Contract!Spec

(***************************************************************************)
(* The run's family when the thread is free or paused                      *)
(***************************************************************************)
\* The only ways in which a job's row changes state.
JobRow(t) ==
  \/ state'[t] = state[t] /\ claim'[t] = claim[t] /\ entry'[t] = entry[t]
  \/ state'[t] = "completed" /\ entry'[t] = entry[t]
  \/ \E p \in Task, pol \in Policy, drain \in BOOLEAN :
       PublishJob(p, t, pol, drain) /\ Register(t, p, pol, drain, NoAttempt)
  \/ \E w \in Worker : ClaimOk(w) /\ on[w] = t

\* A job is registered, claimed and completed; nothing else happens to its row.
LEMMA JobRowStep ==
  ASSUME BaseInv, [MQNext]_mqVars, NEW t \in Job
  PROVE  JobRow(t)
<1>1. t \in Task /\ t # Run /\ Run \in Task /\ TypeOK
  BY QueueAssumption DEF Job, BaseInv, LedgerInv
<1>2. ASSUME NEW p \in Task, NEW u \in Job, NEW pol \in Policy, NEW drain \in BOOLEAN,
             PublishJob(p, u, pol, drain)
      PROVE  JobRow(t)
  <2>1. CASE Register(u, p, pol, drain, NoAttempt)
    BY <1>1, <1>2, <2>1, ZenonT(40) DEF Register, JobRow, TypeOK, Job
  <2>2. QED
    BY <1>2, <2>1 DEF PublishJob, Publish, JobRow, runVars, treeVars
<1>3. ASSUME NEW u \in Job, RelayNext(u)
      PROVE  JobRow(t)
  BY <1>3 DEF RelayNext, ReadDue, AddJob, AddFails, MarkPublished, MarkLost, Published,
              JobRow, runVars, treeVars, taskVars
<1>4. ASSUME NEW u \in Job, CancelNext(u)
      PROVE  JobRow(t)
  <2>1. CASE SettleUnstarted(u)
    BY <1>1, <2>1 DEF SettleUnstarted, PutReceipt, JobRow, treeVars, TypeOK, Job
  <2>2. QED
    BY <1>4, <2>1 DEF CancelNext, Cancel, CancelSettle, CancelRemove, Coordinate, Change,
                      JobRow, runVars, taskVars
<1>5. CASE HostNext
  <2>1. ASSUME NEW s, Receipt(Run, s, NoToken)
        PROVE  JobRow(t)
    BY <1>1, <2>1 DEF Receipt, PutReceipt, JobRow, treeVars, TypeOK
  <2>2. CASE Retire(Run)
    BY <1>1, <2>2 DEF Retire, PutReceipt, JobRow, TypeOK
  <2>3. CASE UNCHANGED <<entry, runVars>>
    BY <2>3 DEF runVars, JobRow
  <2>4. \/ UNCHANGED <<entry, runVars>> \/ Retire(Run)
        \/ \E s \in Receipts : Receipt(Run, s, NoToken)
    BY <1>5 DEF HostNext, RequestPause, GraphStops, Finish, Terminate, ClaimResume, BindResumed,
                ReleaseResume, HostCrash, RecoverOrphan, Change, taskVars, runVars, Receipts
  <2>5. QED
    BY <2>1, <2>2, <2>3, <2>4
<1>6. ASSUME NEW w \in Worker, WorkerNext(w)
      PROVE  JobRow(t)
  <2>1. pc[w] \notin {"idle", "dead"} => on[w] \in Job /\ on[w] \in Task
    BY DEF BaseInv, QueueInv, LocalsInv, Job
  <2>2. CASE ClaimOk(w)
    <3>1. on[w] \in Task /\ Claim(on[w], w)
      BY <2>1, <2>2 DEF ClaimOk
    <3>2. QED
      BY <1>1, <2>2, <3>1 DEF Claim, JobRow, treeVars, TypeOK
  <2>3. CASE SettleRejected(w)
    <3>1. CASE Receipt(on[w], "completed", NoToken)
      BY <1>1, <2>1, <2>3, <3>1 DEF Receipt, PutReceipt, JobRow, treeVars, TypeOK
    <3>2. QED
      BY <2>3, <3>1 DEF SettleRejected, JobRow, taskVars
  <2>4. CASE Flush(w) \/ FlushLater(w)
    <3>1. CASE FinishClaim(on[w], w, how[w])
      BY <1>1, <3>1 DEF FinishClaim, JobRow, treeVars, TypeOK
    <3>2. QED
      BY <2>4, <3>1 DEF Flush, FlushLater, PutExit, JobRow, taskVars
  <2>5. CASE UNCHANGED taskVars
    BY <2>5 DEF JobRow, taskVars
  <2>6. QED
    BY <1>6, <2>2, <2>3, <2>4, <2>5 DEF WorkerNext, ClaimRejected, DeliveryFails, HandleRejection,
      Enter, Refuse, Abort, Exit, FlushFails, Return, Crash, Restart
<1>7. CASE UNCHANGED taskVars
  BY <1>7 DEF JobRow, taskVars
<1>8. QED
  BY <1>2, <1>3, <1>4, <1>5, <1>6, <1>7 DEF MQNext, Stall, Deliver, mqVars

\* Nobody works on the task, and nobody may start to.
Still(t) ==
  \/ state[t] = "completed"
  \/ state[t] = "queued" /\ claim[t] = NoToken /\ ~entry[t].drain /\ desired[Run] = "paused"

\* The thread is free, or it is paused and no failed resume brought it back there.
AtRest == host = "ended" \/ (host = "paused" /\ "resume" \notin Env)

\* What the run's state says of its own row and of its family's.
HostInv ==
  /\ \A t \in Job : state[t] # "paused"
  /\ host \in {"pausing", "paused"} => desired[Run] = "paused"
  /\ host = "paused" => code = "stopped"
  /\ host = "ended" => state[Run] = "completed"
  /\ AtRest => \A t \in Descendants(Run) : Still(t)

\* What the thread does: it never leaves ended, leaves paused only to resume or to be
\* terminated, and changes the stored intent only together with its own state.
LEMMA HostMoves ==
  ASSUME BaseInv, [MQNext]_mqVars
  PROVE  \/ HostNext
         \/ host' = host /\ code' = code /\ desired'[Run] = desired[Run] /\ state'[Run] = state[Run]
<1>1. Run \in Task /\ Run \notin Job /\ TypeOK
  BY QueueAssumption DEF Job, BaseInv, LedgerInv
<1>2. ASSUME NEW p \in Task, NEW u \in Job, NEW pol \in Policy, NEW drain \in BOOLEAN,
             PublishJob(p, u, pol, drain)
      PROVE  host' = host /\ code' = code /\ desired'[Run] = desired[Run] /\ state'[Run] = state[Run]
  BY <1>1, <1>2 DEF PublishJob, Publish, Register, hostVars, runVars, treeVars, TypeOK
<1>3. ASSUME NEW u \in Job, RelayNext(u) \/ CancelNext(u)
      PROVE  host' = host /\ code' = code /\ desired'[Run] = desired[Run] /\ state'[Run] = state[Run]
  BY <1>1, <1>3 DEF RelayNext, ReadDue, AddJob, AddFails, MarkPublished, MarkLost, Published,
     CancelNext, Cancel, CancelSettle, CancelRemove, Coordinate, Change, SettleUnstarted, PutReceipt,
     hostVars, runVars, treeVars, taskVars, TypeOK
<1>4. ASSUME NEW w \in Worker, WorkerNext(w)
      PROVE  host' = host /\ code' = code /\ desired'[Run] = desired[Run] /\ state'[Run] = state[Run]
  <2>1. pc[w] \notin {"idle", "dead"} => on[w] # Run
    BY <1>1 DEF BaseInv, QueueInv, LocalsInv
  <2>2. CASE ClaimOk(w)
    BY <1>1, <2>1, <2>2 DEF ClaimOk, Claim, hostVars, treeVars, TypeOK
  <2>3. CASE SettleRejected(w)
    BY <1>1, <2>1, <2>3 DEF SettleRejected, Receipt, PutReceipt, hostVars, treeVars, taskVars, TypeOK
  <2>4. CASE Flush(w) \/ FlushLater(w)
    <3>1. on[w] # Run /\ UNCHANGED hostVars /\ PutExit(w)
      BY <2>1, <2>4 DEF Flush, FlushLater, BaseInv, QueueInv, LocalsInv
    <3>2. QED
      BY <1>1, <3>1 DEF PutExit, FinishClaim, hostVars, treeVars, taskVars, TypeOK
  <2>5. CASE UNCHANGED <<taskVars, hostVars>>
    BY <2>5 DEF taskVars, hostVars
  <2>6. QED
    BY <1>4, <2>2, <2>3, <2>4, <2>5 DEF WorkerNext, ClaimRejected, DeliveryFails, HandleRejection,
      Enter, Refuse, Abort, Exit, FlushFails, Return, Crash, Restart
<1>5. QED
  BY <1>2, <1>3, <1>4 DEF MQNext, Stall, Deliver, mqVars, taskVars, hostVars

\* A family at rest has nobody who could publish below it, and a job of it that is
\* neither completed nor running is refused by the pause it inherits.
LEMMA RestKept ==
  ASSUME AdmissionInv, HostInv, [MQNext]_mqVars, AtRest,
         host' = host, desired'[Run] = desired[Run], NEW d \in Descendants(Run)'
  PROVE  Still(d)'
<1>1. d \in Job /\ d \in Task /\ Run \in Task /\ d # Run /\ Run \in entry'[d].lineage /\ TypeOK
  BY QueueAssumption DEF Descendants, Job, AdmissionInv, BaseInv, LedgerInv
<1>2. JobRow(d)
  BY <1>1, JobRowStep DEF AdmissionInv
<1>3. CASE state'[d] = "completed"
  BY <1>3 DEF Still
<1>4. CASE state'[d] = state[d] /\ claim'[d] = claim[d] /\ entry'[d] = entry[d]
  <2>1. d \in Descendants(Run)
    BY <1>1, <1>4 DEF Descendants
  <2>2. Still(d)
    BY <2>1 DEF HostInv
  <2>3. QED
    BY <1>4, <2>2 DEF Still
<1>5. ASSUME NEW p \in Task, NEW pol \in Policy, NEW drain \in BOOLEAN,
             PublishJob(p, d, pol, drain), Register(d, p, pol, drain, NoAttempt)
      PROVE  FALSE
  <2>1. entry'[d] = NewEntry(d, p, pol, drain) /\ ParentOpen(p) /\ Producing(p)
    BY <1>1, <1>5 DEF Register, PublishJob, TypeOK
  <2>2. p # NoTask /\ Run \in entry[p].lineage
    BY <1>1, <2>1, NoTaskAssumption DEF NewEntry
  <2>3. CASE p = Run
    BY <2>1, <2>2, <2>3 DEF Producing, ParentOpen, HostInv, AtRest
  <2>4. CASE p # Run
    <3>1. Still(p)
      BY <2>2, <2>4 DEF HostInv, Descendants
    <3>2. PICK w \in Worker : pc[w] = "body" /\ on[w] = p
      BY <2>1, <2>4 DEF Producing
    <3>3. claim[p] = w /\ state[p] # "completed" /\ w # NoToken
      BY <3>2, InsideHolds, WorkersAreTokens
    <3>4. QED
      BY <3>1, <3>3 DEF Still
  <2>5. QED
    BY <2>3, <2>4
<1>6. ASSUME NEW w \in Worker, ClaimOk(w), on[w] = d
      PROVE  FALSE
  <2>1. ClaimRefusal(d) = "none" /\ entry' = entry
    BY <1>6 DEF ClaimOk, Claim, treeVars
  <2>2. Still(d)
    BY <1>1, <2>1 DEF HostInv, Descendants
  <2>3. state[d] # "completed"
    BY <2>1 DEF ClaimRefusal
  <2>4. Run \in entry[d].lineage /\ desired[Run] = "paused" /\ ~entry[d].drain
    BY <1>1, <2>1, <2>2, <2>3 DEF Still
  <2>5. IntentOf(d) \in {"terminated", "paused"}
    BY <2>4 DEF IntentOf
  <2>6. QED
    BY <2>1, <2>4, <2>5 DEF ClaimRefusal
<1>7. QED
  BY <1>2, <1>3, <1>4, <1>5, <1>6 DEF JobRow

\* A receipt for the run's own task leaves the family below it as it was.
LEMMA RunReceipt ==
  ASSUME TypeOK, NEW s \in Receipts, Receipt(Run, s, NoToken)
  PROVE  /\ desired' = desired /\ entry' = entry /\ state'[Run] = s
         /\ \A d \in Task : d # Run => state'[d] = state[d] /\ claim'[d] = claim[d]
<1>1. Run \in Task
  BY QueueAssumption
<1>2. QED
  BY <1>1 DEF Receipt, PutReceipt, TypeOK, treeVars

\* What finish() asks of a family before it frees or pauses the thread puts it at rest.
LEMMA FinishRests ==
  ASSUME AdmissionInv, HostInv, NEW saved \in BOOLEAN, Finish(saved)
  PROVE  /\ code = "stopped" /\ code' = code /\ desired' = desired
         /\ \/ host' \in {"settling", "terminating"}
            \/ host' = "pausing" /\ host = "pausing"
            \/ /\ host' = "paused" /\ host = "pausing"
               /\ \A d \in Descendants(Run)' : Still(d)'
            \/ /\ host' = "ended" /\ state'[Run] = "completed"
               /\ \A d \in Descendants(Run)' : Still(d)'
<1> DEFINE next  == IF IntentOf(Run) = "terminated" THEN "terminating" ELSE host
           quiet == Settled(Run, next = "pausing")
<1>1. /\ code = "stopped" /\ code' = code
      /\ host \in {"running", "settling", "pausing", "terminating"}
      /\ Run \in Task /\ TypeOK
  BY QueueAssumption DEF Finish, AdmissionInv, BaseInv, LedgerInv
<1>2. CASE ~quiet
  <2>1. host' = (IF next = "running" THEN "settling" ELSE next) /\ UNCHANGED taskVars
    BY <1>2 DEF Finish
  <2>2. QED
    BY <1>1, <2>1 DEF taskVars
<1>3. CASE quiet
  <2>1. \/ host' = "paused" /\ next = "pausing" /\ Receipt(Run, "paused", NoToken)
        \/ host' = "ended" /\ Receipt(Run, "completed", NoToken)
    BY <1>3 DEF Finish
  <2>2. PICK s \in {"paused", "completed"} : Receipt(Run, s, NoToken) /\ (host' = "ended" => s = "completed")
    BY <2>1
  <2>3. /\ desired' = desired /\ entry' = entry /\ state'[Run] = s
        /\ \A d \in Task : d # Run => state'[d] = state[d] /\ claim'[d] = claim[d]
    BY <1>1, <2>2, RunReceipt DEF Receipts
  <2>4. ASSUME NEW d \in Descendants(Run)'
        PROVE  Still(d)'
    <3>1. d \in Task /\ d # Run /\ d \in Job /\ d \in Descendants(Run)
      BY <2>3 DEF Descendants, Job
    <3>2. state[d] = "completed" \/ (next = "pausing" /\ Quiescent(d))
      BY <1>3, <3>1 DEF Settled
    <3>3. CASE state[d] = "completed"
      BY <2>3, <3>1, <3>3 DEF Still
    <3>4. CASE next = "pausing" /\ Quiescent(d)
      <4>1. host = "pausing" /\ desired[Run] = "paused" /\ state[d] # "paused"
        BY <3>1, <3>4 DEF HostInv
      <4>2. state[d] = "queued" /\ claim[d] = NoToken /\ ~entry[d].drain
        BY <3>4, <4>1 DEF Quiescent
      <4>3. QED
        BY <2>3, <3>1, <4>1, <4>2 DEF Still
    <3>5. QED
      BY <3>2, <3>3, <3>4
  <2>5. next = "pausing" => host = "pausing"
    OBVIOUS
  <2>6. QED
    BY <1>1, <2>1, <2>2, <2>3, <2>4, <2>5
<1>4. QED
  BY <1>2, <1>3

\* Every step keeps what the run's state says of its family.
LEMMA HostInvStep ==
  ASSUME AdmissionInv, HostInv, [MQNext]_mqVars
  PROVE  HostInv'
<1>1. Run \in Task /\ Run \notin Job /\ TypeOK /\ BaseInv
  BY QueueAssumption DEF Job, AdmissionInv, BaseInv, LedgerInv
<1>2. \A t \in Job : state'[t] # "paused"
  <2>1. SUFFICES ASSUME NEW t \in Job
                 PROVE  state'[t] # "paused"
    OBVIOUS
  <2>2. t \in Task /\ state[t] # "paused" /\ JobRow(t)
    BY <1>1, JobRowStep DEF Job, HostInv
  <2>3. ASSUME NEW p \in Task, NEW pol \in Policy, NEW drain \in BOOLEAN,
               Register(t, p, pol, drain, NoAttempt)
        PROVE  state'[t] # "paused"
    BY <1>1, <2>2, <2>3 DEF Register, TypeOK
  <2>4. ASSUME NEW w \in Worker, ClaimOk(w), on[w] = t
        PROVE  state'[t] # "paused"
    BY <1>1, <2>2, <2>4 DEF ClaimOk, Claim, TypeOK
  <2>5. QED
    BY <2>2, <2>3, <2>4 DEF JobRow
<1>3. CASE host' = host /\ code' = code /\ desired'[Run] = desired[Run] /\ state'[Run] = state[Run]
  <2>1. AtRest' => AtRest
    BY <1>3 DEF AtRest
  <2>2. AtRest' => \A d \in Descendants(Run)' : Still(d)'
    BY <1>3, <2>1, RestKept
  <2>3. QED
    BY <1>2, <1>3, <2>2 DEF HostInv
<1>4. CASE RequestPause
  BY <1>1, <1>2, <1>4 DEF RequestPause, Change, HostInv, AtRest, TypeOK
<1>5. CASE GraphStops \/ HostCrash
  <2>1. /\ host' = host /\ desired' = desired /\ state' = state /\ code # "stopped"
    BY <1>5 DEF GraphStops, HostCrash, taskVars
  <2>2. host # "paused"
    BY <2>1 DEF HostInv
  <2>3. AtRest' => \A d \in Descendants(Run)' : Still(d)'
    BY <2>1, RestKept DEF AtRest
  <2>4. QED
    BY <1>2, <2>1, <2>2, <2>3 DEF HostInv
<1>6. CASE Terminate \/ ClaimResume \/ BindResumed
  BY <1>2, <1>6 DEF Terminate, ClaimResume, BindResumed, HostInv, AtRest
<1>7. CASE ReleaseResume
  BY <1>1, <1>2, <1>7 DEF ReleaseResume, Change, HostInv, AtRest, TypeOK
<1>8. ASSUME NEW saved \in BOOLEAN, Finish(saved)
      PROVE  HostInv'
  <2>1. /\ code = "stopped" /\ code' = code /\ desired' = desired
        /\ \/ host' \in {"settling", "terminating"}
           \/ host' = "pausing" /\ host = "pausing"
           \/ /\ host' = "paused" /\ host = "pausing"
              /\ \A d \in Descendants(Run)' : Still(d)'
           \/ /\ host' = "ended" /\ state'[Run] = "completed"
              /\ \A d \in Descendants(Run)' : Still(d)'
    BY <1>8, FinishRests
  <2>2. QED
    BY <1>2, <2>1 DEF HostInv, AtRest
<1>9. CASE RecoverOrphan
  <2>1. CASE Settled(Run, FALSE) /\ Retire(Run) /\ host' = "ended"
    <3>1. /\ entry' = entry /\ state'[Run] = "completed"
          /\ \A d \in Task : d # Run => state'[d] = state[d]
      BY <1>1, <2>1 DEF Retire, PutReceipt, TypeOK
    <3>2. \A d \in Descendants(Run)' : Still(d)'
      BY <2>1, <3>1 DEF Descendants, Settled, Still
    <3>3. QED
      BY <1>2, <2>1, <3>1, <3>2 DEF HostInv
  <2>2. CASE host' = "terminating"
    BY <1>2, <2>2 DEF HostInv, AtRest
  <2>3. QED
    BY <1>9, <2>1, <2>2 DEF RecoverOrphan
<1>10. QED
  BY <1>1, <1>3, <1>4, <1>5, <1>6, <1>7, <1>8, <1>9, HostMoves DEF HostNext

\* The run starts with nobody below it.
LEMMA HostInvInit == MQInit => HostInv
<1>1. Run \in Task
  BY QueueAssumption
<1>2. QED
  BY <1>1 DEF MQInit, HostInv, AtRest, Job

\* A worker inside a body of the family, or a claim, contradicts rest.
LEMMA RestIsQuiet ==
  ASSUME AdmissionInv, HostInv, AtRest, NEW d \in Descendants(Run)
  PROVE  ~Inside(d) /\ claim[d] = NoToken
<1>1. Still(d) /\ d \in Task
  BY DEF HostInv, Descendants
<1>2. claim[d] = NoToken
  BY <1>1 DEF Still, AdmissionInv, BaseInv, LedgerInv, Unheld
<1>3. ~Inside(d)
  <2>1. ASSUME NEW w \in Worker, pc[w] = "body", on[w] = d
        PROVE  FALSE
    BY <1>2, <2>1, InsideHolds, WorkersAreTokens
  <2>2. QED
    BY <2>1 DEF Inside
<1>4. QED
  BY <1>2, <1>3

\* The thread's state and the family's rows agree in every reachable state.
LEMMA HostInvariant == MQSpec => []HostInv
  BY HostInvInit, HostInvStep, AdmissionInvariant, PTL DEF MQSpec

\* For any number of jobs and workers and under every fault, a thread that is free
\* for the next run has no handler of the previous one running or admitted.
THEOREM FreedQuiet == MQSpec => []FreedRunIsQuiet
<1>1. AdmissionInv /\ HostInv => FreedRunIsQuiet
  BY RestIsQuiet DEF FreedRunIsQuiet, AtRest
<1>2. QED
  BY <1>1, AdmissionInvariant, HostInvariant, PTL

(***************************************************************************)
(* The run keeps the contract of the runs of a thread                      *)
(***************************************************************************)
Stages == [r \in {Run} |-> IF host = "ended" THEN "closed" ELSE "open"]
Works  == [r \in {Run} |-> Busy]

\* A run that ended is quiet.
EndedIdle == host = "ended" => ~Busy

\* So it is in every state of the inductive invariants, and after every step.
LEMMA EndsIdle == AdmissionInv /\ HostInv => EndedIdle
  BY RestIsQuiet DEF EndedIdle, Busy, AtRest

LEMMA EndsIdleNext == AdmissionInv' /\ HostInv' => EndedIdle'
  BY EndsIdle, PTL

\* The end of a run is a receipt for its own task: nothing of its family moves with it.
LEMMA EndKeeps ==
  ASSUME BaseInv, [MQNext]_mqVars, host # "ended", host' = "ended"
  PROVE  Busy' <=> Busy
<1>1. (\E saved \in BOOLEAN : Finish(saved)) \/ RecoverOrphan
  BY HostMoves DEF HostNext, RequestPause, GraphStops, Terminate, ClaimResume, BindResumed, ReleaseResume, HostCrash
<1>2. pc' = pc /\ on' = on
  BY <1>1 DEF Finish, RecoverOrphan, envVars, workerVars
<1>3. entry' = entry /\ \A d \in Task : d # Run => claim'[d] = claim[d]
  <2>1. Run \in Task /\ TypeOK
    BY QueueAssumption DEF BaseInv, LedgerInv
  <2>2. UNCHANGED taskVars \/ (\E s \in Receipts : Receipt(Run, s, NoToken)) \/ Retire(Run) \/ Change(Run, "terminated")
    BY <1>1 DEF Finish, RecoverOrphan, Receipts
  <2>3. CASE \E s \in Receipts : Receipt(Run, s, NoToken)
    BY <2>1, <2>3, RunReceipt
  <2>4. CASE Retire(Run)
    BY <2>1, <2>4 DEF Retire, PutReceipt, TypeOK
  <2>5. CASE UNCHANGED taskVars \/ Change(Run, "terminated")
    BY <2>5 DEF taskVars, Change, runVars
  <2>6. QED
    BY <2>2, <2>3, <2>4, <2>5
<1>4. Descendants(Run)' = Descendants(Run) /\ Run \notin Descendants(Run) /\ Descendants(Run) \subseteq Task
  BY <1>3 DEF Descendants
<1>5. \A t \in Task : Inside(t)' <=> Inside(t)
  BY <1>2 DEF Inside
<1>6. \A t \in Descendants(Run) : (Inside(t)' \/ claim'[t] # NoToken) <=> (Inside(t) \/ claim[t] # NoToken)
  BY <1>3, <1>4, <1>5
<1>7. QED
  BY <1>4, <1>6 DEF Busy

\* A run that ended does not begin again.
LEMMA EndStays ==
  ASSUME BaseInv, [MQNext]_mqVars, host = "ended"
  PROVE  host' = "ended"
  BY HostMoves DEF HostNext, RequestPause, GraphStops, Finish, Terminate, ClaimResume, BindResumed,
                   ReleaseResume, HostCrash, RecoverOrphan

\* Every step of the composition is a step of the run's contract, or invisible to it.
LEMMA TurnStep ==
  ASSUME AdmissionInv, HostInv, [MQNext]_mqVars
  PROVE  [Turns!Next]_(Turns!turnVars)
<1>1. AdmissionInv' /\ HostInv' /\ BaseInv
  BY AdmissionStep, HostInvStep DEF AdmissionInv
<1>2. /\ host = "ended" => ~Busy
      /\ host' = "ended" => ~Busy'
      /\ Busy \in BOOLEAN /\ Busy' \in BOOLEAN
  <2>1. Busy \in BOOLEAN /\ Busy' \in BOOLEAN
    BY DEF Busy
  <2>2. QED
    BY <1>1, <2>1, EndsIdle, EndsIdleNext DEF EndedIdle
<1>3. CASE host = "ended"
  <2>1. host' = "ended" /\ Busy = FALSE /\ Busy' = FALSE
    <3>1. host' = "ended"
      BY <1>1, <1>3, EndStays
    <3>2. QED
      BY <1>2, <1>3, <3>1, Zenon
  <2>2. Stages' = Stages /\ Works' = Works
    BY <1>3, <2>1, Zenon DEF Stages, Works
  <2>3. QED
    BY <2>2 DEF Turns!turnVars, Stages, Works
<1>4. CASE host # "ended" /\ host' = "ended"
  <2>1. Busy = FALSE /\ Busy' = FALSE
    <3>1. Busy' <=> Busy
      BY <1>1, <1>4, EndKeeps
    <3>2. QED
      BY <1>2, <1>4, <3>1, Zenon
  <2>2. Works' = Works /\ ~Works[Run]
    BY <2>1, Zenon DEF Works
  <2>3. Stages[Run] = "open" /\ Stages' = [Stages EXCEPT ![Run] = "closed"]
    BY <1>4 DEF Stages
  <2>4. QED
    BY <2>2, <2>3 DEF Turns!Next, Turns!End, Stages, Works
<1>5. CASE host # "ended" /\ host' # "ended"
  <2>1. Stages[Run] = "open" /\ Stages' = Stages
    BY <1>5 DEF Stages
  <2>2. CASE Busy' = Busy
    <3>1. Works' = Works
      BY <2>2, Zenon DEF Works
    <3>2. QED
      BY <2>1, <3>1 DEF Turns!turnVars, Stages, Works
  <2>3. CASE Busy' # Busy
    <3>1. Busy' = ~Busy
      BY <1>2, <2>3, Zenon
    <3>2. Works' = [Works EXCEPT ![Run] = ~@]
      BY <3>1, Zenon DEF Works
    <3>3. QED
      BY <2>1, <3>2 DEF Turns!Next, Turns!Work, Stages, Works
  <2>4. QED
    BY <2>2, <2>3
<1>6. QED
  BY <1>3, <1>4, <1>5

\* The run holds its thread from the start, and nobody is below it.
LEMMA TurnInit == MQInit => Turns!Init
<1> SUFFICES ASSUME MQInit PROVE Turns!Init
  OBVIOUS
<1>1. host # "ended" /\ Busy = FALSE
  <2>1. host # "ended" /\ ~Busy
    BY QueueAssumption DEF MQInit, Busy, Descendants, Inside, NoEntry
  <2>2. QED
    BY <2>1, Zenon DEF Busy
<1>2. \E first \in SUBSET {Run} :
        /\ \A r, s \in first : r = s
        /\ [r \in {Run} |-> IF host = "ended" THEN "closed" ELSE "open"]
             = [r \in {Run} |-> IF r \in first THEN "open" ELSE "new"]
  <2>1. WITNESS {Run} \in SUBSET {Run}
  <2>2. QED
    BY <1>1
<1>3. [r \in {Run} |-> Busy] = [r \in {Run} |-> FALSE]
  BY <1>1, Zenon
<1>4. QED
  BY <1>2, <1>3, Zenon DEF Turns!Init

\* For any number of jobs, nested in any way below the run, and under every fault: the
\* handlers of a run work only while the run holds its thread, and the run ends once, with
\* none of them running or admitted.
THEOREM RunTakesItsTurn == MQSpec => RunInTurnSpec
  BY AdmissionInvariant, HostInvariant, TurnInit, TurnStep, PTL DEF MQSpec, RunInTurnSpec, Turns!Spec

\* As long as no resume fails after it was claimed, a run that is confirmed paused has
\* no handler running or admitted.
THEOREM PausedQuiet ==
  ASSUME "resume" \notin Env
  PROVE  MQSpec => []PausedRunIsQuiet
<1>1. AdmissionInv /\ HostInv => PausedRunIsQuiet
  BY RestIsQuiet DEF PausedRunIsQuiet, AtRest
<1>2. QED
  BY <1>1, AdmissionInvariant, HostInvariant, PTL

(***************************************************************************)
(* A failure that was reported is kept                                     *)
(***************************************************************************)
\* A worker reports the exit of the handler it ran under its own claim.
Reports(t) ==
  \E w \in Worker : /\ claim[t] = w /\ on[w] = t
                    /\ Flush(w) \/ FlushLater(w)
                    /\ FinishClaim(t, w, how[w])

\* Nothing else stores an outcome or takes a claim off a row.
HoldsOn(t) ==
  /\ outcome'[t] = outcome[t]
  /\ claim[t] # NoToken =>
       claim'[t] = claim[t] /\ (state'[t] = "completed" <=> state[t] = "completed")

\* The claim and the outcome of a job change by the receipt of the claim's owner only.
LEMMA OutcomeStep ==
  ASSUME AdmissionInv, [MQNext]_mqVars, NEW t \in Job
  PROVE  HoldsOn(t) \/ Reports(t)
<1>1. t \in Task /\ t # Run /\ Run \in Task /\ TypeOK /\ BaseInv
  BY QueueAssumption DEF Job, AdmissionInv, BaseInv, LedgerInv
<1>2. ASSUME NEW p \in Task, NEW u \in Job, NEW pol \in Policy, NEW drain \in BOOLEAN,
             PublishJob(p, u, pol, drain)
      PROVE  HoldsOn(t)
  <2>1. CASE Register(u, p, pol, drain, NoAttempt)
    BY <1>1, <2>1 DEF Register, HoldsOn, TypeOK
  <2>2. QED
    BY <1>2, <2>1 DEF PublishJob, Publish, HoldsOn, runVars
<1>3. ASSUME NEW u \in Job, RelayNext(u)
      PROVE  HoldsOn(t)
  BY <1>3 DEF RelayNext, ReadDue, AddJob, AddFails, MarkPublished, MarkLost, Published,
              HoldsOn, runVars, taskVars
<1>4. ASSUME NEW u \in Job, CancelNext(u)
      PROVE  HoldsOn(t)
  <2>1. CASE SettleUnstarted(u)
    BY <1>1, <2>1 DEF SettleUnstarted, Unstarted, PutReceipt, HoldsOn, TypeOK, Job
  <2>2. QED
    BY <1>4, <2>1 DEF CancelNext, Cancel, CancelSettle, CancelRemove, Coordinate, Change,
                      HoldsOn, runVars, taskVars
<1>5. CASE HostNext
  <2>1. ASSUME NEW s, Receipt(Run, s, NoToken)
        PROVE  HoldsOn(t)
    BY <1>1, <2>1 DEF Receipt, PutReceipt, HoldsOn, TypeOK
  <2>2. CASE Retire(Run)
    BY <1>1, <2>2 DEF Retire, PutReceipt, HoldsOn, TypeOK
  <2>3. CASE UNCHANGED runVars
    BY <2>3 DEF runVars, HoldsOn
  <2>4. UNCHANGED runVars \/ Retire(Run) \/ \E s \in Receipts : Receipt(Run, s, NoToken)
    BY <1>5 DEF HostNext, RequestPause, GraphStops, Finish, Terminate, ClaimResume, BindResumed,
                ReleaseResume, HostCrash, RecoverOrphan, Change, taskVars, runVars, Receipts
  <2>5. QED
    BY <2>1, <2>2, <2>3, <2>4
<1>6. ASSUME NEW w \in Worker, WorkerNext(w)
      PROVE  HoldsOn(t) \/ Reports(t)
  <2>1. pc[w] \notin {"idle", "dead"} => on[w] \in Job /\ on[w] \in Task
    BY DEF AdmissionInv, BaseInv, QueueInv, LocalsInv, Job
  <2>2. CASE ClaimOk(w)
    <3>1. on[w] \in Task /\ Claim(on[w], w) /\ claim[on[w]] = NoToken
      BY <2>1, <2>2 DEF ClaimOk, Claim, ClaimRefusal
    <3>2. QED
      BY <1>1, <3>1 DEF Claim, HoldsOn, TypeOK
  <2>3. CASE SettleRejected(w)
    <3>1. CASE Receipt(on[w], "completed", NoToken)
      <4>1. claim[on[w]] = NoToken /\ on[w] \in Task
        BY <2>1, <2>3, <3>1 DEF SettleRejected, Receipt, ReceiptAccepted, AdmissionInv, Admitted
      <4>2. QED
        BY <1>1, <3>1, <4>1 DEF Receipt, PutReceipt, HoldsOn, TypeOK
    <3>2. QED
      BY <2>3, <3>1 DEF SettleRejected, HoldsOn, taskVars
  <2>4. CASE Flush(w) \/ FlushLater(w)
    <3>1. on[w] \in Task /\ PutExit(w)
      BY <2>1, <2>4 DEF Flush, FlushLater, BaseInv, AdmissionInv, QueueInv, LocalsInv
    <3>2. CASE FinishClaim(on[w], w, how[w]) /\ on[w] = t
      BY <2>4, <3>2 DEF FinishClaim, Reports
    <3>3. CASE FinishClaim(on[w], w, how[w]) /\ on[w] # t
      BY <1>1, <3>1, <3>3 DEF FinishClaim, HoldsOn, TypeOK
    <3>4. CASE UNCHANGED taskVars
      BY <3>4 DEF HoldsOn, taskVars
    <3>5. QED
      BY <3>1, <3>2, <3>3, <3>4 DEF PutExit
  <2>5. CASE UNCHANGED taskVars
    BY <2>5 DEF HoldsOn, taskVars
  <2>6. QED
    BY <1>6, <2>2, <2>3, <2>4, <2>5 DEF WorkerNext, ClaimRejected, DeliveryFails, HandleRejection,
      Enter, Refuse, Abort, Exit, FlushFails, Return, Crash, Restart
<1>7. CASE UNCHANGED taskVars
  BY <1>7 DEF HoldsOn, taskVars
<1>8. QED
  BY <1>2, <1>3, <1>4, <1>5, <1>6, <1>7 DEF MQNext, Stall, Deliver, mqVars

\* What a worker that left the body, or was refused, knows of its job's row.
Reported(w) ==
  /\ pc[w] = "exited" \/ owes[w] => claim[on[w]] = w
  /\ pc[w] = "returned" /\ ~owes[w] => state[on[w]] = "completed" /\ outcome[on[w]] = how[w]
  /\ pc[w] = "parked" => owes[w]
  /\ pc[w] = "settling" => outcome[on[w]] = "none"

\* The job is over before its receipt is: the receipt will be a success, or nobody is
\* left to write one.
ReceiptPending(t) ==
  \E w \in Worker :
    /\ claim[t] = w
    /\ (pc[w] = "parked" /\ on[w] = t /\ how[w] = "succeeded") \/ pc[w] = "dead"

Unmasked(t) ==
  job[t] = "finished" =>
    \/ state[t] = "completed" /\ outcome[t] # "failed"
    \/ state[t] # "completed" /\ ReceiptPending(t)

MaskInv == CancelInv /\ (\A w \in Worker : Reported(w)) /\ (\A t \in Job : Unmasked(t))

\* A step that is not the worker's own leaves its locals alone.
LEMMA Bystander ==
  ASSUME AdmissionInv, [MQNext]_mqVars, NEW v \in Worker,
         ~WorkerNext(v), ~(\E t \in Job : Deliver(v, t))
  PROVE  pc'[v] = pc[v] /\ on'[v] = on[v] /\ how'[v] = how[v] /\ owes'[v] = owes[v]
<1>1. /\ pc \in [Worker -> WorkerAt] /\ on \in [Worker -> Job \cup {NoTask}]
      /\ how \in [Worker -> Outcome] /\ owes \in [Worker -> BOOLEAN]
  BY DEF AdmissionInv, BaseInv, QueueInv, QueueTypes
<1>2. ASSUME NEW w \in Worker, w # v, WorkerNext(w)
      PROVE  pc'[v] = pc[v] /\ on'[v] = on[v] /\ how'[v] = how[v] /\ owes'[v] = owes[v]
  <2>1. CASE ClaimOk(w) \/ ClaimRejected(w) \/ DeliveryFails(w)
    BY <1>1, <1>2, <2>1 DEF ClaimOk, ClaimRejected, DeliveryFails, Goto, Forget
  <2>2. CASE HandleRejection(w) \/ SettleRejected(w)
    BY <1>1, <1>2, <2>2 DEF HandleRejection, SettleRejected, Goto, Forget, Keep
  <2>3. CASE \/ Enter(w) \/ Refuse(w) \/ Abort(w) \/ (\E r \in {"succeeded", "failed"} : Exit(w, r))
             \/ Flush(w) \/ FlushFails(w)
    BY <1>1, <1>2, <2>3 DEF Enter, Refuse, Abort, Exit, Flush, FlushFails, Goto
  <2>4. CASE Return(w)
    BY <1>1, <1>2, <2>4 DEF Return, Goto, Forget, Keep
  <2>5. CASE FlushLater(w)
    BY <1>1, <1>2, <2>5 DEF FlushLater, Goto, Forget, Keep
  <2>6. CASE Crash(w) \/ Restart(w)
    BY <1>1, <1>2, <2>6 DEF Crash, Restart, Goto, Forget
  <2>7. QED
    BY <1>2, <2>1, <2>2, <2>3, <2>4, <2>5, <2>6 DEF WorkerNext
<1>3. ASSUME NEW w \in Worker, NEW t \in Job, Deliver(w, t), w # v
      PROVE  pc'[v] = pc[v] /\ on'[v] = on[v] /\ how'[v] = how[v] /\ owes'[v] = owes[v]
  BY <1>1, <1>3 DEF Deliver
<1>4. CASE UNCHANGED <<pc, on, how, owes>>
  BY <1>4
<1>5. \/ UNCHANGED <<pc, on, how, owes>>
      \/ \E w \in Worker : w # v /\ WorkerNext(w)
      \/ \E w \in Worker, t \in Job : w # v /\ Deliver(w, t)
  BY DEF MQNext, PublishJob, RelayNext, ReadDue, AddJob, AddFails, MarkPublished, MarkLost,
         CancelNext, Cancel, CancelSettle, CancelRemove, Coordinate, Stall, HostNext,
         RequestPause, GraphStops, Finish, Terminate, ClaimResume, BindResumed, ReleaseResume,
         HostCrash, RecoverOrphan, envVars, workerVars, mqVars
<1>6. QED
  BY <1>2, <1>3, <1>4, <1>5

\* A worker that holds its job's claim writes the outcome when it writes a receipt.
LEMMA OwnReceipt ==
  ASSUME AdmissionInv, NEW w \in Worker, on[w] \in Job, claim[on[w]] = w, PutExit(w)
  PROVE  state'[on[w]] = "completed" /\ outcome'[on[w]] = how[w]
<1>1. FinishClaim(on[w], w, how[w]) /\ on[w] \in Task
  BY DEF PutExit, Job
<1>2. QED
  BY <1>1 DEF FinishClaim, AdmissionInv, BaseInv, LedgerInv, TypeOK

\* The worker's own steps keep what it knows.
LEMMA OwnReported ==
  ASSUME AdmissionInv, MaskInv, NEW w \in Worker, WorkerNext(w)
  PROVE  Reported(w)'
<1>1. /\ pc \in [Worker -> WorkerAt] /\ on \in [Worker -> Job \cup {NoTask}]
      /\ how \in [Worker -> Outcome] /\ owes \in [Worker -> BOOLEAN]
      /\ Reported(w) /\ Admitted(w) /\ TypeOK
      /\ (owes[w] => pc[w] \in {"returned", "parked"})
      /\ (pc[w] \notin {"idle", "dead"} => on[w] \in Job /\ on[w] \in Task)
  BY DEF AdmissionInv, BaseInv, QueueInv, QueueTypes, LocalsInv, LedgerInv, MaskInv, Job
<1>2. CASE \/ ClaimOk(w) \/ ClaimRejected(w) \/ DeliveryFails(w) \/ SettleRejected(w) \/ Enter(w)
           \/ Restart(w)
  <2>1. owes' = owes /\ ~owes[w] /\ pc'[w] \notin {"exited", "returned", "parked", "settling"}
    BY <1>1, <1>2 DEF ClaimOk, ClaimRejected, DeliveryFails, SettleRejected, Enter, Restart, Goto, Forget
  <2>2. QED
    BY <2>1 DEF Reported
<1>3. CASE HandleRejection(w)
  <2>1. owes' = owes /\ ~owes[w] /\ UNCHANGED taskVars
    BY <1>1, <1>3 DEF HandleRejection
  <2>2. CASE AfterRejection(w) = "settle"
    <3>1. pc'[w] = "settling" /\ on'[w] = on[w] /\ on[w] \in Task
      BY <1>1, <1>3, <2>2 DEF HandleRejection, Goto, Keep
    <3>2. state[on[w]] # "completed"
      BY <2>2 DEF AfterRejection
    <3>3. outcome[on[w]] = "none"
      BY <3>1, <3>2 DEF MaskInv, CancelInv
    <3>4. QED
      BY <2>1, <3>1, <3>3 DEF Reported, taskVars
  <2>3. CASE AfterRejection(w) # "settle"
    <3>1. pc'[w] = "idle"
      BY <1>1, <1>3, <2>3 DEF HandleRejection, Goto, Forget
    <3>2. QED
      BY <2>1, <3>1 DEF Reported
  <2>4. QED
    BY <2>2, <2>3
<1>4. CASE Refuse(w) \/ \E r \in {"succeeded", "failed"} : Exit(w, r)
  <2>1. /\ pc[w] \in {"claimed", "body"} /\ pc'[w] = "exited" /\ on' = on /\ owes' = owes
        /\ UNCHANGED taskVars
    BY <1>1, <1>4 DEF Refuse, Exit, Goto
  <2>2. claim[on[w]] = w
    BY <1>1, <2>1 DEF Admitted
  <2>3. QED
    BY <1>1, <2>1, <2>2 DEF Reported, taskVars
<1>5. CASE Abort(w)
  BY <1>1, <1>5 DEF Abort, Reported, taskVars
<1>6. CASE Flush(w)
  <2>1. /\ pc[w] = "exited" /\ pc'[w] = "returned" /\ on' = on /\ how' = how /\ owes' = owes
        /\ ~owes[w] /\ PutExit(w)
    BY <1>1, <1>6 DEF Flush, Goto
  <2>2. claim[on[w]] = w
    BY <1>1, <2>1 DEF Reported
  <2>3. state'[on[w]] = "completed" /\ outcome'[on[w]] = how[w]
    BY <1>1, <2>1, <2>2, OwnReceipt
  <2>4. QED
    BY <2>1, <2>3 DEF Reported
<1>7. CASE FlushFails(w)
  <2>1. /\ pc[w] = "exited" /\ pc'[w] = "returned" /\ on' = on /\ owes'[w] = TRUE
        /\ UNCHANGED taskVars
    BY <1>1, <1>7 DEF FlushFails, Goto
  <2>2. QED
    BY <1>1, <2>1 DEF Reported, taskVars
<1>8. CASE Return(w)
  <2>1. CASE owes[w]
    <3>1. pc'[w] = "parked" /\ on' = on /\ owes' = owes /\ UNCHANGED taskVars
      BY <1>1, <1>8, <2>1 DEF Return, Goto, Keep
    <3>2. QED
      BY <1>1, <2>1, <3>1 DEF Reported, taskVars
  <2>2. CASE ~owes[w]
    <3>1. pc'[w] = "idle" /\ owes' = owes
      BY <1>1, <1>8, <2>2 DEF Return, Goto, Forget
    <3>2. QED
      BY <2>2, <3>1 DEF Reported
  <2>3. QED
    BY <2>1, <2>2
<1>9. CASE FlushLater(w)
  <2>1. owes[w] /\ owes'[w] = FALSE /\ PutExit(w) /\ claim[on[w]] = w
    BY <1>1, <1>9 DEF FlushLater, Reported
  <2>2. CASE pc[w] = "parked"
    <3>1. pc'[w] = "idle"
      BY <1>1, <1>9, <2>2 DEF FlushLater, Goto, Forget
    <3>2. QED
      BY <2>1, <3>1 DEF Reported
  <2>3. CASE pc[w] = "returned"
    <3>1. pc' = pc /\ on' = on /\ how' = how
      BY <1>9, <2>3 DEF FlushLater, Keep
    <3>2. state'[on[w]] = "completed" /\ outcome'[on[w]] = how[w]
      BY <1>1, <2>1, <2>3, OwnReceipt
    <3>3. QED
      BY <2>1, <2>3, <3>1, <3>2 DEF Reported
  <2>4. QED
    BY <1>1, <2>1, <2>2, <2>3
<1>10. CASE Crash(w)
  <2>1. pc'[w] = "dead" /\ owes'[w] = FALSE
    BY <1>1, <1>10 DEF Crash, Goto, Forget
  <2>2. QED
    BY <2>1 DEF Reported
<1>11. QED
  BY <1>2, <1>3, <1>4, <1>5, <1>6, <1>7, <1>8, <1>9, <1>10 DEF WorkerNext

\* Nobody else takes a worker's claim away or writes over what it reported.
LEMMA OthersReported ==
  ASSUME AdmissionInv, MaskInv, [MQNext]_mqVars, NEW v \in Worker, ~WorkerNext(v),
         pc'[v] = pc[v], on'[v] = on[v], how'[v] = how[v], owes'[v] = owes[v]
  PROVE  Reported(v)'
<1>1. /\ Reported(v) /\ Admitted(v) /\ v # NoToken
      /\ (owes[v] => pc[v] \in {"returned", "parked"})
      /\ (pc[v] \notin {"idle", "dead"} => on[v] \in Job)
  BY WorkersAreTokens DEF AdmissionInv, BaseInv, QueueInv, LocalsInv, MaskInv
<1>2. CASE pc[v] \notin {"exited", "returned", "parked", "settling"}
  BY <1>1, <1>2 DEF Reported
<1>3. CASE pc[v] \in {"exited", "returned", "parked", "settling"}
  <2>1. on[v] \in Job /\ on[v] \in Task
    BY <1>1, <1>3 DEF Job
  <2>2. HoldsOn(on[v]) \/ Reports(on[v])
    BY <2>1, OutcomeStep
  <2>3. claim[on[v]] = v => claim'[on[v]] = v
    <3>1. HAVE claim[on[v]] = v
    <3>2. ~Reports(on[v])
      BY <3>1 DEF Reports, WorkerNext
    <3>3. QED
      BY <1>1, <2>2, <3>1, <3>2 DEF HoldsOn
  <2>4. state[on[v]] = "completed" => state'[on[v]] = "completed" /\ outcome'[on[v]] = outcome[on[v]]
    <3>1. [TaskNext]_taskVars
      BY StepsLedger DEF AdmissionInv, BaseInv
    <3>2. QED
      BY <2>1, <3>1, Progress DEF AdmissionInv, BaseInv, LedgerInv, Advances
  <2>5. pc[v] = "settling" => outcome'[on[v]] = "none"
    <3>1. HAVE pc[v] = "settling"
    <3>2. outcome[on[v]] = "none" /\ (state[on[v]] = "completed" \/ claim[on[v]] = NoToken)
      BY <1>1, <3>1 DEF Reported, Admitted
    <3>3. ~Reports(on[v])
      BY <3>2, WorkersAreTokens DEF Reports, FinishClaim
    <3>4. QED
      BY <2>2, <3>2, <3>3 DEF HoldsOn
  <2>6. QED
    BY <1>1, <2>3, <2>4, <2>5 DEF Reported
<1>4. QED
  BY <1>2, <1>3

\* How a job comes to be recorded as a success.
LEMMA Finishing ==
  ASSUME AdmissionInv, [MQNext]_mqVars, NEW t \in Job, job'[t] = "finished", job[t] # "finished"
  PROVE  \E w \in Worker :
           /\ on[w] = t
           /\ \/ state[t] = "completed" /\ outcome[t] # "failed" /\ UNCHANGED taskVars
              \/ SettleRejected(w)
              \/ Return(w) /\ how[w] = "succeeded"
<1>1. job \in [Job -> {"none", "waiting", "finished", "failed"} \cup Worker]
  BY DEF AdmissionInv, BaseInv, QueueInv, QueueTypes
<1>2. ASSUME NEW w \in Worker, WorkerNext(w)
      PROVE  /\ on[w] = t
             /\ \/ state[t] = "completed" /\ outcome[t] # "failed" /\ UNCHANGED taskVars
                \/ SettleRejected(w)
                \/ Return(w) /\ how[w] = "succeeded"
  <2>1. CASE DeliveryFails(w)
    BY <2>1 DEF DeliveryFails, Release
  <2>2. CASE HandleRejection(w)
    <3>1. Release(w, AfterRejection(w)) /\ UNCHANGED taskVars
      BY <2>2 DEF HandleRejection
    <3>2. on[w] = t /\ AfterRejection(w) = "finished"
      BY <3>1 DEF Release
    <3>3. QED
      BY <3>1, <3>2 DEF AfterRejection
  <2>3. CASE SettleRejected(w)
    BY <2>3 DEF SettleRejected, Release
  <2>4. CASE Return(w)
    <3>1. Release(w, IF how[w] = "succeeded" THEN "finished" ELSE "failed")
      BY <2>4 DEF Return
    <3>2. on[w] = t /\ how[w] = "succeeded"
      BY <3>1 DEF Release
    <3>3. QED
      BY <2>4, <3>2
  <2>5. job' # job
    OBVIOUS
  <2>6. QED
    BY <1>2, <2>1, <2>2, <2>3, <2>4, <2>5 DEF WorkerNext, ClaimOk, ClaimRejected, Enter, Refuse,
      Abort, Exit, Flush, FlushFails, FlushLater, Crash, Restart
<1>3. ~(\E w \in Worker : WorkerNext(w)) => FALSE
  <2>1. ASSUME NEW u \in Job, RelayNext(u) PROVE FALSE
    BY <1>1, <2>1 DEF RelayNext, ReadDue, AddJob, AddFails, MarkPublished, MarkLost
  <2>2. ASSUME NEW u \in Job, CancelNext(u) PROVE FALSE
    BY <1>1, <2>2 DEF CancelNext, Cancel, CancelSettle, CancelRemove, Coordinate
  <2>3. ASSUME NEW u \in Job, NEW to \in {"waiting", "failed"}, Stall(u, to) PROVE FALSE
    BY <1>1, <2>3 DEF Stall
  <2>4. ASSUME NEW w \in Worker, NEW u \in Job, Deliver(w, u) PROVE FALSE
    <3>1. w # "finished"
      BY QueueAssumption
    <3>2. QED
      BY <1>1, <2>4, <3>1 DEF Deliver
  <2>5. CASE job' = job
    BY <2>5
  <2>6. QED
    BY <2>1, <2>2, <2>3, <2>4, <2>5 DEF MQNext, PublishJob, HostNext, mqVars,
      RequestPause, GraphStops, Finish, Terminate, ClaimResume, BindResumed, ReleaseResume,
      HostCrash, RecoverOrphan, envVars
<1>4. QED
  BY <1>2, <1>3

\* Once a job counts as a success, its row either says so or will.
LEMMA StaysUnmasked ==
  ASSUME AdmissionInv, MaskInv, [MQNext]_mqVars, NEW t \in Job, job[t] = "finished"
  PROVE  \/ state'[t] = "completed" /\ outcome'[t] # "failed"
         \/ state'[t] # "completed" /\ ReceiptPending(t)'
<1>1. Unmasked(t) /\ t \in Task
  BY DEF MaskInv, Job
<1>2. CASE state[t] = "completed" /\ outcome[t] # "failed"
  <2>1. [TaskNext]_taskVars
    BY StepsLedger DEF AdmissionInv, BaseInv
  <2>2. QED
    BY <1>1, <1>2, <2>1, Progress DEF AdmissionInv, BaseInv, LedgerInv, Advances
<1>3. CASE state[t] # "completed" /\ ReceiptPending(t)
  <2>1. PICK w \in Worker :
          /\ claim[t] = w
          /\ (pc[w] = "parked" /\ on[w] = t /\ how[w] = "succeeded") \/ pc[w] = "dead"
    BY <1>3 DEF ReceiptPending
  <2>2. /\ w # NoToken /\ Reported(w)
        /\ pc \in [Worker -> WorkerAt] /\ on \in [Worker -> Job \cup {NoTask}]
        /\ (owes[w] => pc[w] \in {"returned", "parked"})
    BY WorkersAreTokens DEF AdmissionInv, BaseInv, QueueInv, QueueTypes, LocalsInv, MaskInv
  <2>3. CASE Reports(t)
    <3>1. (Flush(w) \/ FlushLater(w)) /\ FinishClaim(t, w, how[w])
      BY <2>1, <2>3 DEF Reports
    <3>2. how[w] = "succeeded"
      BY <2>1, <2>2, <3>1 DEF Flush, FlushLater
    <3>3. QED
      BY <1>1, <3>1, <3>2 DEF FinishClaim, AdmissionInv, BaseInv, LedgerInv, TypeOK
  <2>4. CASE ~Reports(t)
    <3>1. claim'[t] = w /\ state'[t] # "completed"
      BY <1>3, <2>1, <2>2, <2>4, OutcomeStep DEF HoldsOn
    <3>2. CASE WorkerNext(w)
      <4>1. ~Restart(w)
        BY <1>1, <2>1 DEF Restart
      <4>2. ~FlushLater(w)
        <5>1. ASSUME FlushLater(w)
              PROVE  FALSE
          <6>1. pc[w] = "parked" /\ on[w] = t /\ PutExit(w)
            BY <2>1, <2>2, <5>1 DEF FlushLater
          <6>2. FinishClaim(t, w, how[w])
            BY <2>1, <6>1 DEF PutExit
          <6>3. QED
            BY <2>1, <2>4, <5>1, <6>1, <6>2 DEF Reports
        <5>2. QED
          BY <5>1
      <4>3. Crash(w)
        BY <2>1, <3>2, <4>1, <4>2 DEF WorkerNext, ClaimOk, ClaimRejected, DeliveryFails,
          HandleRejection, SettleRejected, Enter, Refuse, Abort, Exit, Flush, FlushFails, Return
      <4>4. pc'[w] = "dead"
        BY <2>2, <4>3 DEF Crash, Forget, Goto
      <4>5. QED
        BY <3>1, <4>4 DEF ReceiptPending
    <3>3. CASE ~WorkerNext(w)
      <4>1. ~(\E u \in Job : Deliver(w, u))
        BY <2>1 DEF Deliver
      <4>2. pc'[w] = pc[w] /\ on'[w] = on[w] /\ how'[w] = how[w]
        BY <3>3, <4>1, Bystander
      <4>3. QED
        BY <2>1, <3>1, <4>2 DEF ReceiptPending
    <3>4. QED
      BY <3>2, <3>3
  <2>5. QED
    BY <2>3, <2>4
<1>4. QED
  BY <1>1, <1>2, <1>3 DEF Unmasked

\* A job becomes a success only on the word of its row, or of a worker whose handler
\* succeeded.
LEMMA BecomesUnmasked ==
  ASSUME AdmissionInv, MaskInv, [MQNext]_mqVars, NEW t \in Job,
         job'[t] = "finished", job[t] # "finished"
  PROVE  \/ state'[t] = "completed" /\ outcome'[t] # "failed"
         \/ state'[t] # "completed" /\ ReceiptPending(t)'
<1>1. PICK w \in Worker :
        /\ on[w] = t
        /\ \/ state[t] = "completed" /\ outcome[t] # "failed" /\ UNCHANGED taskVars
           \/ SettleRejected(w)
           \/ Return(w) /\ how[w] = "succeeded"
  BY Finishing
<1>2. /\ t \in Task /\ TypeOK /\ Reported(w) /\ w # NoToken
      /\ pc \in [Worker -> WorkerAt]
  BY WorkersAreTokens DEF Job, AdmissionInv, BaseInv, LedgerInv, QueueInv, QueueTypes, MaskInv
<1>3. CASE state[t] = "completed" /\ outcome[t] # "failed" /\ UNCHANGED taskVars
  BY <1>3 DEF taskVars
<1>4. CASE SettleRejected(w)
  <2>1. outcome[t] = "none"
    BY <1>1, <1>2, <1>4 DEF SettleRejected, Reported
  <2>2. CASE Receipt(t, "completed", NoToken)
    BY <1>2, <2>1, <2>2 DEF Receipt, PutReceipt, TypeOK
  <2>3. CASE state[t] = "completed" /\ UNCHANGED taskVars
    BY <2>1, <2>3 DEF taskVars
  <2>4. QED
    BY <1>1, <1>4, <2>2, <2>3 DEF SettleRejected
<1>5. CASE Return(w) /\ how[w] = "succeeded"
  <2>1. pc[w] = "returned" /\ UNCHANGED taskVars
    BY <1>5 DEF Return
  <2>2. CASE owes[w]
    <3>1. pc'[w] = "parked" /\ on' = on /\ how' = how
      BY <1>2, <1>5, <2>2 DEF Return, Goto, Keep
    <3>2. claim[t] = w /\ state[t] # "completed"
      BY <1>1, <1>2, <2>2 DEF Reported, AdmissionInv, BaseInv, LedgerInv, Unheld
    <3>3. QED
      BY <1>1, <1>5, <2>1, <3>1, <3>2 DEF ReceiptPending, taskVars
  <2>3. CASE ~owes[w]
    BY <1>1, <1>2, <1>5, <2>1, <2>3 DEF Reported, taskVars
  <2>4. QED
    BY <2>2, <2>3
<1>6. QED
  BY <1>1, <1>3, <1>4, <1>5

\* Every step keeps the agreement of the queue's verdicts with the reported outcomes.
LEMMA MaskStep ==
  ASSUME AdmissionInv, MaskInv, [MQNext]_mqVars
  PROVE  MaskInv'
<1>1. CancelInv'
  BY CancelStep, StepsLedger DEF MaskInv, AdmissionInv, BaseInv
<1>2. ASSUME NEW v \in Worker
      PROVE  Reported(v)'
  <2>1. CASE WorkerNext(v)
    BY <2>1, OwnReported
  <2>2. CASE ~WorkerNext(v) /\ \E t \in Job : Deliver(v, t)
    <3>1. pc[v] = "idle" /\ pc'[v] = "delivered" /\ owes' = owes
      BY <2>2 DEF Deliver, AdmissionInv, BaseInv, QueueInv, QueueTypes
    <3>2. QED
      BY <3>1 DEF Reported, AdmissionInv, BaseInv, QueueInv, LocalsInv
  <2>3. CASE ~WorkerNext(v) /\ ~(\E t \in Job : Deliver(v, t))
    BY <2>3, Bystander, OthersReported
  <2>4. QED
    BY <2>1, <2>2, <2>3
<1>3. \A t \in Job : Unmasked(t)'
  BY StaysUnmasked, BecomesUnmasked DEF Unmasked
<1>4. QED
  BY <1>1, <1>2, <1>3 DEF MaskInv

\* At the start no job is over.
LEMMA MaskInit == MQInit => MaskInv
  BY DEF MQInit, MaskInv, CancelInv, CanceledNeverRan, Reported, Unmasked

\* For any number of jobs and workers, through stalls, redeliveries, lost receipts and
\* crashes, a failure that was reported never becomes a success of the queue.
THEOREM FailureKept == MQSpec => []FailureNotMasked
<1>1. AdmissionInv /\ MaskInv => FailureNotMasked
  <2>1. ASSUME AdmissionInv, MaskInv, NEW t \in Job, job[t] = "finished"
        PROVE  outcome[t] # "failed"
    BY <2>1 DEF MaskInv, Unmasked, CancelInv, Job
  <2>2. QED
    BY <2>1 DEF FailureNotMasked
<1>2. QED
  BY <1>1, AdmissionInvariant, MaskInit, MaskStep, PTL DEF MQSpec
=============================================================================
