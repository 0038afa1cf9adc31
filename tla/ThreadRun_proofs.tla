--------------------------- MODULE ThreadRun_proofs ---------------------------
(***************************************************************************)
(* Proofs, for any number of executions and under every request and fault, *)
(* that the thread, the execution ledger and the task ledger agree, that   *)
(* runs do not overlap, and that an owner's status is the one shown.       *)
(***************************************************************************)
EXTENDS ThreadRun, TaskControl_proofs

USE DEF Registered

(***************************************************************************)
(* The inductive invariant                                                 *)
(***************************************************************************)
\* Execution tasks are roots of their own, an execution belongs to one task, and the
\* attached child is none.
Tree ==
  /\ \A t \in Exec : Registered(t) => entry[t].lineage = {t} /\ current[t] \in attempts[t]
  /\ \A t \in Task : ~Registered(t) => desired[t] = "running"
  /\ attempts[Kid] = {}
  /\ \A t, u \in Task : t # u => attempts[t] \cap attempts[u] = {}

\* The two ledgers say the same of the run, unless one of the task's executions was
\* terminated, and the task with it.
Agreed(t) ==
  IF desired[t] = "terminated" THEN \E e \in attempts[t] : ledger[e].desired = "terminated"
  ELSE ctl.state # "terminating" /\ ledger[ctl.exec].desired = desired[t]

\* The open task of the thread's execution.
Owner(t) ==
  /\ t \in Exec /\ OpenTasks = {t} /\ current[t] = ctl.exec
  /\ Agreed(t)
  /\ ctl.state \in {"paused", "input_wait"} \/ ctl.claimed => state[t] = "paused"

Held ==
  /\ ctl.exec = NoAttempt => ctl = NoRun /\ OpenTasks = {}
  /\ ctl.exec # NoAttempt => \E t \in Exec : Owner(t)

\* The code that drives an execution has left its graph.
Gone == {"returned", "over", "dead"}

\* What the state of the control says of the execution's intent and of its driver.
Mode ==
  LET e == ctl.exec IN
  e # NoAttempt =>
    /\ drv[e] \notin {"new", "starting"}
    /\ ctl.state = "running" => ledger[e].desired \in {"running", "terminated"}
    /\ ctl.state \in {"pausing", "paused"} => ledger[e].desired \in {"paused", "terminated"}
    /\ ctl.state = "pausing" /\ ctl.saved => drv[e] \in Gone /\ (drv[e] = "returned" => exit[e] # "input")
    /\ ctl.state = "input_wait" /\ ledger[e].desired = "paused" => ~ctl.saved
    /\ ctl.state = "paused" => drv[e] \in Gone
    /\ ctl.state = "settling" => drv[e] \in {"over", "dead"} /\ ctl.pend = exit[e] /\ ctl.pend # "none"
    /\ ctl.claimed => ctl.state \in {"running", "pausing", "terminating"} /\ drv[e] \in Gone

\* A bound execution continues the task of the one that was paused, which is still on
\* record as paused, or the task is terminated.
Continues(n) ==
  \E t \in Exec : /\ n \in attempts[t] /\ origin[n] \in attempts[t]
                  /\ ledger[origin[n]].desired = "paused" \/ desired[t] = "terminated"

\* What a resume request that still holds its ticket can rely on.
Ticket ==
  \A n \in Exec : ctl.ticket = n =>
    /\ drv[n] = "starting" => origin[n] = ctl.exec /\ (ctl.claimed \/ ctl.state = "terminating")
    /\ drv[n] = "bound" =>
         /\ ctl.exec = n /\ ~ctl.claimed /\ ctl.state \notin {"paused", "input_wait"}
         /\ ctl.state = "pausing" => ~ctl.saved
         /\ origin[n] \in Exec /\ drv[origin[n]] \in Gone /\ Continues(n)

\* A tool call in flight belongs to the execution that occupies the thread.
ToolsInv ==
  \A e \in Exec : tool[e] # "none" =>
    /\ ctl.exec = e /\ ctl.state # "paused" /\ ~ctl.claimed
    /\ drv[e] \notin {"new", "starting", "bound"}

\* What maintenance listed never runs again unnoticed.
SweepInv ==
  sweep.at # "idle" =>
    /\ sweep.exec \in Exec /\ drv[sweep.exec] \notin {"new", "starting"}
    /\ ctl.exec = sweep.exec /\ ctl.state = "running" => ctl.claimed
    /\ ctl.exec = sweep.exec /\ ctl.state = "input_wait" =>
         ledger[sweep.exec].desired \in {"paused", "terminated"}

\* Types of everything but the task ledger.
ThreadTypes ==
  /\ ctl \in [exec : Exec \cup {NoAttempt}, state : RunState, saved : BOOLEAN, claimed : BOOLEAN,
              ticket : Exec \cup {NoAttempt}, pend : Final \cup {"none"}, pid : BOOLEAN]
  /\ (ctl.exec = NoAttempt) = (ctl.state = "none")
  /\ status \in Final \cup {"busy", "pausing", "paused"}
  /\ lease \in [exec : Exec \cup {NoAttempt}, by : Exec \cup {NoAttempt}, live : BOOLEAN]
  /\ ledger \in [Exec -> [desired : Intent \cup {"none"}, ended : BOOLEAN]]
  /\ tool \in [Exec -> {"none", "open", "lost"}]
  /\ drv \in [Exec -> {"new", "starting", "bound", "running", "stopping", "ending", "returned",
                       "over", "dead"}]
  /\ exit \in [Exec -> Final \cup {"none", "input"}]
  /\ origin \in [Exec -> Exec \cup {NoAttempt}]
  /\ sweep \in [at : {"idle", "listed", "drained"}, exec : Exec \cup {NoAttempt}]
  /\ asked \in BOOLEAN

Exits == \A e \in Exec : drv[e] = "returned" => exit[e] # "none"

ThreadInv == ThreadTypes /\ Exits /\ Mode /\ Ticket /\ ToolsInv /\ SweepInv

RunInv == LedgerInv /\ Tree /\ Held /\ ThreadInv

(***************************************************************************)
(* The open task                                                           *)
(***************************************************************************)
\* An execution is a task id, and no execution is the missing one.
LEMMA ExecFacts ==
  /\ NoAttempt \notin Exec /\ Exec \subseteq Task /\ Kid \in Task /\ Kid \notin Exec
  /\ Task = Exec \cup {Kid}
  BY RunAssumption, NoAttemptAssumption DEF Exec

\* The task that ran as the thread's execution is the open one, and its effective
\* intent is its own.
LEMMA OwnTask ==
  ASSUME TypeOK, Tree, Held, NEW t \in TaskOf(ctl.exec)
  PROVE  /\ ctl.exec \in Exec /\ Owner(t) /\ t \in Task /\ t \in Exec
         /\ state[t] \notin {"absent", "completed"} /\ entry[t].lineage = {t}
         /\ desired[t] \in Intent /\ IntentOf(t) = desired[t]
         /\ attempts[t] \subseteq Exec /\ ctl.exec \in attempts[t] /\ TaskOf(ctl.exec) = {t}
<1>1. t \in Task /\ ctl.exec \in attempts[t] /\ attempts[t] \subseteq Exec
  BY DEF TaskOf, TypeOK, Exec
<1>2. ctl.exec \in Exec /\ ctl.exec # NoAttempt
  BY <1>1, ExecFacts
<1>3. PICK u \in Exec : Owner(u)
  BY <1>2 DEF Held
<1>4. u \in Task /\ Registered(u) /\ state[u] # "completed" /\ ctl.exec \in attempts[u]
  BY <1>3, ExecFacts DEF Owner, OpenTasks, Tree
<1>5. t = u
  BY <1>1, <1>4 DEF Tree
<1>6. entry[t].lineage = {t} /\ desired[t] \in Intent
  BY <1>3, <1>4, <1>5 DEF Tree, TypeOK
<1>7. IntentOf(t) = desired[t]
  BY <1>6 DEF IntentOf, Intent
<1>8. TaskOf(ctl.exec) = {t}
  BY <1>1 DEF TaskOf, Tree
<1>9. QED
  BY <1>1, <1>2, <1>3, <1>4, <1>5, <1>6, <1>7, <1>8

(***************************************************************************)
(* Every step is a ledger operation or none                                *)
(***************************************************************************)
\* finish() writes at most one receipt, of the execution's task.
LEMMA FinishLedger ==
  ASSUME NEW e, NEW st, NEW input, FinishTx(e, st, input)
  PROVE  [TaskNext]_taskVars
<1>1. ASSUME NEW t \in TaskOf(e), Conclude(e, t, st, input)
      PROVE  [TaskNext]_taskVars
  <2>1. t \in Task
    BY DEF TaskOf
  <2>2. CASE UNCHANGED taskVars
    BY <2>2
  <2>3. CASE \E s \in {"paused", "completed"} : Receipt(t, s, NoToken)
    BY <2>1, <2>3 DEF TaskNext, Receipts
  <2>4. QED
    BY <1>1, <2>2, <2>3 DEF Conclude, Free
<1>2. QED
  BY <1>1 DEF FinishTx

\* The child's step is one operation on its own row.
LEMMA KidLedger ==
  ASSUME KidStep
  PROVE  [TaskNext]_taskVars
<1>1. Kid \in Task /\ "attached" \in Policy /\ NoAttempt \in Attempt \cup {NoAttempt}
  BY ExecFacts DEF Policy
<1>2. ASSUME NEW t \in Task, NEW drain \in BOOLEAN,
             Register(Kid, t, "attached", drain, NoAttempt), UNCHANGED mailVars
      PROVE  [TaskNext]_taskVars
  BY <1>1, <1>2 DEF TaskNext
<1>3. ASSUME NEW k \in Token, Claim(Kid, k) \/ FinishClaim(Kid, k, "succeeded")
      PROVE  [TaskNext]_taskVars
  BY <1>1, <1>3 DEF TaskNext
<1>4. CASE SettleUnstarted(Kid)
  BY <1>1, <1>4 DEF TaskNext
<1>5. QED
  BY <1>2, <1>3, <1>4 DEF KidStep

\* A resume binds, and a failed resume restores, the open task.
LEMMA ResumeLedger ==
  ASSUME RunInv, NEW n \in Exec, BindResumed(n) \/ ReleaseResume(n)
  PROVE  [TaskNext]_taskVars
<1>1. CASE BindResumed(n)
  <2>1. PICK t \in TaskOf(ctl.exec) : Bind(t, ctl.exec, n)
    BY <1>1 DEF BindResumed
  <2>2. t \in Task /\ state[t] # "completed" /\ ctl.exec \in Attempt /\ n \in Attempt
    BY <2>1, OwnTask DEF RunInv, LedgerInv, Exec
  <2>3. QED
    BY <2>1, <2>2 DEF TaskNext
<1>2. CASE ReleaseResume(n) /\ HoldsClaim(n) /\ ~CannotRelease
  <2>1. PICK old \in Exec, t \in TaskOf(ctl.exec) :
          Change(t, "paused") \/ RestoreAttempt(t, n, old)
    BY <1>2 DEF ReleaseResume
  <2>2. t \in Task /\ state[t] # "completed" /\ old \in Attempt /\ n \in Attempt
    BY <2>1, OwnTask DEF RunInv, LedgerInv, Exec
  <2>3. CASE Change(t, "paused")
    BY <2>2, <2>3 DEF TaskNext, Intent
  <2>4. CASE RestoreAttempt(t, n, old)
    BY <2>2, <2>4 DEF TaskNext
  <2>5. QED
    BY <2>1, <2>3, <2>4
<1>3. CASE ReleaseResume(n) /\ (~HoldsClaim(n) \/ CannotRelease)
  BY <1>3 DEF ReleaseResume
<1>4. QED
  BY <1>1, <1>2, <1>3

\* Every other step of the thread service calls at most one method of the store.
LEMMA StepsLedger ==
  ASSUME RunInv, [TRNext]_trVars
  PROVE  [TaskNext]_taskVars
<1>1. ASSUME NEW t \in Task, NEW d \in Intent, Change(t, d)
      PROVE  [TaskNext]_taskVars
  BY <1>1 DEF TaskNext
<1>2. ASSUME NEW e \in Exec, Start(e)
      PROVE  [TaskNext]_taskVars
  <2>1. e \in Task /\ e \in Attempt /\ Open(e, e)
    BY <1>2, ExecFacts DEF Start, Exec
  <2>2. QED
    BY <2>1 DEF TaskNext
<1>3. ASSUME NEW e \in Exec, StartInput(e)
      PROVE  [TaskNext]_taskVars
  <2>1. PICK t \in Task : IF state[t] = "paused" THEN Receipt(t, "running", NoToken) ELSE UNCHANGED taskVars
    BY <1>3 DEF StartInput, TaskOf
  <2>2. QED
    BY <2>1 DEF TaskNext, Receipts
<1>4. ASSUME NEW e \in Exec, RequestPause(e) \/ Cancel(e) \/ Terminate(e) \/ ClaimResume(e)
      PROVE  [TaskNext]_taskVars
  <2>1. CASE UNCHANGED taskVars
    BY <2>1
  <2>2. CASE \E t \in Task, d \in Intent : Change(t, d)
    BY <1>1, <2>2
  <2>3. QED
    BY <1>4, <2>1, <2>2 DEF RequestPause, Cancel, Terminate, ClaimResume, TaskOf, Intent
<1>5. CASE Recover
  <2>1. PICK t \in Task : Retire(t) \/ Change(t, "terminated")
    BY <1>5 DEF Recover, TaskOf
  <2>2. QED
    BY <1>1, <2>1 DEF TaskNext, Intent
<1>6. ASSUME NEW e \in Exec, OwnerFinish(e)
      PROVE  [TaskNext]_taskVars
  BY <1>6, FinishLedger DEF OwnerFinish
<1>7. CASE SweepFinish
  BY <1>7, FinishLedger DEF SweepFinish
<1>8. ASSUME NEW e \in Exec,
             GraphStep(e) \/ StageCheckpoint(e) \/ BeginGraph(e) \/ AdmitTool(e) \/ SettleTool(e) \/ Crash(e)
      PROVE  [TaskNext]_taskVars
  BY <1>8 DEF GraphStep, StageCheckpoint, BeginGraph, AdmitTool, SettleTool, Crash
<1>9. CASE ListStopping \/ CheckDrained \/ ExpireLease
  BY <1>9 DEF ListStopping, CheckDrained, ExpireLease
<1>10. CASE UNCHANGED trVars
  BY <1>10 DEF trVars
<1>11. QED
  BY <1>2, <1>3, <1>4, <1>5, <1>6, <1>7, <1>8, <1>9, <1>10, KidLedger, ResumeLedger
  DEF TRNext, Driver, Maintain

(***************************************************************************)
(* The tasks of executions                                                 *)
(***************************************************************************)
\* An operation that registers nothing and moves a task only among its attempts.
LEMMA TreeKept ==
  ASSUME Tree, entry' = entry, attempts' = attempts,
         \A t \in Task : (state'[t] = "absent") = (state[t] = "absent"),
         \A t \in Task : desired'[t] = desired[t] \/ state[t] # "absent",
         \A t \in Exec : current'[t] = current[t] \/ current'[t] \in attempts[t]
  PROVE  Tree'
  BY ExecFacts DEF Tree

\* A first attempt, of a task that had no row.
LEMMA TreeOpened ==
  ASSUME TypeOK, Tree, NEW e \in Exec, Open(e, e)
  PROVE  Tree'
<1>1. /\ e \in Task /\ e # Kid /\ state[e] = "absent" /\ \A t \in Task : e \notin attempts[t]
  BY ExecFacts DEF Open, TaskOf
<1>2. /\ entry' = [entry EXCEPT ![e] = NewEntry(e, NoTask, "attached", FALSE)]
      /\ state' = [state EXCEPT ![e] = "running"]
      /\ current' = [current EXCEPT ![e] = e] /\ attempts' = [attempts EXCEPT ![e] = {e}]
      /\ desired' = desired
  BY DEF Open
<1>3. NewEntry(e, NoTask, "attached", FALSE).lineage = {e}
  BY DEF NewEntry
<1>4. \A t \in Task : /\ t # e => /\ entry'[t] = entry[t] /\ state'[t] = state[t]
                                  /\ current'[t] = current[t] /\ attempts'[t] = attempts[t]
                      /\ t = e => /\ entry'[t].lineage = {t} /\ state'[t] = "running"
                                  /\ current'[t] = e /\ attempts'[t] = {e}
  BY <1>1, <1>2, <1>3 DEF TypeOK
<1>5. \A t, u \in Task : t # u => attempts'[t] \cap attempts'[u] = {}
  <2>1. \A t \in Task : attempts'[t] = attempts[t] \/ (t = e /\ attempts'[t] = {e})
    BY <1>4
  <2>2. QED
    BY <1>1, <2>1 DEF Tree
<1>6. \A t \in Exec : state'[t] # "absent" => entry'[t].lineage = {t} /\ current'[t] \in attempts'[t]
  BY <1>4, ExecFacts DEF Tree
<1>7. attempts'[Kid] = {} /\ \A t \in Task : state'[t] = "absent" => desired'[t] = "running"
  BY <1>1, <1>2, <1>4, ExecFacts DEF Tree
<1>8. QED
  BY <1>5, <1>6, <1>7 DEF Tree

\* The attached child is registered below a run.
LEMMA TreeChild ==
  ASSUME TypeOK, Tree, NEW t, NEW drain, Register(Kid, t, "attached", drain, NoAttempt)
  PROVE  Tree' /\ \A u \in Exec : UNCHANGED <<state[u], current[u], desired[u], attempts[u]>>
<1>1. \A u \in Exec : u \in Task /\ u # Kid
  BY ExecFacts
<1>2. \A u \in Task : u # Kid => UNCHANGED <<entry[u], state[u], current[u], attempts[u], desired[u]>>
  BY DEF Register, TypeOK
<1>3. attempts'[Kid] = {} /\ desired' = desired /\ state'[Kid] = "queued"
  BY ExecFacts DEF Register, TypeOK
<1>4. QED
  BY <1>1, <1>2, <1>3, ExecFacts DEF Tree

\* A resumed task gets a new attempt, which no other task has.
LEMMA TreeBound ==
  ASSUME TypeOK, Tree, NEW t \in Task, t # Kid, NEW e, NEW n \in Exec, Bind(t, e, n), state[t] # "absent"
  PROVE  Tree'
<1>1. \A u \in Task : n \in attempts[u] => u = t
  BY DEF Bind, TaskOf
<1>2. \A u \in Task : /\ u # t => UNCHANGED <<state[u], current[u], attempts[u]>>
                      /\ u = t => state'[u] = "running" /\ current'[u] = n /\ attempts'[u] = attempts[u] \cup {n}
  BY DEF Bind, TypeOK
<1>3. UNCHANGED <<entry, desired>>
  BY DEF Bind, treeVars
<1>4. QED
  BY <1>1, <1>2, <1>3, ExecFacts DEF Tree

\* The child's step leaves the tasks of executions alone.
LEMMA ChildStep ==
  ASSUME LedgerInv, Tree, KidStep
  PROVE  Tree' /\ \A u \in Exec : UNCHANGED <<state[u], current[u], desired[u], attempts[u]>>
<1>1. \A u \in Exec : u \in Task /\ u # Kid
  BY ExecFacts
<1>2. ASSUME NEW t \in Task, NEW drain \in BOOLEAN, Register(Kid, t, "attached", drain, NoAttempt)
      PROVE  Tree' /\ \A u \in Exec : UNCHANGED <<state[u], current[u], desired[u], attempts[u]>>
  BY <1>2, TreeChild DEF LedgerInv
<1>3. ASSUME /\ state[Kid] # "absent" /\ state'[Kid] # "absent"
             /\ \A u \in Task : u # Kid => state'[u] = state[u]
             /\ UNCHANGED <<treeVars, execVars>>
      PROVE  Tree' /\ \A u \in Exec : UNCHANGED <<state[u], current[u], desired[u], attempts[u]>>
  BY <1>1, <1>3, TreeKept, ExecFacts DEF treeVars, execVars
<1>4. ASSUME NEW k \in Token, Claim(Kid, k)
      PROVE  Tree' /\ \A u \in Exec : UNCHANGED <<state[u], current[u], desired[u], attempts[u]>>
  BY <1>3, <1>4, ExecFacts DEF Claim, LedgerInv, TypeOK
<1>5. ASSUME NEW k \in Token, FinishClaim(Kid, k, "succeeded")
      PROVE  Tree' /\ \A u \in Exec : UNCHANGED <<state[u], current[u], desired[u], attempts[u]>>
  <2>1. state[Kid] # "absent"
    BY <1>5, ExecFacts, NoTokenAssumption DEF FinishClaim, LedgerInv, Blank
  <2>2. QED
    BY <1>3, <1>5, <2>1, ExecFacts DEF FinishClaim, LedgerInv, TypeOK
<1>6. CASE SettleUnstarted(Kid)
  BY <1>3, <1>6, ExecFacts DEF SettleUnstarted, Unstarted, PutReceipt, LedgerInv, TypeOK
<1>7. QED
  BY <1>2, <1>4, <1>5, <1>6 DEF KidStep

\* A step that keeps one task open and moves the thread with it.
LEMMA HeldKept ==
  ASSUME Held, NEW t \in Exec, OpenTasks = {t},
         \A u \in Exec : u # t => state'[u] = state[u],
         state'[t] \notin {"absent", "completed"},
         ctl'.exec \in Exec, ctl'.exec = current'[t],
         Agreed(t)',
         ctl'.state \in {"paused", "input_wait"} \/ ctl'.claimed => state'[t] = "paused"
  PROVE  Held'
<1>1. OpenTasks' = {t}
  BY ExecFacts DEF OpenTasks
<1>2. Owner(t)'
  BY <1>1 DEF Owner
<1>3. QED
  BY <1>2, ExecFacts DEF Held

\* A step that completes the open task and frees the thread.
LEMMA HeldFreed ==
  ASSUME NEW t \in Exec, OpenTasks = {t}, \A u \in Exec : u # t => state'[u] = state[u],
         state'[t] = "completed", ctl' = NoRun
  PROVE  Held'
<1>1. OpenTasks' = {}
  BY ExecFacts DEF OpenTasks
<1>2. QED
  BY <1>1 DEF Held, NoRun

\* A step that leaves the tasks of executions and the place of the thread alone.
LEMMA HeldSame ==
  ASSUME RunInv, \A u \in Exec : UNCHANGED <<state[u], current[u], desired[u], attempts[u]>>,
         ctl'.exec = ctl.exec, ctl'.state = ctl.state, ctl'.claimed => ctl.claimed, ctl = NoRun => ctl' = NoRun,
         \A n \in Exec : ledger'[n].desired = ledger[n].desired
  PROVE  Held'
<1>1. OpenTasks' = OpenTasks
  BY ExecFacts DEF OpenTasks
<1>2. ASSUME NEW t \in Exec, ctl.exec # NoAttempt, Owner(t)
      PROVE  Owner(t)'
  <2>1. attempts[t] \subseteq Exec /\ attempts'[t] = attempts[t]
    BY ExecFacts DEF RunInv, LedgerInv, TypeOK, Exec
  <2>2. Agreed(t)'
    BY <1>2, <2>1 DEF Owner, Agreed, RunInv, ThreadInv, ThreadTypes
  <2>3. QED
    BY <1>1, <1>2, <2>2 DEF Owner
<1>3. QED
  BY <1>1, <1>2 DEF RunInv, Held

\* A step that loses no attempt, takes back no termination and keeps the pause of the
\* superseded execution on record.
LEMMA ContinuesKept ==
  ASSUME NEW n \in Exec, Continues(n), origin'[n] = origin[n],
         \A t \in Exec : /\ attempts[t] \subseteq attempts'[t]
                         /\ desired[t] = "terminated" => desired'[t] = "terminated",
         ledger[origin[n]].desired = "paused" => ledger'[origin[n]].desired = "paused"
  PROVE  Continues(n)'
  BY DEF Continues

(***************************************************************************)
(* Steps that leave both ledgers and the control alone                     *)
(***************************************************************************)
\* A live driver moves on, or out of its graph.
LEMMA DriverSteps ==
  ASSUME RunInv, NEW e \in Exec, GraphStep(e)
  PROVE  Tree' /\ Held' /\ ThreadInv'
<1>1. /\ drv[e] \in {"running", "stopping", "ending"}
      /\ UNCHANGED <<taskVars, ctl, status, lease, ledger, tool, origin, sweep, asked>>
  BY DEF GraphStep, threadVars
<1>2. PICK x \in {"stopping", "ending", "returned"} : drv' = [drv EXCEPT ![e] = x]
  BY DEF GraphStep, Returns, Goto
<1>3. \/ exit' = exit /\ drv'[e] # "returned"
      \/ \E how \in {"error", "interrupted", "idle", "input"} : exit' = [exit EXCEPT ![e] = how]
  BY DEF GraphStep, Returns, Goto, RunInv, ThreadInv, ThreadTypes
<1>4. /\ drv'[e] \in {"stopping", "ending", "returned"} /\ \A n \in Exec : n # e => drv'[n] = drv[n] /\ exit'[n] = exit[n]
      /\ drv'[e] = "returned" => exit'[e] # "none"
  BY <1>2, <1>3 DEF RunInv, ThreadInv, ThreadTypes
<1>5. Tree'
  BY <1>1 DEF RunInv, Tree, taskVars
<1>6. Held'
  BY <1>1, HeldSame DEF taskVars
<1>7. ThreadTypes'
  BY <1>1, <1>2, <1>3 DEF RunInv, ThreadInv, ThreadTypes, Final
<1>8. Exits' /\ Mode' /\ Ticket'
  <2>1. drv[e] \notin Gone
    BY <1>1 DEF Gone
  <2>2. Exits'
    BY <1>1, <1>4 DEF RunInv, ThreadInv, Exits
  <2>3. Mode'
    BY <1>1, <1>4, <2>1 DEF RunInv, ThreadInv, ThreadTypes, Mode
  <2>4. Ticket'
    BY <1>1, <1>4, <2>1 DEF RunInv, ThreadInv, Ticket, Continues, taskVars
  <2>5. QED
    BY <2>2, <2>3, <2>4
<1>9. ToolsInv' /\ SweepInv'
  BY <1>1, <1>4 DEF RunInv, ThreadInv, ToolsInv, SweepInv, ThreadTypes
<1>10. QED
  BY <1>5, <1>6, <1>7, <1>8, <1>9 DEF ThreadInv

\* A pausing graph stages its checkpoint and returns.
LEMMA CheckpointStep ==
  ASSUME RunInv, NEW e \in Exec, StageCheckpoint(e)
  PROVE  Tree' /\ Held' /\ ThreadInv'
<1>1. /\ drv[e] = "stopping" /\ drv' = [drv EXCEPT ![e] = "returned"]
      /\ UNCHANGED <<taskVars, status, lease, ledger, tool, origin, sweep, asked>>
  BY DEF StageCheckpoint, Returns, Goto
<1>2. PICK how \in {"interrupted", "error"} : exit' = [exit EXCEPT ![e] = how]
  BY DEF StageCheckpoint, Returns
<1>3. ctl' = ctl \/ (ctl.exec = e /\ ctl.state = "pausing" /\ ctl' = [ctl EXCEPT !.saved = TRUE])
  BY DEF StageCheckpoint
<1>4. /\ drv'[e] = "returned" /\ exit'[e] \in {"interrupted", "error"}
      /\ \A n \in Exec : n # e => drv'[n] = drv[n] /\ exit'[n] = exit[n]
  BY <1>1, <1>2 DEF RunInv, ThreadInv, ThreadTypes
<1>5. /\ ctl'.exec = ctl.exec /\ ctl'.state = ctl.state /\ ctl'.claimed = ctl.claimed
      /\ ctl'.ticket = ctl.ticket /\ ctl'.pend = ctl.pend
      /\ ctl'.saved # ctl.saved => ctl.exec = e /\ ctl.state = "pausing"
      /\ ctl = NoRun => ctl' = NoRun
  BY <1>3 DEF RunInv, ThreadInv, ThreadTypes, NoRun
<1>6. Tree'
  BY <1>1 DEF RunInv, Tree, taskVars
<1>7. Held'
  BY <1>1, <1>5, HeldSame DEF taskVars
<1>8. ThreadTypes'
  <2>1. ctl' \in [exec : Exec \cup {NoAttempt}, state : RunState, saved : BOOLEAN, claimed : BOOLEAN,
                  ticket : Exec \cup {NoAttempt}, pend : Final \cup {"none"}, pid : BOOLEAN]
    BY <1>3, ZenonT(40) DEF RunInv, ThreadInv, ThreadTypes
  <2>2. exit' \in [Exec -> Final \cup {"none", "input"}]
    BY <1>2 DEF RunInv, ThreadInv, ThreadTypes, Final
  <2>3. drv' \in [Exec -> {"new", "starting", "bound", "running", "stopping", "ending", "returned",
                           "over", "dead"}]
    BY <1>1 DEF RunInv, ThreadInv, ThreadTypes
  <2>4. QED
    BY <1>1, <1>5, <2>1, <2>2, <2>3 DEF RunInv, ThreadInv, ThreadTypes
<1>9. Exits' /\ Mode' /\ Ticket'
  <2>1. drv[e] \notin Gone /\ drv'[e] \in Gone
    BY <1>1, <1>4 DEF Gone
  <2>2. Exits'
    BY <1>1, <1>4 DEF RunInv, ThreadInv, Exits
  <2>3. Mode'
    <3>1. ctl.exec # e /\ ctl.exec # NoAttempt => drv'[ctl.exec] = drv[ctl.exec] /\ exit'[ctl.exec] = exit[ctl.exec]
      BY <1>4 DEF RunInv, ThreadInv, ThreadTypes
    <3>2. CASE ctl.exec # e
      BY <1>1, <1>4, <1>5, <3>1, <3>2 DEF RunInv, ThreadInv, ThreadTypes, Mode
    <3>3. CASE ctl.exec = e
      BY <1>1, <1>4, <1>5, <2>1, <3>3 DEF RunInv, ThreadInv, ThreadTypes, Mode
    <3>4. QED
      BY <3>2, <3>3
  <2>4. Ticket'
    BY <1>1, <1>4, <1>5, <2>1 DEF RunInv, ThreadInv, Ticket, Continues, taskVars
  <2>5. QED
    BY <2>2, <2>3, <2>4
<1>10. ToolsInv' /\ SweepInv'
  BY <1>1, <1>4, <1>5 DEF RunInv, ThreadInv, ToolsInv, SweepInv, ThreadTypes
<1>11. QED
  BY <1>6, <1>7, <1>8, <1>9, <1>10 DEF ThreadInv

\* The stream of a bound resume exists, and its graph runs.
LEMMA BeginStep ==
  ASSUME RunInv, NEW e \in Exec, BeginGraph(e)
  PROVE  Tree' /\ Held' /\ ThreadInv'
<1>1. /\ drv[e] = "bound" /\ drv' = [drv EXCEPT ![e] = "running"]
      /\ UNCHANGED <<taskVars, ctl, status, lease, ledger, tool, exit, origin, sweep, asked>>
  BY DEF BeginGraph, Goto, threadVars
<1>2. drv'[e] = "running" /\ \A n \in Exec : n # e => drv'[n] = drv[n]
  BY <1>1 DEF RunInv, ThreadInv, ThreadTypes
<1>3. Tree'
  BY <1>1 DEF RunInv, Tree, taskVars
<1>4. Held'
  BY <1>1, HeldSame DEF taskVars
<1>5. ThreadTypes'
  BY <1>1 DEF RunInv, ThreadInv, ThreadTypes
<1>6. Exits' /\ Mode' /\ Ticket'
  BY <1>1, <1>2 DEF RunInv, ThreadInv, Exits, Mode, Ticket, Continues, taskVars, Gone
<1>7. ToolsInv' /\ SweepInv'
  BY <1>1, <1>2 DEF RunInv, ThreadInv, ToolsInv, SweepInv, ThreadTypes
<1>8. QED
  BY <1>3, <1>4, <1>5, <1>6, <1>7 DEF ThreadInv

\* A tool is admitted only for the execution that occupies the thread, and a process
\* that dies leaves its tools in doubt.
LEMMA ToolSteps ==
  ASSUME RunInv, NEW e \in Exec, AdmitTool(e) \/ SettleTool(e)
  PROVE  Tree' /\ Held' /\ ThreadInv'
<1>1. UNCHANGED <<taskVars, ctl, status, lease, ledger, drv, exit, origin, sweep, asked>>
  BY DEF AdmitTool, SettleTool, threadVars, driverVars
<1>2. Tree'
  BY <1>1 DEF RunInv, Tree, taskVars
<1>3. Held'
  BY <1>1, HeldSame DEF taskVars
<1>4. ThreadTypes'
  BY <1>1 DEF AdmitTool, SettleTool, RunInv, ThreadInv, ThreadTypes
<1>5. Exits' /\ Mode' /\ Ticket' /\ SweepInv'
  BY <1>1 DEF RunInv, ThreadInv, Exits, Mode, Ticket, Continues, taskVars, SweepInv
<1>6. ToolsInv'
  <2>1. CASE AdmitTool(e)
    <3>1. /\ ctl.exec = e /\ ctl.state \in {"running", "pausing"} /\ drv[e] \in {"running", "ending"}
          /\ tool' = [tool EXCEPT ![e] = "open"]
      BY <2>1 DEF AdmitTool, Live
    <3>2. ~ctl.claimed
      BY <3>1, ExecFacts DEF RunInv, ThreadInv, Mode, Gone
    <3>3. QED
      BY <1>1, <3>1, <3>2 DEF RunInv, ThreadInv, ThreadTypes, ToolsInv
  <2>2. CASE SettleTool(e)
    BY <1>1, <2>2 DEF SettleTool, RunInv, ThreadInv, ThreadTypes, ToolsInv
  <2>3. QED
    BY <2>1, <2>2
<1>7. QED
  BY <1>2, <1>3, <1>4, <1>5, <1>6 DEF ThreadInv

\* The process that drives an execution dies, and with it its tool call.
LEMMA CrashStep ==
  ASSUME RunInv, NEW e \in Exec, Crash(e)
  PROVE  Tree' /\ Held' /\ ThreadInv'
<1>1. /\ drv[e] \in {"starting", "bound", "running", "stopping", "ending", "returned", "over"}
      /\ drv' = [drv EXCEPT ![e] = "dead"]
      /\ tool' = [tool EXCEPT ![e] = IF @ = "open" THEN "lost" ELSE @]
      /\ UNCHANGED <<taskVars, ctl, status, lease, ledger, exit, origin, sweep, asked>>
  BY DEF Crash, Goto, threadVars
<1>2. /\ drv'[e] = "dead" /\ \A n \in Exec : n # e => drv'[n] = drv[n] /\ tool'[n] = tool[n]
      /\ tool'[e] # "none" => tool[e] # "none"
  BY <1>1 DEF RunInv, ThreadInv, ThreadTypes
<1>3. Tree'
  BY <1>1 DEF RunInv, Tree, taskVars
<1>4. Held'
  BY <1>1, HeldSame DEF taskVars
<1>5. ThreadTypes'
  BY <1>1 DEF RunInv, ThreadInv, ThreadTypes
<1>6. Exits' /\ Mode' /\ Ticket'
  BY <1>1, <1>2 DEF RunInv, ThreadInv, Exits, Mode, Ticket, Continues, taskVars, Gone
<1>7. ToolsInv' /\ SweepInv'
  BY <1>1, <1>2 DEF RunInv, ThreadInv, ToolsInv, SweepInv, ThreadTypes
<1>8. QED
  BY <1>3, <1>4, <1>5, <1>6, <1>7 DEF ThreadInv

\* Maintenance reads, and a lease runs out.  What is listed is stopping, so it does not
\* run unless a resume claims it, and waits for input only with a pause on record.
LEMMA WatchSteps ==
  ASSUME RunInv, ListStopping \/ CheckDrained \/ ExpireLease
  PROVE  Tree' /\ Held' /\ ThreadInv'
<1>1. UNCHANGED <<taskVars, ctl, status, ledger, tool, drv, exit, origin, asked>>
  BY DEF ListStopping, CheckDrained, ExpireLease, threadVars, driverVars
<1>2. Tree'
  BY <1>1 DEF RunInv, Tree, taskVars
<1>3. Held'
  BY <1>1, HeldSame DEF taskVars
<1>4. ThreadTypes'
  <2>1. lease' \in [exec : Exec \cup {NoAttempt}, by : Exec \cup {NoAttempt}, live : BOOLEAN]
    <3>1. lease' = lease \/ lease' = [lease EXCEPT !.live = FALSE]
      BY DEF ListStopping, CheckDrained, ExpireLease, threadVars
    <3>2. lease \in [exec : Exec \cup {NoAttempt}, by : Exec \cup {NoAttempt}, live : BOOLEAN]
      BY DEF RunInv, ThreadInv, ThreadTypes
    <3>3. QED
      BY <3>1, <3>2
  <2>2. sweep' \in [at : {"idle", "listed", "drained"}, exec : Exec \cup {NoAttempt}]
    BY DEF ListStopping, CheckDrained, ExpireLease, RunInv, ThreadInv, ThreadTypes, NoSweep
  <2>3. QED
    BY <1>1, <2>1, <2>2 DEF RunInv, ThreadInv, ThreadTypes
<1>5. Exits' /\ Mode' /\ Ticket' /\ ToolsInv'
  BY <1>1 DEF RunInv, ThreadInv, Exits, Mode, Ticket, Continues, taskVars, ToolsInv
<1>6. SweepInv'
  <2>1. CASE ListStopping
    <3>1. ctl.state \in {"terminating", "pausing", "settling"} /\ sweep' = [at |-> "listed", exec |-> ctl.exec]
      BY <2>1 DEF ListStopping
    <3>2. ctl.exec \in Exec /\ drv[ctl.exec] \notin {"new", "starting"}
      BY <3>1 DEF RunInv, ThreadInv, ThreadTypes, Mode
    <3>3. QED
      BY <1>1, <3>1, <3>2 DEF SweepInv
  <2>2. CASE CheckDrained
    <3>1. sweep' = [sweep EXCEPT !.at = "drained"] \/ sweep' = NoSweep
      BY <2>2 DEF CheckDrained
    <3>2. sweep.at = "listed" /\ sweep'.at # "idle" => sweep'.exec = sweep.exec
      BY <3>1 DEF NoSweep, RunInv, ThreadInv, ThreadTypes
    <3>3. QED
      BY <1>1, <2>2, <3>2 DEF SweepInv, CheckDrained, RunInv, ThreadInv
  <2>3. CASE ExpireLease
    BY <1>1, <2>3 DEF ExpireLease, SweepInv, RunInv, ThreadInv
  <2>4. QED
    BY <2>1, <2>2, <2>3
<1>7. QED
  BY <1>2, <1>3, <1>4, <1>5, <1>6 DEF ThreadInv

\* The child's step is of no concern to the thread.
LEMMA KidThread ==
  ASSUME RunInv, KidStep
  PROVE  Tree' /\ Held' /\ ThreadInv'
<1>1. UNCHANGED <<ctl, status, lease, ledger, tool, drv, exit, origin, sweep, asked>>
  BY DEF KidStep, threadVars, driverVars
<1>2. Tree' /\ \A u \in Exec : UNCHANGED <<state[u], current[u], desired[u], attempts[u]>>
  BY ChildStep DEF RunInv
<1>3. Held'
  BY <1>1, <1>2, HeldSame
<1>4. Ticket'
  BY <1>1, <1>2 DEF RunInv, ThreadInv, Ticket, Continues
<1>5. ThreadInv'
  BY <1>1, <1>4 DEF RunInv, ThreadInv, ThreadTypes, Exits, Mode, ToolsInv, SweepInv
<1>6. QED
  BY <1>2, <1>3, <1>5

(***************************************************************************)
(* Operations on the open task                                             *)
(***************************************************************************)
\* A change of intent or a receipt of a task that has a row keeps the tasks of executions.
LEMMA TaskOps ==
  ASSUME TypeOK, Tree, NEW t \in Exec, Registered(t), NEW s \in State \ {"absent"}, NEW d \in Intent,
         \/ Change(t, d) /\ s = state[t]
         \/ Receipt(t, s, NoToken) /\ d = desired[t]
         \/ s = "completed" /\ d = "terminated" /\ Retire(t)
  PROVE  /\ Tree' /\ UNCHANGED <<entry, current, attempts>>
         /\ state'[t] = s /\ desired'[t] = d
         /\ \A u \in Exec : u # t => state'[u] = state[u] /\ desired'[u] = desired[u]
<1>1. t \in Task
  BY ExecFacts
<1>2. UNCHANGED <<entry, current, attempts>>
  BY DEF Change, Receipt, Retire, treeVars, execVars
<1>3. /\ state' = [state EXCEPT ![t] = s]
      /\ desired' = [desired EXCEPT ![t] = d]
  BY <1>1 DEF Change, Receipt, Retire, PutReceipt, treeVars, runVars, TypeOK
<1>4. /\ \A u \in Task : u # t => state'[u] = state[u] /\ desired'[u] = desired[u]
      /\ state'[t] = s /\ desired'[t] = d
  BY <1>1, <1>3 DEF TypeOK
<1>5. Tree'
  BY <1>1, <1>2, <1>4, TreeKept
<1>6. QED
  BY <1>1, <1>2, <1>4, <1>5, ExecFacts

(***************************************************************************)
(* Starting, pausing and stopping                                          *)
(***************************************************************************)
\* A run starts on a free thread.
LEMMA StartStep ==
  ASSUME RunInv, NEW e \in Exec, Start(e)
  PROVE  Tree' /\ Held' /\ ThreadInv'
<1>1. /\ drv[e] = "new" /\ ctl = NoRun /\ Open(e, e)
      /\ ledger' = [ledger EXCEPT ![e] = [desired |-> "running", ended |-> FALSE]]
      /\ ctl' = [NoRun EXCEPT !.exec = e, !.state = "running"]
      /\ status' = "busy" /\ lease' = OwnedBy(e) /\ drv' = [drv EXCEPT ![e] = "running"]
      /\ UNCHANGED <<tool, exit, origin, sweep, asked>>
  BY DEF Start, SetLedger, Goto
<1>2. /\ ctl'.exec = e /\ ctl'.state = "running" /\ ~ctl'.claimed /\ ctl'.ticket = NoAttempt /\ ~ctl'.saved
      /\ ctl.exec = NoAttempt
  BY <1>1 DEF NoRun
<1>3. drv'[e] = "running" /\ ledger'[e].desired = "running" /\ \A n \in Exec : n # e => drv'[n] = drv[n]
  BY <1>1 DEF RunInv, ThreadInv, ThreadTypes
<1>4. Tree'
  BY <1>1, TreeOpened DEF RunInv, LedgerInv
<1>5. Held'
  <2>1. /\ e \in Task /\ state[e] = "absent" /\ state' = [state EXCEPT ![e] = "running"]
        /\ current' = [current EXCEPT ![e] = e] /\ desired' = desired
    BY <1>1, ExecFacts DEF Open
  <2>2. state'[e] = "running" /\ current'[e] = e /\ \A u \in Task : u # e => state'[u] = state[u]
    BY <2>1 DEF RunInv, LedgerInv, TypeOK
  <2>3. OpenTasks = {}
    BY <1>2 DEF RunInv, Held
  <2>4. OpenTasks' = {e}
    BY <2>1, <2>2, <2>3, ExecFacts DEF OpenTasks
  <2>5. desired'[e] = "running"
    BY <2>1 DEF RunInv, Tree
  <2>6. Owner(e)'
    BY <1>2, <1>3, <2>2, <2>4, <2>5 DEF Owner, Agreed
  <2>7. QED
    BY <1>2, <2>6, ExecFacts DEF Held
<1>6. ThreadTypes'
  <2>1. ctl' \in [exec : Exec \cup {NoAttempt}, state : RunState, saved : BOOLEAN, claimed : BOOLEAN,
                  ticket : Exec \cup {NoAttempt}, pend : Final \cup {"none"}, pid : BOOLEAN]
    BY <1>1 DEF NoRun, RunState
  <2>2. lease' \in [exec : Exec \cup {NoAttempt}, by : Exec \cup {NoAttempt}, live : BOOLEAN]
    BY <1>1 DEF OwnedBy
  <2>3. ledger' \in [Exec -> [desired : Intent \cup {"none"}, ended : BOOLEAN]]
    BY <1>1 DEF RunInv, ThreadInv, ThreadTypes, Intent
  <2>4. drv' \in [Exec -> {"new", "starting", "bound", "running", "stopping", "ending", "returned",
                           "over", "dead"}]
    BY <1>1 DEF RunInv, ThreadInv, ThreadTypes
  <2>5. QED
    BY <1>1, <1>2, <2>1, <2>2, <2>3, <2>4, ExecFacts DEF RunInv, ThreadInv, ThreadTypes
<1>7. Exits' /\ Mode'
  BY <1>1, <1>2, <1>3 DEF RunInv, ThreadInv, Exits, Mode
<1>8. Ticket'
  BY <1>2, ExecFacts DEF Ticket
<1>9. ToolsInv'
  BY <1>1, <1>2, ExecFacts DEF RunInv, ThreadInv, ToolsInv
<1>10. SweepInv'
  BY <1>1, <1>2, <1>3 DEF RunInv, ThreadInv, SweepInv
<1>11. QED
  BY <1>4, <1>5, <1>6, <1>7, <1>8, <1>9, <1>10 DEF ThreadInv

\* An answered input checkpoint continues the same execution.
LEMMA InputStep ==
  ASSUME RunInv, NEW e \in Exec, StartInput(e)
  PROVE  Tree' /\ Held' /\ ThreadInv'
<1> DEFINE st == IF ledger[e].desired = "paused" THEN "pausing" ELSE "running"
<1>1. /\ ctl.exec = e /\ ctl.state = "input_wait" /\ drv[e] \in {"over", "dead"}
      /\ ledger[e].desired # "terminated"
      /\ ledger' = [ledger EXCEPT ![e] = Intend(e, ledger[e].desired, TRUE)]
      /\ ctl' = [ctl EXCEPT !.state = st]
      /\ status' = "busy" /\ lease' = OwnedBy(e) /\ drv' = [drv EXCEPT ![e] = "running"]
      /\ exit' = [exit EXCEPT ![e] = "none"]
      /\ UNCHANGED <<tool, origin, sweep, asked>>
  BY DEF StartInput, SetLedger, Goto
<1>2. PICK t \in TaskOf(e) :
        /\ IntentOf(t) # "terminated"
        /\ IF state[t] = "paused" THEN Receipt(t, "running", NoToken) ELSE UNCHANGED taskVars
  BY DEF StartInput
<1>3. /\ t \in Exec /\ Owner(t) /\ state[t] = "paused"
      /\ desired[t] \in Intent /\ desired[t] # "terminated"
  BY <1>1, <1>2, OwnTask DEF RunInv, LedgerInv, Owner
<1>4. /\ ctl'.exec = e /\ ctl'.state = st /\ ctl'.claimed = ctl.claimed /\ ~ctl.claimed
      /\ ctl'.ticket = ctl.ticket /\ ctl'.saved = ctl.saved
  BY <1>1 DEF RunInv, ThreadInv, ThreadTypes, Mode
<1>5. /\ drv'[e] = "running" /\ ledger'[e].desired = ledger[e].desired /\ exit'[e] = "none"
      /\ \A n \in Exec : n # e => drv'[n] = drv[n] /\ exit'[n] = exit[n] /\ ledger'[n] = ledger[n]
  BY <1>1 DEF RunInv, ThreadInv, ThreadTypes, Intend
<1>6. ledger[e].desired \in {"running", "paused"}
  BY <1>1, <1>3 DEF Owner, Agreed, Intent
<1>7. /\ Tree' /\ UNCHANGED current /\ state'[t] = "running" /\ desired'[t] = desired[t]
      /\ \A u \in Exec : u # t => state'[u] = state[u]
  BY <1>2, <1>3, TaskOps DEF RunInv, LedgerInv, State, Receipts
<1>8. Held'
  <2>1. OpenTasks = {t} /\ current'[t] = e /\ ledger'[e].desired = desired'[t]
    <3>1. OpenTasks = {t} /\ current[t] = e /\ ledger[e].desired = desired[t]
      BY <1>1, <1>3 DEF Owner, Agreed
    <3>2. QED
      BY <1>5, <1>7, <3>1
  <2>2. ctl'.state \notin {"paused", "input_wait"} /\ ~ctl'.claimed
    BY <1>4
  <2>3. QED
    <3>1. Agreed(t)'
      BY <1>3, <1>4, <1>7, <2>1 DEF Agreed
    <3>2. QED
      BY <1>3, <1>4, <1>7, <2>1, <2>2, <3>1, HeldKept DEF RunInv
<1>9. ThreadTypes'
  <2>1. ctl' \in [exec : Exec \cup {NoAttempt}, state : RunState, saved : BOOLEAN, claimed : BOOLEAN,
                  ticket : Exec \cup {NoAttempt}, pend : Final \cup {"none"}, pid : BOOLEAN]
    BY <1>1 DEF RunInv, ThreadInv, ThreadTypes, RunState
  <2>2. lease' \in [exec : Exec \cup {NoAttempt}, by : Exec \cup {NoAttempt}, live : BOOLEAN]
    BY <1>1 DEF OwnedBy
  <2>3. ledger' \in [Exec -> [desired : Intent \cup {"none"}, ended : BOOLEAN]]
    BY <1>1 DEF Intend, RunInv, ThreadInv, ThreadTypes, Intent
  <2>4. /\ drv' \in [Exec -> {"new", "starting", "bound", "running", "stopping", "ending", "returned",
                              "over", "dead"}]
        /\ exit' \in [Exec -> Final \cup {"none", "input"}]
    BY <1>1 DEF RunInv, ThreadInv, ThreadTypes
  <2>5. QED
    BY <1>1, <1>4, <2>1, <2>2, <2>3, <2>4, ExecFacts DEF RunInv, ThreadInv, ThreadTypes
<1>10. Exits'
  BY <1>5 DEF RunInv, ThreadInv, Exits
<1>11. Mode'
  <2>1. ledger[e].desired = "paused" => ~ctl.saved
    BY <1>1, ExecFacts DEF RunInv, ThreadInv, Mode
  <2>2. CASE ledger[e].desired = "paused"
    BY <1>4, <1>5, <2>1, <2>2 DEF Mode
  <2>3. CASE ledger[e].desired = "running"
    BY <1>4, <1>5, <2>3 DEF Mode
  <2>4. QED
    BY <1>6, <2>2, <2>3
<1>12. Ticket'
  <2>1. ASSUME NEW n \in Exec, ctl'.ticket = n
        PROVE  drv'[n] \notin {"starting", "bound"}
    <3>1. drv[n] \notin {"starting", "bound"}
      BY <1>1, <1>4, <2>1 DEF RunInv, ThreadInv, Ticket, Continues, taskVars
    <3>2. QED
      BY <1>5, <3>1
  <2>2. QED
    BY <2>1 DEF Ticket
<1>13. ToolsInv'
  BY <1>1, <1>4, <1>5 DEF RunInv, ThreadInv, ToolsInv
<1>14. SweepInv'
  BY <1>1, <1>4, <1>5, <1>6 DEF RunInv, ThreadInv, SweepInv
<1>15. QED
  BY <1>7, <1>8, <1>9, <1>10, <1>11, <1>12, <1>13, <1>14 DEF ThreadInv

\* An accepted request records the pause with the task, the execution and the thread.
LEMMA PauseStep ==
  ASSUME RunInv, NEW e \in Exec, RequestPause(e)
  PROVE  Tree' /\ Held' /\ ThreadInv'
<1>1. ctl.exec = e /\ asked' = TRUE /\ UNCHANGED <<tool, drv, exit, origin, sweep>>
  BY DEF RequestPause, driverVars
<1>2. CASE UNCHANGED <<taskVars, threadVars, ledger>>
  <2>1. UNCHANGED <<ctl, status, lease>>
    BY <1>2 DEF threadVars
  <2>2. Tree'
    BY <1>2 DEF RunInv, Tree, taskVars
  <2>3. Held'
    BY <1>2, <2>1, HeldSame DEF taskVars
  <2>4. Ticket'
    BY <1>1, <1>2, <2>1 DEF RunInv, ThreadInv, Ticket, Continues, taskVars
  <2>5. ThreadInv'
    BY <1>1, <1>2, <2>1, <2>4 DEF RunInv, ThreadInv, ThreadTypes, Exits, Mode, ToolsInv, SweepInv
  <2>6. QED
    BY <2>2, <2>3, <2>5
<1>3. CASE ~UNCHANGED <<taskVars, threadVars, ledger>>
  <2>1. /\ ctl.state \in {"running", "input_wait"}
        /\ ledger' = [ledger EXCEPT ![e] = Intend(e, "paused", FALSE)]
        /\ ctl' = [ctl EXCEPT !.state = IF @ = "running" THEN "pausing" ELSE @, !.saved = FALSE, !.pid = TRUE]
        /\ status' = (IF ctl.state = "running" THEN "pausing" ELSE status)
        /\ UNCHANGED lease
    BY <1>3 DEF RequestPause, SetLedger
  <2>2. PICK t \in TaskOf(e) : Change(t, "paused")
    BY <1>3 DEF RequestPause
  <2>3. t \in Exec /\ Owner(t) /\ desired[t] # "terminated" /\ Registered(t) /\ state[t] \in State \ {"absent"}
        /\ state[t] # "completed"
    BY <1>1, <2>2, OwnTask DEF RunInv, LedgerInv, Change, ChangeAllowed, TypeOK
  <2>4. /\ Tree' /\ UNCHANGED <<current, attempts>> /\ state'[t] = state[t] /\ desired'[t] = "paused"
        /\ \A u \in Exec : u # t => state'[u] = state[u] /\ desired'[u] = desired[u]
    BY <2>2, <2>3, TaskOps DEF RunInv, LedgerInv, Intent
  <2>5. /\ ctl'.exec = e /\ ctl'.claimed = ctl.claimed /\ ctl'.ticket = ctl.ticket /\ ~ctl'.saved
        /\ ctl'.state = IF ctl.state = "running" THEN "pausing" ELSE "input_wait"
    BY <1>1, <2>1 DEF RunInv, ThreadInv, ThreadTypes
  <2>6. ledger'[e].desired = "paused" /\ \A n \in Exec : n # e => ledger'[n] = ledger[n]
    BY <1>1, <2>1, <2>3 DEF Intend, Owner, Agreed, RunInv, ThreadInv, ThreadTypes
  <2>7. Held'
    <3>1. ctl'.state \in {"paused", "input_wait"} \/ ctl'.claimed => state'[t] = "paused"
      BY <2>1, <2>3, <2>4, <2>5 DEF Owner
    <3>2. current'[t] = e /\ Agreed(t)'
      <4>1. current'[t] = e /\ desired'[t] = "paused" /\ ctl'.exec = e /\ ctl'.state # "terminating"
        BY <1>1, <2>1, <2>3, <2>4, <2>5 DEF Owner
      <4>2. QED
        BY <2>6, <4>1 DEF Agreed
    <3>3. QED
      BY <2>3, <2>4, <2>5, <3>1, <3>2, HeldKept DEF RunInv, Owner
  <2>8. ThreadTypes'
    <3>1. ctl' \in [exec : Exec \cup {NoAttempt}, state : RunState, saved : BOOLEAN, claimed : BOOLEAN,
                    ticket : Exec \cup {NoAttempt}, pend : Final \cup {"none"}, pid : BOOLEAN]
      BY <2>1 DEF RunInv, ThreadInv, ThreadTypes, RunState
    <3>2. ledger' \in [Exec -> [desired : Intent \cup {"none"}, ended : BOOLEAN]]
      BY <2>1 DEF Intend, RunInv, ThreadInv, ThreadTypes, Intent
    <3>3. QED
      BY <1>1, <2>1, <2>5, <3>1, <3>2, ExecFacts DEF RunInv, ThreadInv, ThreadTypes
  <2>9. Exits'
    BY <1>1 DEF RunInv, ThreadInv, Exits
  <2>10. Mode'
    <3>1. drv[e] \notin {"new", "starting"}
      BY <1>1, ExecFacts DEF RunInv, ThreadInv, Mode
    <3>2. ctl.claimed => ctl.state = "running" /\ drv[e] \in Gone
      BY <1>1, <2>1, ExecFacts DEF RunInv, ThreadInv, Mode
    <3>3. CASE ctl.state = "running"
      BY <1>1, <2>5, <2>6, <3>1, <3>2, <3>3 DEF Mode
    <3>4. CASE ctl.state = "input_wait"
      BY <1>1, <2>5, <2>6, <3>1, <3>2, <3>4 DEF Mode
    <3>5. QED
      BY <2>1, <3>3, <3>4
  <2>11. Ticket'
    <3>1. ASSUME NEW n \in Exec, ctl'.ticket = n
          PROVE  /\ drv'[n] = "starting" => origin'[n] = ctl'.exec /\ ctl'.claimed
                 /\ drv'[n] = "bound" =>
                      /\ ctl'.exec = n /\ ~ctl'.claimed /\ ctl'.state = "pausing"
                      /\ origin'[n] \in Exec /\ drv'[origin'[n]] \in Gone
                      /\ Continues(n)
      BY <1>1, <2>1, <2>5, <3>1 DEF RunInv, ThreadInv, Ticket
    <3>2. \A n \in Exec : ledger[n].desired = "paused" => ledger'[n].desired = "paused"
      BY <2>6
    <3>3. QED
      BY <1>1, <2>3, <2>4, <2>5, <3>1, <3>2, ContinuesKept DEF Ticket
  <2>12. ToolsInv'
    BY <1>1, <2>5 DEF RunInv, ThreadInv, ToolsInv
  <2>13. SweepInv'
    BY <1>1, <2>5, <2>6 DEF RunInv, ThreadInv, SweepInv
  <2>14. QED
    BY <2>4, <2>7, <2>8, <2>9, <2>10, <2>11, <2>12, <2>13 DEF ThreadInv
<1>4. QED
  BY <1>2, <1>3

\* What a step has in common that stops the run and leaves the stop to its drivers.
LEMMA StopStep ==
  ASSUME RunInv, NEW t \in TaskOf(ctl.exec), Change(t, "terminated"),
         NEW b \in BOOLEAN, ledger' = [ledger EXCEPT ![ctl.exec] = [desired |-> "terminated", ended |-> b]],
         NEW c \in BOOLEAN, c => ctl.claimed,
         ctl' = [ctl EXCEPT !.state = "terminating", !.claimed = c],
         status' = "busy", UNCHANGED <<lease, tool, drv, exit, origin, sweep>>, asked' \in BOOLEAN
  PROVE  Tree' /\ Held' /\ ThreadInv'
<1>1. /\ ctl.exec \in Exec /\ t \in Exec /\ Owner(t) /\ Registered(t) /\ state[t] \in State \ {"absent"}
      /\ state[t] # "completed"
  BY OwnTask DEF RunInv, LedgerInv, TypeOK
<1>2. /\ Tree' /\ UNCHANGED <<current, attempts>> /\ state'[t] = state[t] /\ desired'[t] = "terminated"
      /\ \A u \in Exec : u # t => state'[u] = state[u] /\ desired'[u] = desired[u]
  BY <1>1, TaskOps DEF RunInv, LedgerInv, Intent
<1>3. /\ ctl'.exec = ctl.exec /\ ctl'.state = "terminating" /\ ctl'.claimed = c
      /\ ctl'.ticket = ctl.ticket
  BY DEF RunInv, ThreadInv, ThreadTypes
<1>4. /\ ledger'[ctl.exec].desired = "terminated"
      /\ \A n \in Exec : n # ctl.exec => ledger'[n] = ledger[n]
  BY <1>1 DEF RunInv, ThreadInv, ThreadTypes
<1>5. Held'
  <2>1. ctl'.state \in {"paused", "input_wait"} \/ ctl'.claimed => state'[t] = "paused"
    BY <1>1, <1>2, <1>3 DEF Owner
  <2>2. ctl.exec \in attempts'[t]
    BY <1>2, OwnTask DEF RunInv, LedgerInv
  <2>3. Agreed(t)'
    BY <1>2, <1>4, <2>2 DEF Agreed
  <2>4. QED
    BY <1>1, <1>2, <1>3, <2>1, <2>3, HeldKept DEF RunInv, Owner
<1>6. ThreadTypes'
  <2>1. ctl' \in [exec : Exec \cup {NoAttempt}, state : RunState, saved : BOOLEAN, claimed : BOOLEAN,
                  ticket : Exec \cup {NoAttempt}, pend : Final \cup {"none"}, pid : BOOLEAN]
    BY DEF RunInv, ThreadInv, ThreadTypes, RunState
  <2>2. ledger' \in [Exec -> [desired : Intent \cup {"none"}, ended : BOOLEAN]]
    BY <1>1 DEF RunInv, ThreadInv, ThreadTypes, Intent
  <2>3. QED
    BY <1>1, <1>3, <2>1, <2>2, ExecFacts DEF RunInv, ThreadInv, ThreadTypes
<1>7. Exits'
  BY DEF RunInv, ThreadInv, Exits
<1>8. Mode'
  BY <1>1, <1>3, <1>4 DEF RunInv, ThreadInv, Mode
<1>9. Ticket'
  <2>1. ASSUME NEW n \in Exec, ctl'.ticket = n, drv'[n] = "bound"
        PROVE  /\ ctl.exec = n /\ ~ctl.claimed /\ origin[n] \in Exec /\ drv[origin[n]] \in Gone
               /\ Continues(n) /\ origin[n] # n
    BY <1>3, <2>1 DEF RunInv, ThreadInv, Ticket, Gone
  <2>2. ASSUME NEW n \in Exec, ctl'.ticket = n, drv'[n] = "bound"
        PROVE  Continues(n)'
    BY <1>1, <1>2, <1>4, <2>1, <2>2, ContinuesKept
  <2>3. QED
    BY <1>3, <2>1, <2>2 DEF RunInv, ThreadInv, Ticket
<1>10. ToolsInv'
  BY <1>3 DEF RunInv, ThreadInv, ToolsInv
<1>11. SweepInv'
  BY <1>3 DEF RunInv, ThreadInv, SweepInv
<1>12. QED
  BY <1>2, <1>5, <1>6, <1>7, <1>8, <1>9, <1>10, <1>11 DEF ThreadInv

\* A stop is recorded with the task, the execution and the thread at once.
LEMMA CancelStop ==
  ASSUME RunInv, NEW e \in Exec, Cancel(e)
  PROVE  Tree' /\ Held' /\ ThreadInv'
<1>1. /\ ctl.exec = e
      /\ ledger' = [ledger EXCEPT ![e] = [desired |-> "terminated",
                                          ended |-> ledger[e].ended \/ ctl.state = "paused"]]
      /\ ctl' = [ctl EXCEPT !.state = "terminating", !.claimed = FALSE]
      /\ status' = "busy" /\ UNCHANGED <<lease, tool, drv, exit, origin, sweep, asked>>
      /\ \E t \in TaskOf(ctl.exec) : Change(t, "terminated")
  BY DEF Cancel, SetLedger, driverVars
<1>2. (ledger[e].ended \/ ctl.state = "paused") \in BOOLEAN /\ asked' \in BOOLEAN
  BY <1>1 DEF RunInv, ThreadInv, ThreadTypes
<1>3. QED
  BY <1>1, <1>2, StopStep

\* A termination sent to any execution reaches the task, and nothing of the thread.
LEMMA TerminateStep ==
  ASSUME RunInv, NEW e \in Exec, Terminate(e)
  PROVE  Tree' /\ Held' /\ ThreadInv'
<1>1. /\ ledger' = [ledger EXCEPT ![e] = Intend(e, "terminated", FALSE)]
      /\ UNCHANGED <<ctl, status, lease, tool, drv, exit, origin, sweep, asked>>
  BY DEF Terminate, SetLedger, threadVars, driverVars
<1>2. PICK t \in TaskOf(e) : Change(t, "terminated")
  BY DEF Terminate
<1>3. t \in Task /\ e \in attempts[t] /\ t \in Exec /\ state[t] # "absent"
  BY <1>2, ExecFacts DEF TaskOf, RunInv, Tree, Change, ChangeAllowed
<1>4. UNCHANGED <<entry, state, current, attempts>> /\ desired' = [desired EXCEPT ![t] = "terminated"]
  BY <1>2 DEF Change, runVars, execVars
<1>5. desired'[t] = "terminated" /\ \A u \in Task : u # t => desired'[u] = desired[u]
  BY <1>3, <1>4 DEF RunInv, LedgerInv, TypeOK
<1>6. /\ ledger'[e].desired = "terminated" /\ \A n \in Exec : n # e => ledger'[n] = ledger[n]
      /\ ledger' \in [Exec -> [desired : Intent \cup {"none"}, ended : BOOLEAN]]
  <2>1. /\ Intend(e, "terminated", FALSE).desired = "terminated"
        /\ Intend(e, "terminated", FALSE) \in [desired : Intent \cup {"none"}, ended : BOOLEAN]
    BY DEF Intend, RunInv, ThreadInv, ThreadTypes, Intent
  <2>2. QED
    BY <1>1, <2>1 DEF RunInv, ThreadInv, ThreadTypes
<1>7. Tree'
  BY <1>3, <1>4, <1>5, TreeKept DEF RunInv
<1>8. Held'
  <2>1. OpenTasks' = OpenTasks
    BY <1>4 DEF OpenTasks
  <2>2. ASSUME NEW u \in Exec, ctl.exec # NoAttempt, Owner(u)
        PROVE  Agreed(u)'
    <3>1. CASE u = t
      BY <1>3, <1>4, <1>5, <1>6, <3>1 DEF Agreed
    <3>2. CASE u # t
      <4>1. u \in Task /\ ctl.exec \in attempts[u] /\ e \notin attempts[u] /\ attempts[u] \subseteq Exec
        BY <1>3, <2>2, <3>2, ExecFacts DEF Owner, OpenTasks, RunInv, Tree, LedgerInv, TypeOK, Exec
      <4>2. \A n \in attempts[u] : ledger'[n] = ledger[n]
        BY <1>6, <4>1
      <4>3. QED
        BY <1>1, <1>4, <1>5, <2>2, <3>2, <4>1, <4>2 DEF Owner, Agreed
    <3>3. QED
      BY <3>1, <3>2
  <2>3. QED
    BY <1>1, <1>4, <2>1, <2>2 DEF RunInv, Held, Owner
<1>9. ThreadTypes' /\ Exits' /\ ToolsInv'
  <2>1. ThreadTypes'
    <3>1. ThreadTypes
      BY DEF RunInv, ThreadInv
    <3>2. /\ ctl' = ctl /\ status' = status /\ lease' = lease /\ tool' = tool /\ drv' = drv
          /\ exit' = exit /\ origin' = origin /\ sweep' = sweep /\ asked' = asked
      BY <1>1
    <3>3. /\ ctl' \in [exec : Exec \cup {NoAttempt}, state : RunState, saved : BOOLEAN, claimed : BOOLEAN,
                       ticket : Exec \cup {NoAttempt}, pend : Final \cup {"none"}, pid : BOOLEAN]
          /\ (ctl'.exec = NoAttempt) = (ctl'.state = "none")
          /\ status' \in Final \cup {"busy", "pausing", "paused"}
          /\ lease' \in [exec : Exec \cup {NoAttempt}, by : Exec \cup {NoAttempt}, live : BOOLEAN]
      BY <3>1, <3>2, Zenon DEF ThreadTypes
    <3>4. /\ tool' \in [Exec -> {"none", "open", "lost"}]
          /\ drv' \in [Exec -> {"new", "starting", "bound", "running", "stopping", "ending", "returned",
                               "over", "dead"}]
          /\ exit' \in [Exec -> Final \cup {"none", "input"}]
          /\ origin' \in [Exec -> Exec \cup {NoAttempt}]
          /\ sweep' \in [at : {"idle", "listed", "drained"}, exec : Exec \cup {NoAttempt}]
          /\ asked' \in BOOLEAN
      BY <3>1, <3>2, Zenon DEF ThreadTypes
    <3>5. QED
      BY <1>6, <3>3, <3>4, Zenon DEF ThreadTypes
  <2>2. Exits'
    BY <1>1 DEF RunInv, ThreadInv, Exits
  <2>3. ToolsInv'
    BY <1>1 DEF RunInv, ThreadInv, ToolsInv
  <2>4. QED
    BY <2>1, <2>2, <2>3
<1>10. Mode' /\ SweepInv'
  <2>1. \A n \in Exec : ledger'[n].desired = ledger[n].desired \/ ledger'[n].desired = "terminated"
    BY <1>6
  <2>2. ctl.exec \in Exec \cup {NoAttempt}
    BY DEF RunInv, ThreadInv, ThreadTypes
  <2>3. QED
    BY <1>1, <2>1, <2>2 DEF RunInv, ThreadInv, Mode, SweepInv
<1>11. Ticket'
  <2>1. ASSUME NEW n \in Exec, Continues(n), origin[n] \in Exec
        PROVE  Continues(n)'
    <3>1. PICK u \in Exec : /\ n \in attempts[u] /\ origin[n] \in attempts[u]
                            /\ ledger[origin[n]].desired = "paused" \/ desired[u] = "terminated"
      BY <2>1 DEF Continues
    <3>2. CASE origin[n] = e
      BY <1>1, <1>3, <1>4, <1>5, <3>1, <3>2, ExecFacts DEF Continues, RunInv, Tree
    <3>3. CASE origin[n] # e
      BY <1>1, <1>4, <1>5, <1>6, <2>1, <3>3, ContinuesKept, ExecFacts
    <3>4. QED
      BY <3>2, <3>3
  <2>2. QED
    BY <1>1, <2>1 DEF RunInv, ThreadInv, Ticket
<1>12. QED
  BY <1>7, <1>8, <1>9, <1>10, <1>11 DEF ThreadInv

(***************************************************************************)
(* Resuming                                                                *)
(***************************************************************************)
\* A request claims the confirmed pause; the execution that was paused still holds the
\* thread.
LEMMA ClaimStep ==
  ASSUME RunInv, NEW n \in Exec, ClaimResume(n)
  PROVE  Tree' /\ Held' /\ ThreadInv'
<1> DEFINE e == ctl.exec
<1>1. /\ drv[n] = "new" /\ ctl.state = "paused" /\ ctl.saved
      /\ ledger' = [ledger EXCEPT ![e] = Intend(e, "running", FALSE)]
      /\ ctl' = [ctl EXCEPT !.state = "running", !.claimed = TRUE, !.ticket = n]
      /\ status' = "busy" /\ lease' = [exec |-> e, by |-> n, live |-> TRUE]
      /\ drv' = [drv EXCEPT ![n] = "starting"] /\ origin' = [origin EXCEPT ![n] = e]
      /\ asked' = FALSE /\ UNCHANGED <<tool, exit, sweep>>
  BY DEF ClaimResume, SetLedger, Goto
<1>2. PICK t \in TaskOf(e) : Change(t, "running")
  BY DEF ClaimResume
<1>3. /\ e \in Exec /\ t \in Exec /\ Owner(t) /\ desired[t] # "terminated" /\ Registered(t)
      /\ state[t] \in State \ {"absent"} /\ state[t] # "completed" /\ state[t] = "paused"
  BY <1>1, <1>2, OwnTask DEF RunInv, LedgerInv, Change, ChangeAllowed, TypeOK, Owner
<1>4. /\ Tree' /\ UNCHANGED current /\ state'[t] = state[t] /\ desired'[t] = "running"
      /\ \A u \in Exec : u # t => state'[u] = state[u]
  BY <1>2, <1>3, TaskOps DEF RunInv, LedgerInv, Intent
<1>5. /\ ctl'.exec = e /\ ctl'.state = "running" /\ ctl'.claimed /\ ctl'.ticket = n
  BY <1>1 DEF RunInv, ThreadInv, ThreadTypes
<1>6. ledger'[e].desired = "running"
  BY <1>1, <1>3 DEF Intend, Owner, Agreed, RunInv, ThreadInv, ThreadTypes
<1>7. /\ drv[e] \in Gone /\ n # e
      /\ drv'[n] = "starting" /\ origin'[n] = e /\ \A m \in Exec : m # n => drv'[m] = drv[m]
  BY <1>1, <1>3 DEF RunInv, ThreadInv, ThreadTypes, Mode, Gone
<1>8. Held'
  <2>1. Agreed(t)'
    BY <1>4, <1>5, <1>6 DEF Agreed
  <2>2. QED
    BY <1>3, <1>4, <1>5, <2>1, HeldKept DEF RunInv, Owner
<1>9. ThreadTypes'
  <2>1. ctl' \in [exec : Exec \cup {NoAttempt}, state : RunState, saved : BOOLEAN, claimed : BOOLEAN,
                  ticket : Exec \cup {NoAttempt}, pend : Final \cup {"none"}, pid : BOOLEAN]
    BY <1>1 DEF RunInv, ThreadInv, ThreadTypes, RunState
  <2>2. ledger' \in [Exec -> [desired : Intent \cup {"none"}, ended : BOOLEAN]]
    BY <1>1 DEF Intend, RunInv, ThreadInv, ThreadTypes, Intent
  <2>3. lease' \in [exec : Exec \cup {NoAttempt}, by : Exec \cup {NoAttempt}, live : BOOLEAN]
    BY <1>1, <1>3
  <2>4. /\ drv' \in [Exec -> {"new", "starting", "bound", "running", "stopping", "ending", "returned",
                              "over", "dead"}]
        /\ origin' \in [Exec -> Exec \cup {NoAttempt}]
    BY <1>1, <1>3 DEF RunInv, ThreadInv, ThreadTypes
  <2>5. QED
    BY <1>1, <1>3, <1>5, <2>1, <2>2, <2>3, <2>4, ExecFacts DEF RunInv, ThreadInv, ThreadTypes
<1>10. Exits'
  BY <1>1, <1>7 DEF RunInv, ThreadInv, Exits
<1>11. Mode'
  <2>1. drv'[e] = drv[e] /\ drv[e] \notin {"new", "starting"}
    BY <1>3, <1>7 DEF Gone
  <2>2. QED
    BY <1>5, <1>6, <1>7, <2>1 DEF Mode
<1>12. Ticket'
  BY <1>5, <1>7 DEF Ticket
<1>13. ToolsInv'
  BY <1>1 DEF RunInv, ThreadInv, ToolsInv
<1>14. SweepInv'
  BY <1>1, <1>5, <1>7 DEF RunInv, ThreadInv, SweepInv
<1>15. QED
  BY <1>4, <1>8, <1>9, <1>10, <1>11, <1>12, <1>13, <1>14 DEF ThreadInv

\* The claim becomes a new execution of the same task.
LEMMA BindStep ==
  ASSUME RunInv, NEW n \in Exec, BindResumed(n)
  PROVE  Tree' /\ Held' /\ ThreadInv'
<1> DEFINE e == ctl.exec
<1>1. /\ drv[n] = "starting" /\ ctl.state = "running" /\ ctl.ticket = n /\ ctl.claimed
      /\ ledger' = [ledger EXCEPT ![e] = [desired |-> "paused", ended |-> TRUE],
                                  ![n] = [desired |-> "running", ended |-> FALSE]]
      /\ ctl' = [ctl EXCEPT !.exec = n, !.claimed = FALSE]
      /\ lease' = OwnedBy(n) /\ drv' = [drv EXCEPT ![n] = "bound"]
      /\ UNCHANGED <<status, tool, exit, origin, sweep, asked>>
  BY DEF BindResumed, HoldsClaim, Goto
<1>2. PICK t \in TaskOf(e) : Bind(t, e, n)
  BY DEF BindResumed
<1>3. /\ e \in Exec /\ t \in Exec /\ Owner(t) /\ desired[t] = IntentOf(t)
      /\ state[t] # "absent" /\ e \in attempts[t]
  BY <1>2, OwnTask DEF RunInv, LedgerInv, TypeOK
<1>4. drv[e] \in Gone /\ n # e /\ origin[n] = e
  BY <1>1, <1>3, ExecFacts DEF RunInv, ThreadInv, Mode, Ticket, Gone
<1>5. Tree'
  BY <1>2, <1>3, TreeBound, ExecFacts DEF RunInv, LedgerInv
<1>6. /\ state'[t] = "running" /\ current'[t] = n /\ desired'[t] = "running"
      /\ attempts'[t] = attempts[t] \cup {n}
      /\ \A u \in Exec : u # t => state'[u] = state[u]
  BY <1>2, <1>3, ExecFacts DEF Bind, treeVars, RunInv, LedgerInv, TypeOK
<1>7. /\ ctl'.exec = n /\ ctl'.state = "running" /\ ~ctl'.claimed /\ ctl'.ticket = n
  BY <1>1 DEF RunInv, ThreadInv, ThreadTypes
<1>8. ledger'[n].desired = "running" /\ ledger'[e].desired = "paused"
  BY <1>1, <1>3, <1>4 DEF RunInv, ThreadInv, ThreadTypes
<1>9. drv'[n] = "bound" /\ \A m \in Exec : m # n => drv'[m] = drv[m]
  BY <1>1 DEF RunInv, ThreadInv, ThreadTypes
<1>10. Held'
  <2>1. Agreed(t)'
    BY <1>6, <1>7, <1>8 DEF Agreed
  <2>2. QED
    BY <1>3, <1>6, <1>7, <2>1, HeldKept DEF RunInv, Owner
<1>11. ThreadTypes'
  <2>1. ctl' \in [exec : Exec \cup {NoAttempt}, state : RunState, saved : BOOLEAN, claimed : BOOLEAN,
                  ticket : Exec \cup {NoAttempt}, pend : Final \cup {"none"}, pid : BOOLEAN]
    BY <1>1 DEF RunInv, ThreadInv, ThreadTypes
  <2>2. ledger' \in [Exec -> [desired : Intent \cup {"none"}, ended : BOOLEAN]]
    BY <1>1 DEF RunInv, ThreadInv, ThreadTypes, Intent
  <2>3. lease' \in [exec : Exec \cup {NoAttempt}, by : Exec \cup {NoAttempt}, live : BOOLEAN]
    BY <1>1 DEF OwnedBy
  <2>4. drv' \in [Exec -> {"new", "starting", "bound", "running", "stopping", "ending", "returned",
                           "over", "dead"}]
    BY <1>1 DEF RunInv, ThreadInv, ThreadTypes
  <2>5. QED
    BY <1>1, <1>7, <2>1, <2>2, <2>3, <2>4, ExecFacts, ZenonT(40) DEF RunInv, ThreadInv, ThreadTypes
<1>12. Exits'
  BY <1>1, <1>9 DEF RunInv, ThreadInv, Exits
<1>13. Mode'
  BY <1>7, <1>8, <1>9 DEF Mode
<1>14. Ticket'
  <2>1. Continues(n)'
    BY <1>1, <1>3, <1>4, <1>6, <1>8 DEF Continues
  <2>2. QED
    BY <1>1, <1>3, <1>4, <1>7, <1>9, <2>1 DEF Ticket
<1>15. ToolsInv'
  BY <1>1 DEF RunInv, ThreadInv, ToolsInv
<1>16. SweepInv'
  BY <1>1, <1>7, <1>9 DEF RunInv, ThreadInv, SweepInv
<1>17. QED
  BY <1>5, <1>10, <1>11, <1>12, <1>13, <1>14, <1>15, <1>16 DEF ThreadInv

\* A failed resume that no longer holds the claim, or whose release fails, ends and
\* changes nothing else.
LEMMA ReleaseLate ==
  ASSUME RunInv, NEW n \in Exec, ReleaseResume(n), ~HoldsClaim(n) \/ CannotRelease
  PROVE  Tree' /\ Held' /\ ThreadInv'
<1>1. /\ drv[n] \in {"starting", "bound"} /\ drv' = [drv EXCEPT ![n] = "over"]
      /\ UNCHANGED <<taskVars, ctl, status, lease, ledger, tool, exit, origin, sweep, asked>>
  BY DEF ReleaseResume, Goto, threadVars
<1>2. drv'[n] = "over" /\ \A m \in Exec : m # n => drv'[m] = drv[m]
  BY <1>1 DEF RunInv, ThreadInv, ThreadTypes
<1>3. Tree'
  BY <1>1 DEF RunInv, Tree, taskVars
<1>4. Held'
  BY <1>1, HeldSame DEF taskVars
<1>5. ThreadTypes'
  BY <1>1 DEF RunInv, ThreadInv, ThreadTypes
<1>6. Exits' /\ Mode' /\ Ticket'
  BY <1>1, <1>2 DEF RunInv, ThreadInv, Exits, Mode, Ticket, Continues, taskVars, Gone
<1>7. ToolsInv' /\ SweepInv'
  BY <1>1, <1>2 DEF RunInv, ThreadInv, ToolsInv, SweepInv, ThreadTypes
<1>8. QED
  BY <1>3, <1>4, <1>5, <1>6, <1>7 DEF ThreadInv

\* The pause is given back: to the execution that was paused, which the thread then
\* belongs to again.
LEMMA ReleaseHeld ==
  ASSUME RunInv, NEW n \in Exec, ReleaseResume(n), HoldsClaim(n), ~CannotRelease
  PROVE  Tree' /\ Held' /\ ThreadInv'
<1>1. /\ ctl.state = "running" /\ ctl.ticket = n
      /\ drv[n] \in {"starting", "bound"} /\ drv' = [drv EXCEPT ![n] = "over"]
      /\ status' = "paused" /\ lease' = NoLease
      /\ UNCHANGED <<tool, exit, origin, sweep, asked>>
  BY DEF ReleaseResume, HoldsClaim, Goto
<1>2. PICK old \in Exec, t \in TaskOf(ctl.exec) :
        /\ \/ /\ drv[n] = "starting" /\ old = ctl.exec /\ Change(t, "paused")
              /\ ledger' = [ledger EXCEPT ![old] = Intend(old, "paused", FALSE)]
           \/ /\ drv[n] = "bound" /\ old = origin[n] /\ RestoreAttempt(t, n, old)
              /\ ledger' = [ledger EXCEPT ![n] = Intend(n, "terminated", FALSE)]
        /\ ctl' = [ctl EXCEPT !.exec = old, !.state = "paused", !.claimed = FALSE, !.ticket = NoAttempt]
  BY <1>1 DEF ReleaseResume, SetLedger
<1>3. /\ ctl.exec \in Exec /\ t \in Exec /\ Owner(t) /\ Registered(t) /\ state[t] \in State \ {"absent"}
      /\ state[t] # "completed" /\ t \in Task /\ desired[t] # "terminated" /\ ctl.exec \in attempts[t]
  BY <1>2, OwnTask DEF CannotRelease, RunInv, LedgerInv, TypeOK
<1>4. /\ drv[n] = "starting" => ctl.claimed /\ drv[ctl.exec] \in Gone /\ n # ctl.exec
      /\ drv[n] = "bound" => /\ ctl.exec = n /\ drv[origin[n]] \in Gone /\ origin[n] # n
                             /\ ledger[origin[n]].desired = "paused"
  <2>1. drv[n] = "starting" => ctl.claimed
    BY <1>1 DEF RunInv, ThreadInv, Ticket
  <2>2. drv[n] = "starting" => drv[ctl.exec] \in Gone /\ n # ctl.exec
    BY <1>3, <2>1, ExecFacts DEF RunInv, ThreadInv, Mode, Gone
  <2>3. drv[n] = "bound" => /\ ctl.exec = n /\ drv[origin[n]] \in Gone /\ origin[n] # n
                            /\ ledger[origin[n]].desired = "paused"
    <3>1. drv[n] = "bound" => /\ ctl.exec = n /\ drv[origin[n]] \in Gone /\ origin[n] # n
                              /\ Continues(n)
      BY <1>1 DEF RunInv, ThreadInv, Ticket, Gone
    <3>2. \A u \in Exec : ctl.exec \in attempts[u] => u = t
      BY <1>3, ExecFacts DEF RunInv, Tree
    <3>3. QED
      BY <1>3, <3>1, <3>2 DEF Continues
  <2>4. QED
    BY <2>1, <2>2, <2>3
<1>5. /\ ctl'.exec = old /\ ctl'.state = "paused" /\ ~ctl'.claimed /\ ctl'.ticket = NoAttempt
  BY <1>2 DEF RunInv, ThreadInv, ThreadTypes
<1>6. drv'[n] = "over" /\ \A m \in Exec : m # n => drv'[m] = drv[m]
  BY <1>1 DEF RunInv, ThreadInv, ThreadTypes
<1>7. /\ Tree' /\ state'[t] = "paused" /\ current'[t] = old /\ desired'[t] = "paused"
      /\ \A u \in Exec : u # t => state'[u] = state[u]
  <2>1. CASE Change(t, "paused") /\ old = ctl.exec /\ drv[n] = "starting"
    <3>1. /\ Tree' /\ UNCHANGED current /\ state'[t] = state[t] /\ desired'[t] = "paused"
          /\ \A u \in Exec : u # t => state'[u] = state[u]
      BY <1>3, <2>1, TaskOps DEF RunInv, LedgerInv, Intent
    <3>2. QED
      BY <1>3, <1>4, <2>1, <3>1 DEF Owner
  <2>2. CASE RestoreAttempt(t, n, old)
    <3>1. /\ state' = [state EXCEPT ![t] = "paused"] /\ desired' = [desired EXCEPT ![t] = "paused"]
          /\ current' = [current EXCEPT ![t] = old] /\ old \in attempts[t]
          /\ UNCHANGED <<entry, attempts>>
      BY <2>2 DEF RestoreAttempt
    <3>2. /\ state'[t] = "paused" /\ desired'[t] = "paused" /\ current'[t] = old
          /\ \A u \in Task : u # t => UNCHANGED <<state[u], desired[u], current[u]>>
      BY <1>3, <3>1 DEF RunInv, LedgerInv, TypeOK
    <3>3. Tree'
      BY <1>3, <3>1, <3>2, TreeKept, ExecFacts DEF RunInv
    <3>4. QED
      BY <3>2, <3>3, ExecFacts
  <2>3. QED
    BY <1>2, <2>1, <2>2
<1>8. ledger'[old].desired = "paused"
  <2>1. CASE drv[n] = "starting"
    <3>1. ledger[old].desired # "terminated"
      BY <1>2, <1>3, <2>1 DEF Owner, Agreed
    <3>2. QED
      BY <1>2, <2>1, <3>1 DEF Intend, RunInv, ThreadInv, ThreadTypes
  <2>2. CASE drv[n] = "bound"
    BY <1>2, <1>4, <2>2 DEF RunInv, ThreadInv, ThreadTypes
  <2>3. QED
    BY <1>1, <2>1, <2>2
<1>9. Held'
  <2>1. Agreed(t)'
    BY <1>5, <1>7, <1>8 DEF Agreed
  <2>2. QED
    BY <1>3, <1>5, <1>7, <2>1, HeldKept DEF RunInv, Owner
<1>10. ThreadTypes'
  <2>1. ctl' \in [exec : Exec \cup {NoAttempt}, state : RunState, saved : BOOLEAN, claimed : BOOLEAN,
                  ticket : Exec \cup {NoAttempt}, pend : Final \cup {"none"}, pid : BOOLEAN]
    BY <1>2 DEF RunInv, ThreadInv, ThreadTypes, RunState
  <2>2. ledger' \in [Exec -> [desired : Intent \cup {"none"}, ended : BOOLEAN]]
    <3>1. \A x \in Exec, d \in {"paused", "terminated"} :
             Intend(x, d, FALSE) \in [desired : Intent \cup {"none"}, ended : BOOLEAN]
      BY DEF Intend, RunInv, ThreadInv, ThreadTypes, Intent
    <3>2. PICK x \in Exec, d \in {"paused", "terminated"} : ledger' = [ledger EXCEPT ![x] = Intend(x, d, FALSE)]
      BY <1>2
    <3>3. Intend(x, d, FALSE) \in [desired : Intent \cup {"none"}, ended : BOOLEAN]
      BY <3>1
    <3>4. QED
      BY <3>2, <3>3 DEF RunInv, ThreadInv, ThreadTypes
  <2>3. lease' \in [exec : Exec \cup {NoAttempt}, by : Exec \cup {NoAttempt}, live : BOOLEAN]
    BY <1>1 DEF NoLease
  <2>4. drv' \in [Exec -> {"new", "starting", "bound", "running", "stopping", "ending", "returned",
                           "over", "dead"}]
    BY <1>1 DEF RunInv, ThreadInv, ThreadTypes
  <2>5. QED
    BY <1>1, <1>5, <2>1, <2>2, <2>3, <2>4, ExecFacts DEF RunInv, ThreadInv, ThreadTypes
<1>11. Exits'
  BY <1>1, <1>6 DEF RunInv, ThreadInv, Exits
<1>12. Mode'
  <2>1. old # n /\ drv[old] \in Gone
    BY <1>1, <1>2, <1>4
  <2>2. drv'[old] \in Gone /\ drv'[old] \notin {"new", "starting"}
    BY <1>6, <2>1 DEF Gone
  <2>3. QED
    BY <1>5, <1>8, <2>2 DEF Mode
<1>13. Ticket'
  BY <1>5, ExecFacts DEF Ticket
<1>14. ToolsInv'
  <2>1. \A x \in Exec : tool[x] = "none"
    BY <1>1, <1>4 DEF RunInv, ThreadInv, ToolsInv
  <2>2. QED
    BY <1>1, <2>1 DEF ToolsInv
<1>15. SweepInv'
  BY <1>1, <1>5, <1>6 DEF RunInv, ThreadInv, SweepInv
<1>16. QED
  BY <1>7, <1>9, <1>10, <1>11, <1>12, <1>13, <1>14, <1>15 DEF ThreadInv

(***************************************************************************)
(* Finishing                                                               *)
(***************************************************************************)
\* The state in which finish() finds the run: being stopped, if its task is terminated.
Seen(t) == IF IntentOf(t) = "terminated" THEN "terminating" ELSE ctl.state

\* The status a freed thread shows.
Shown(t, st) ==
  IF Seen(t) = "terminating" THEN "interrupted" ELSE IF ctl.state = "settling" THEN ctl.pend ELSE st

\* A finish that is not refused acts on the execution that occupies the thread, in the
\* state it sees, and ends in one of five ways.
Ending(e, t, st, input) ==
  \/ /\ Seen(t) \in {"running", "pausing"} /\ input
     /\ ctl' = [ctl EXCEPT !.state = "input_wait"] /\ status' = "interrupted" /\ lease' = NoLease
     /\ asked' = asked /\ Receipt(t, "paused", NoToken)
  \/ /\ Seen(t) \in {"running", "settling"} /\ ~(ctl.state = "running" /\ input)
     /\ ctl' = [ctl EXCEPT !.state = "settling", !.pend = IF ctl.state = "settling" THEN ctl.pend ELSE st]
     /\ status' = "busy" /\ UNCHANGED <<taskVars, lease, asked>>
  \/ /\ Seen(t) \in {"pausing", "terminating"}
     /\ ctl' = [ctl EXCEPT !.state = Seen(t)]
     /\ (status' = "busy" \/ status' = status) /\ UNCHANGED <<taskVars, lease, asked>>
  \/ /\ Seen(t) = "pausing" /\ ctl.saved /\ tool[e] = "none" /\ Settled(t, TRUE)
     /\ ctl' = [ctl EXCEPT !.state = "paused"] /\ status' = "paused" /\ lease' = NoLease
     /\ asked' = asked /\ Receipt(t, "paused", NoToken)
  \/ /\ tool[e] = "none" /\ ~(Seen(t) = "running" /\ input) /\ Settled(t, Seen(t) = "pausing")
     /\ ctl' = NoRun /\ lease' = NoLease /\ asked' = FALSE
     /\ status' = Shown(t, st)
     /\ Receipt(t, "completed", NoToken)

\* finish() sees what the thread shows, or a termination of its task.
LEMMA SeenIs ==
  ASSUME RunInv, NEW t \in TaskOf(ctl.exec), ctl.state \notin {"paused", "input_wait"}
  PROVE  /\ ctl.state \in {"running", "pausing", "settling", "terminating"}
         /\ \/ Seen(t) = "terminating" /\ desired[t] = "terminated"
            \/ /\ Seen(t) = ctl.state /\ ctl.state # "terminating" /\ desired[t] # "terminated"
               /\ ledger[ctl.exec].desired = desired[t]
<1>1. Owner(t) /\ IntentOf(t) = desired[t] /\ ctl.exec \in Exec
  BY OwnTask DEF RunInv, LedgerInv
<1>2. ctl.state \in {"running", "pausing", "settling", "terminating"}
  BY <1>1, ExecFacts DEF RunInv, ThreadInv, ThreadTypes, RunState
<1>3. QED
  BY <1>1, <1>2 DEF Owner, Agreed, Seen

\* Every finish() that is not refused ends in one of those ways.
LEMMA FinishEndings ==
  ASSUME RunInv, NEW e \in Exec, NEW st, NEW input \in BOOLEAN, FinishTx(e, st, input), ~FinishRefused(e)
  PROVE  /\ ctl.exec = e /\ ctl.state \notin {"paused", "input_wait"} /\ ~ctl.claimed
         /\ ledger' = [ledger EXCEPT ![e].ended = TRUE]
         /\ \E t \in TaskOf(e) : Ending(e, t, st, input)
<1>1. /\ ctl.exec = e /\ ctl.state \notin {"paused", "input_wait"} /\ ~ctl.claimed
      /\ ledger' = [ledger EXCEPT ![e].ended = TRUE]
  BY DEF FinishRefused, FinishTx
<1>2. PICK t \in TaskOf(e) : Conclude(e, t, st, input)
  BY DEF FinishTx
<1> DEFINE at == Seen(t)
           said == Said(at, st)
           quiet == Quiet(e, t, at)
           await == at \in {"running", "pausing"} /\ input
           paused == PauseReached(at, said)
<1>3. /\ ctl.state \in {"running", "pausing", "settling", "terminating"}
      /\ at = ctl.state \/ at = "terminating"
  BY <1>1, <1>2, SeenIs
<1>4. at # "terminating" => said = IF ctl.state = "settling" THEN ctl.pend ELSE st
  BY <1>3 DEF Said
<1>5. quiet => tool[e] = "none" /\ Settled(t, at = "pausing")
  BY DEF Quiet
<1>6. paused => at = "pausing" /\ ctl.saved
  BY DEF PauseReached
<1> HIDE DEF said, quiet, paused
<1>7. \/ /\ await
         /\ ctl' = [ctl EXCEPT !.state = "input_wait"] /\ status' = "interrupted" /\ lease' = NoLease
         /\ Receipt(t, "paused", NoToken) /\ UNCHANGED asked
      \/ /\ ~await /\ at \in {"running", "settling"}
         /\ ctl' = [ctl EXCEPT !.state = "settling", !.pend = said]
         /\ status' = "busy" /\ UNCHANGED <<taskVars, lease, asked>>
      \/ /\ at \in {"pausing", "terminating"} /\ ctl' = [ctl EXCEPT !.state = at]
         /\ status' \in {"busy", status} /\ UNCHANGED <<taskVars, lease, asked>>
      \/ /\ quiet /\ paused /\ ctl' = [ctl EXCEPT !.state = "paused"] /\ status' = "paused"
         /\ lease' = NoLease /\ Receipt(t, "paused", NoToken) /\ UNCHANGED asked
      \/ ~await /\ quiet /\ Free(t, IF at = "terminating" THEN "interrupted" ELSE said)
  BY <1>2 DEF Conclude, Seen, said, quiet, paused
<1>8. CASE /\ await
           /\ ctl' = [ctl EXCEPT !.state = "input_wait"] /\ status' = "interrupted" /\ lease' = NoLease
           /\ Receipt(t, "paused", NoToken) /\ UNCHANGED asked
  BY <1>1, <1>2, <1>8 DEF Ending
<1>9. CASE /\ ~await /\ at \in {"running", "settling"}
           /\ ctl' = [ctl EXCEPT !.state = "settling", !.pend = said]
           /\ status' = "busy" /\ UNCHANGED <<taskVars, lease, asked>>
  BY <1>1, <1>2, <1>3, <1>4, <1>9 DEF Ending
<1>10. CASE /\ at \in {"pausing", "terminating"} /\ ctl' = [ctl EXCEPT !.state = at]
            /\ status' \in {"busy", status} /\ UNCHANGED <<taskVars, lease, asked>>
  BY <1>1, <1>2, <1>10 DEF Ending
<1>11. CASE /\ quiet /\ paused /\ ctl' = [ctl EXCEPT !.state = "paused"] /\ status' = "paused"
            /\ lease' = NoLease /\ Receipt(t, "paused", NoToken) /\ UNCHANGED asked
  BY <1>1, <1>2, <1>5, <1>6, <1>11 DEF Ending
<1>12. CASE ~await /\ quiet /\ Free(t, IF at = "terminating" THEN "interrupted" ELSE said)
  <2>1. status' = Shown(t, st)
    BY <1>4, <1>12 DEF Free, Shown
  <2>2. QED
    BY <1>1, <1>2, <1>5, <1>12, <2>1 DEF Free, Ending
<1>13. QED
  BY <1>7, <1>8, <1>9, <1>10, <1>11, <1>12

\* What either caller of finish() leaves behind: the owner, whose driver is then over,
\* or maintenance, which reported neither an end nor an input.
FinishedBy(e, st, input) ==
  \/ /\ drv[e] = "returned" /\ drv' = [drv EXCEPT ![e] = "over"] /\ UNCHANGED sweep
     /\ input = (exit[e] = "input") /\ (~input => st = exit[e]) /\ (input => st = "interrupted")
  \/ /\ sweep.at = "drained" /\ sweep.exec = e /\ sweep' = NoSweep /\ UNCHANGED drv
     /\ ~input /\ st = "interrupted"

\* The driver of a finished execution, after finish().
LEMMA FinishDrivers ==
  ASSUME RunInv, NEW e \in Exec, NEW st, NEW input \in BOOLEAN, FinishedBy(e, st, input), UNCHANGED exit
  PROVE  /\ st \in Final /\ Exits' /\ drv[e] \notin {"new", "starting"}
         /\ drv' \in [Exec -> {"new", "starting", "bound", "running", "stopping", "ending", "returned",
                               "over", "dead"}]
         /\ sweep' \in [at : {"idle", "listed", "drained"}, exec : Exec \cup {NoAttempt}]
         /\ drv'[e] = drv[e] \/ (drv[e] = "returned" /\ drv'[e] = "over")
         /\ \A n \in Exec : n # e => drv'[n] = drv[n]
<1>1. CASE drv[e] = "returned" /\ drv' = [drv EXCEPT ![e] = "over"] /\ UNCHANGED sweep
  <2>1. drv'[e] = "over" /\ \A n \in Exec : n # e => drv'[n] = drv[n]
    BY <1>1 DEF RunInv, ThreadInv, ThreadTypes
  <2>2. exit[e] \in Final \cup {"input"}
    BY <1>1 DEF RunInv, ThreadInv, ThreadTypes, Exits
  <2>3. st \in Final
    BY <2>2 DEF FinishedBy, Final
  <2>4. Exits'
    BY <2>1 DEF RunInv, ThreadInv, Exits
  <2>5. QED
    BY <1>1, <2>1, <2>3, <2>4 DEF RunInv, ThreadInv, ThreadTypes
<1>2. CASE /\ sweep.at = "drained" /\ sweep.exec = e /\ sweep' = NoSweep /\ UNCHANGED drv
           /\ ~input /\ st = "interrupted"
  BY <1>2 DEF RunInv, ThreadInv, ThreadTypes, Exits, SweepInv, NoSweep, Final
<1>3. QED
  BY <1>1, <1>2 DEF FinishedBy

\* A refused finish only ends its caller.
LEMMA RefusedStep ==
  ASSUME RunInv, NEW e \in Exec, NEW st, NEW input \in BOOLEAN, FinishedBy(e, st, input),
         FinishTx(e, st, input), FinishRefused(e), UNCHANGED <<tool, exit, origin>>
  PROVE  Tree' /\ Held' /\ ThreadInv'
<1>1. UNCHANGED <<taskVars, ctl, status, lease, ledger, asked>>
  BY DEF FinishTx, threadVars
<1>2. Tree'
  BY <1>1 DEF RunInv, Tree, taskVars
<1>3. Held'
  BY <1>1, HeldSame DEF taskVars
<1>4. ThreadTypes' /\ Exits'
  BY <1>1, FinishDrivers DEF RunInv, ThreadInv, ThreadTypes
<1>5. /\ drv[e] \notin {"new", "starting"}
      /\ drv'[e] = drv[e] \/ (drv[e] = "returned" /\ drv'[e] = "over")
      /\ \A n \in Exec : n # e => drv'[n] = drv[n]
  BY FinishDrivers
<1>6. Mode'
  <2>1. ctl.exec # NoAttempt => ctl.exec \in Exec
    BY DEF RunInv, ThreadInv, ThreadTypes
  <2>2. QED
    BY <1>1, <1>5, <2>1 DEF RunInv, ThreadInv, Mode, Gone
<1>7. Ticket'
  BY <1>1, <1>5 DEF RunInv, ThreadInv, Ticket, Continues, taskVars, Gone
<1>8. ToolsInv' /\ SweepInv'
  <2>1. sweep' = sweep \/ sweep' = NoSweep
    BY DEF FinishedBy
  <2>2. QED
    BY <1>1, <1>5, <2>1 DEF RunInv, ThreadInv, ToolsInv, SweepInv, NoSweep
<1>9. QED
  BY <1>2, <1>3, <1>4, <1>6, <1>7, <1>8 DEF ThreadInv

\* The other drivers of a thread that finishes: nobody is about to bind or to begin.
LEMMA FinishTicket ==
  ASSUME RunInv, NEW e \in Exec, ctl.exec = e, ~ctl.claimed, NEW n \in Exec, ctl.ticket = n,
         NEW st, NEW input \in BOOLEAN, FinishedBy(e, st, input)
  PROVE  /\ drv[n] = "starting" => ctl.state = "terminating" /\ origin[n] = e
         /\ drv[n] = "bound" => ctl.exec = n /\ sweep.at = "drained" /\ sweep.exec = e /\ UNCHANGED drv
  BY DEF RunInv, ThreadInv, Ticket, FinishedBy

\* finish() keeps the invariant.
LEMMA FinishStep ==
  ASSUME RunInv, NEW e \in Exec, NEW st, NEW input \in BOOLEAN, FinishedBy(e, st, input),
         FinishTx(e, st, input), ~FinishRefused(e), UNCHANGED <<tool, exit, origin>>
  PROVE  Tree' /\ Held' /\ ThreadInv'
<1>1. /\ ctl.exec = e /\ ctl.state \in {"running", "pausing", "settling", "terminating"} /\ ~ctl.claimed
      /\ ledger' = [ledger EXCEPT ![e].ended = TRUE]
  BY FinishEndings, ExecFacts DEF RunInv, ThreadInv, ThreadTypes, RunState
<1>2. PICK t \in TaskOf(e) : Ending(e, t, st, input)
  BY FinishEndings
<1> DEFINE at == Seen(t)
<1>seen. \/ at = "terminating" /\ desired[t] = "terminated"
       \/ /\ at = ctl.state /\ ctl.state # "terminating" /\ desired[t] # "terminated"
          /\ ledger[e].desired = desired[t] /\ ledger[e].desired # "terminated"
  BY <1>1, <1>2, SeenIs
<1> HIDE DEF at
<1>3. /\ t \in Exec /\ Owner(t) /\ desired[t] \in Intent /\ Registered(t) /\ state[t] \in State \ {"absent"}
      /\ state[t] # "completed"
  BY <1>1, <1>2, OwnTask DEF RunInv, LedgerInv, TypeOK
<1>4. /\ st \in Final /\ Exits' /\ drv[e] \notin {"new", "starting"}
      /\ drv' \in [Exec -> {"new", "starting", "bound", "running", "stopping", "ending", "returned",
                            "over", "dead"}]
      /\ sweep' \in [at : {"idle", "listed", "drained"}, exec : Exec \cup {NoAttempt}]
      /\ drv'[e] = drv[e] \/ (drv[e] = "returned" /\ drv'[e] = "over")
      /\ \A n \in Exec : n # e => drv'[n] = drv[n]
  BY FinishDrivers
<1>5. /\ \A n \in Exec : ledger'[n].desired = ledger[n].desired
      /\ ledger' \in [Exec -> [desired : Intent \cup {"none"}, ended : BOOLEAN]]
  <2> DEFINE row == [ledger[e] EXCEPT !.ended = TRUE]
  <2>1. row \in [desired : Intent \cup {"none"}, ended : BOOLEAN] /\ row.desired = ledger[e].desired
    <3>1. ledger[e] \in [desired : Intent \cup {"none"}, ended : BOOLEAN]
      BY DEF RunInv, ThreadInv, ThreadTypes
    <3>2. QED
      BY <3>1
  <2>2. ledger' = [ledger EXCEPT ![e] = row]
    BY <1>1
  <2> HIDE DEF row
  <2>3. QED
    BY <2>1, <2>2 DEF RunInv, ThreadInv, ThreadTypes
<1>6. sweep' = sweep \/ sweep' = NoSweep
  BY DEF FinishedBy
<1>7. ASSUME NEW x \in RunState, NEW p \in Final \cup {"none"}, ctl' = [ctl EXCEPT !.state = x, !.pend = p],
             x # "none", status' \in Final \cup {"busy", "pausing", "paused"},
             lease' \in {lease, NoLease}, asked' \in BOOLEAN
      PROVE  /\ ThreadTypes'
             /\ ctl'.exec = e /\ ctl'.state = x /\ ~ctl'.claimed /\ ctl'.ticket = ctl.ticket
             /\ ctl'.pend = p /\ ctl'.saved = ctl.saved
  <2>1. ctl' \in [exec : Exec \cup {NoAttempt}, state : RunState, saved : BOOLEAN, claimed : BOOLEAN,
                  ticket : Exec \cup {NoAttempt}, pend : Final \cup {"none"}, pid : BOOLEAN]
    BY <1>7 DEF RunInv, ThreadInv, ThreadTypes
  <2>2. /\ ctl'.exec = e /\ ctl'.state = x /\ ~ctl'.claimed /\ ctl'.ticket = ctl.ticket
        /\ ctl'.pend = p /\ ctl'.saved = ctl.saved
    BY <1>1, <1>7 DEF RunInv, ThreadInv, ThreadTypes
  <2>3. lease' \in [exec : Exec \cup {NoAttempt}, by : Exec \cup {NoAttempt}, live : BOOLEAN]
    <3>1. NoLease \in [exec : Exec \cup {NoAttempt}, by : Exec \cup {NoAttempt}, live : BOOLEAN]
      BY DEF NoLease
    <3>2. QED
      BY <1>7, <3>1 DEF RunInv, ThreadInv, ThreadTypes
  <2>4. QED
    BY <1>1, <1>4, <1>5, <1>7, <2>1, <2>2, <2>3, ExecFacts DEF RunInv, ThreadInv, ThreadTypes
<1>8. ASSUME UNCHANGED taskVars, ctl'.exec = e, ~ctl'.claimed, ctl'.state \notin {"paused", "input_wait"},
             ctl'.state = "terminating" => at = "terminating"
      PROVE  Tree' /\ Held'
  <2>1. Tree'
    BY <1>8 DEF RunInv, Tree, taskVars
  <2>2. Held'
    <3>1. attempts[t] \subseteq Exec /\ attempts' = attempts /\ desired' = desired
      BY <1>3, <1>8, ExecFacts DEF RunInv, LedgerInv, TypeOK, Exec, taskVars, treeVars, execVars
    <3>2. Agreed(t)'
      BY <1>1, <1>3, <1>5, <1>8, <1>seen, <3>1 DEF Owner, Agreed
    <3>3. QED
      BY <1>1, <1>3, <1>8, <3>2, HeldKept DEF RunInv, taskVars, Owner, Registered
  <2>3. QED
    BY <2>1, <2>2
<1>9. ASSUME Receipt(t, "paused", NoToken), ctl'.exec = e, ~ctl'.claimed, ctl'.state # "terminating",
             at # "terminating"
      PROVE  Tree' /\ Held'
  <2>1. /\ Tree' /\ UNCHANGED current /\ state'[t] = "paused" /\ desired'[t] = desired[t]
        /\ \A u \in Exec : u # t => state'[u] = state[u]
    BY <1>3, <1>9, TaskOps DEF RunInv, LedgerInv, State, Receipts
  <2>2. QED
    <3>1. Agreed(t)'
      BY <1>1, <1>5, <1>9, <1>seen, <2>1 DEF Agreed
    <3>2. QED
      BY <1>1, <1>3, <1>9, <2>1, <3>1, HeldKept DEF RunInv, Owner
<1>10. CASE /\ at \in {"running", "pausing"} /\ input
            /\ ctl' = [ctl EXCEPT !.state = "input_wait"] /\ status' = "interrupted" /\ lease' = NoLease
            /\ asked' = asked /\ Receipt(t, "paused", NoToken)
  <2>1. /\ ThreadTypes'
        /\ ctl'.exec = e /\ ctl'.state = "input_wait" /\ ~ctl'.claimed /\ ctl'.ticket = ctl.ticket
        /\ ctl'.saved = ctl.saved
    <3>1. ctl' = [ctl EXCEPT !.state = "input_wait", !.pend = ctl.pend]
      BY <1>10 DEF RunInv, ThreadInv, ThreadTypes
    <3>2. QED
      BY <1>7, <1>10, <3>1 DEF RunInv, ThreadInv, ThreadTypes, RunState, Final
  <2>2. drv[e] = "returned" /\ exit[e] = "input" /\ drv'[e] = "over" /\ sweep' = sweep
    BY <1>10 DEF FinishedBy, RunInv, ThreadInv, ThreadTypes
  <2>3. Mode'
    <3>1. ctl.state = "running" => ledger[e].desired = "running"
      BY <1>1, <1>10, <1>seen, ExecFacts DEF RunInv, ThreadInv, Mode
    <3>2. ctl.state = "pausing" => ~ctl.saved
      BY <1>1, <2>2, ExecFacts DEF RunInv, ThreadInv, Mode
    <3>3. QED
      BY <1>5, <1>10, <1>seen, <2>1, <2>2, <3>1, <3>2 DEF Mode
  <2>4. Ticket'
    <3>1. ASSUME NEW n \in Exec, ctl'.ticket = n
          PROVE  drv'[n] \notin {"starting", "bound"}
      BY <1>1, <1>4, <1>10, <1>seen, <2>1, <2>2, <3>1 DEF RunInv, ThreadInv, Ticket
    <3>2. QED
      BY <3>1 DEF Ticket
  <2>5. ToolsInv'
    BY <1>1, <1>4, <2>1, <2>2 DEF RunInv, ThreadInv, ToolsInv
  <2>6. SweepInv'
    <3>1. ctl.state = "running" => sweep.at = "idle" \/ sweep.exec # e
      BY <1>1 DEF RunInv, ThreadInv, SweepInv
    <3>2. ctl.state = "pausing" => ledger[e].desired \in {"paused", "terminated"}
      BY <1>1, ExecFacts DEF RunInv, ThreadInv, Mode
    <3>3. sweep.at # "idle" => sweep.exec \in Exec /\ drv'[sweep.exec] \notin {"new", "starting"}
      BY <1>4, <2>2 DEF RunInv, ThreadInv, SweepInv
    <3>4. QED
      BY <1>5, <1>10, <1>seen, <2>1, <2>2, <3>1, <3>2, <3>3 DEF SweepInv
  <2>7. QED
    BY <1>4, <1>9, <1>10, <1>seen, <2>1, <2>3, <2>4, <2>5, <2>6 DEF ThreadInv
<1>11. CASE /\ at \in {"running", "settling"} /\ ~(ctl.state = "running" /\ input)
            /\ ctl' = [ctl EXCEPT !.state = "settling", !.pend = IF ctl.state = "settling" THEN ctl.pend ELSE st]
            /\ status' = "busy" /\ UNCHANGED <<taskVars, lease, asked>>
  <2> DEFINE p == IF ctl.state = "settling" THEN ctl.pend ELSE st
  <2>1. p \in Final \cup {"none"}
    BY <1>4 DEF RunInv, ThreadInv, ThreadTypes
  <2>2. /\ ThreadTypes'
        /\ ctl'.exec = e /\ ctl'.state = "settling" /\ ~ctl'.claimed /\ ctl'.ticket = ctl.ticket
        /\ ctl'.pend = p
    BY <1>7, <1>11, <2>1, ZenonT(40) DEF RunInv, ThreadInv, ThreadTypes, RunState
  <2>3. drv'[e] \in {"over", "dead"} /\ p = exit[e] /\ p # "none" /\ drv[e] # "bound"
    <3>1. CASE ctl.state = "settling"
      BY <1>1, <1>4, <3>1, ExecFacts DEF RunInv, ThreadInv, Mode
    <3>2. CASE ctl.state = "running"
      <4>1. drv[e] = "returned" /\ drv' = [drv EXCEPT ![e] = "over"] /\ st = exit[e]
        BY <1>1, <1>11, <3>2 DEF FinishedBy, RunInv, ThreadInv, SweepInv
      <4>2. drv'[e] = "over"
        BY <4>1 DEF RunInv, ThreadInv, ThreadTypes
      <4>3. QED
        BY <1>4, <3>2, <4>1, <4>2 DEF Final
    <3>3. QED
      BY <1>11, <1>seen, <3>1, <3>2
  <2>4. Mode'
    BY <1>5, <2>2, <2>3 DEF Mode
  <2>5. Ticket'
    <3>1. ASSUME NEW n \in Exec, ctl'.ticket = n
          PROVE  drv'[n] \notin {"starting", "bound"}
      BY <1>1, <1>4, <1>11, <1>seen, <2>2, <2>3, <3>1 DEF RunInv, ThreadInv, Ticket
    <3>2. QED
      BY <3>1 DEF Ticket
  <2>6. ToolsInv'
    BY <1>1, <1>4, <2>2 DEF RunInv, ThreadInv, ToolsInv
  <2>7. SweepInv'
    BY <1>4, <1>6, <2>2 DEF RunInv, ThreadInv, SweepInv, NoSweep
  <2>8. QED
    BY <1>4, <1>8, <1>11, <2>2, <2>4, <2>5, <2>6, <2>7 DEF ThreadInv
<1>12. CASE /\ at \in {"pausing", "terminating"} /\ ctl' = [ctl EXCEPT !.state = at]
            /\ (status' = "busy" \/ status' = status) /\ UNCHANGED <<taskVars, lease, asked>>
  <2>1. /\ ThreadTypes'
        /\ ctl'.exec = e /\ ctl'.state = at /\ ~ctl'.claimed /\ ctl'.ticket = ctl.ticket
        /\ ctl'.pend = ctl.pend /\ ctl'.saved = ctl.saved
    <3>1. ctl' = [ctl EXCEPT !.state = at, !.pend = ctl.pend]
      BY <1>12 DEF RunInv, ThreadInv, ThreadTypes
    <3>2. at \in RunState /\ at # "none" /\ ctl.pend \in Final \cup {"none"}
      BY <1>12 DEF RunInv, ThreadInv, ThreadTypes, RunState
    <3>3. /\ status' \in Final \cup {"busy", "pausing", "paused"}
          /\ lease' \in {lease, NoLease} /\ asked' \in BOOLEAN
      BY <1>12 DEF RunInv, ThreadInv, ThreadTypes
    <3>4. QED
      BY <1>7, <3>1, <3>2, <3>3
  <2>2. Mode'
    BY <1>1, <1>4, <1>5, <1>12, <1>seen, <2>1, ExecFacts DEF RunInv, ThreadInv, Mode, Gone
  <2>3. Ticket'
    <3>1. \A n \in Exec : Continues(n) => Continues(n)'
      <4>1. UNCHANGED <<attempts, desired>>
        BY <1>12 DEF taskVars, treeVars, execVars
      <4>2. \A n \in Exec : Continues(n) => origin[n] \in Exec
        BY ExecFacts DEF Continues, RunInv, LedgerInv, TypeOK, Exec
      <4>3. QED
        BY <1>5, <4>1, <4>2 DEF Continues
    <3>2. QED
      BY <1>1, <1>4, <1>12, <1>seen, <2>1, <3>1 DEF RunInv, ThreadInv, Ticket, Gone
  <2>4. ToolsInv'
    BY <1>1, <1>4, <1>12, <2>1 DEF RunInv, ThreadInv, ToolsInv
  <2>5. SweepInv'
    BY <1>4, <1>5, <1>6, <1>12, <2>1 DEF RunInv, ThreadInv, SweepInv, NoSweep
  <2>6. QED
    BY <1>1, <1>4, <1>8, <1>12, <2>1, <2>2, <2>3, <2>4, <2>5 DEF ThreadInv
<1>13. CASE /\ at = "pausing" /\ ctl.saved /\ tool[e] = "none"
            /\ ctl' = [ctl EXCEPT !.state = "paused"] /\ status' = "paused" /\ lease' = NoLease
            /\ asked' = asked /\ Receipt(t, "paused", NoToken)
  <2>1. /\ ThreadTypes'
        /\ ctl'.exec = e /\ ctl'.state = "paused" /\ ~ctl'.claimed /\ ctl'.ticket = ctl.ticket
    <3>1. ctl' = [ctl EXCEPT !.state = "paused", !.pend = ctl.pend]
      BY <1>13 DEF RunInv, ThreadInv, ThreadTypes
    <3>2. QED
      BY <1>7, <1>13, <3>1 DEF RunInv, ThreadInv, ThreadTypes, RunState
  <2>2. ledger[e].desired \in {"paused", "terminated"} /\ drv[e] \in Gone
    BY <1>1, <1>13, <1>seen, ExecFacts DEF RunInv, ThreadInv, Mode
  <2>3. drv'[e] \in Gone /\ drv'[e] \notin {"new", "starting"}
    BY <1>4, <2>2 DEF Gone
  <2>4. Mode'
    BY <1>5, <2>1, <2>2, <2>3 DEF Mode
  <2>5. Ticket'
    <3>1. ASSUME NEW n \in Exec, ctl'.ticket = n
          PROVE  drv'[n] \notin {"starting", "bound"}
      BY <1>1, <1>4, <1>13, <1>seen, <2>1, <3>1 DEF RunInv, ThreadInv, Ticket
    <3>2. QED
      BY <3>1 DEF Ticket
  <2>6. ToolsInv'
    BY <1>1, <1>13 DEF RunInv, ThreadInv, ToolsInv
  <2>7. SweepInv'
    BY <1>4, <1>6, <2>1 DEF RunInv, ThreadInv, SweepInv, NoSweep
  <2>8. QED
    BY <1>4, <1>9, <1>13, <2>1, <2>4, <2>5, <2>6, <2>7 DEF ThreadInv
<1>14. CASE /\ tool[e] = "none" /\ ctl' = NoRun /\ lease' = NoLease /\ asked' = FALSE
            /\ status' = Shown(t, st)
            /\ Receipt(t, "completed", NoToken)
  <2>1. status' \in Final
    <3>1. ctl.state = "settling" => ctl.pend \in Final
      BY <1>1, ExecFacts DEF RunInv, ThreadInv, ThreadTypes, Mode
    <3>2. CASE at = "terminating"
      BY <1>14, <3>2 DEF Final, Shown, at
    <3>3. CASE at # "terminating" /\ ctl.state = "settling"
      BY <1>14, <3>1, <3>3 DEF Shown, at
    <3>4. CASE at # "terminating" /\ ctl.state # "settling"
      BY <1>4, <1>14, <3>4 DEF Shown, at
    <3>5. QED
      BY <3>2, <3>3, <3>4
  <2>2. ThreadTypes'
    <3>1. /\ ctl' \in [exec : Exec \cup {NoAttempt}, state : RunState, saved : BOOLEAN, claimed : BOOLEAN,
                       ticket : Exec \cup {NoAttempt}, pend : Final \cup {"none"}, pid : BOOLEAN]
          /\ ctl'.exec = NoAttempt /\ ctl'.state = "none"
      BY <1>14 DEF NoRun, RunState
    <3>2. lease' \in [exec : Exec \cup {NoAttempt}, by : Exec \cup {NoAttempt}, live : BOOLEAN]
      BY <1>14 DEF NoLease
    <3>3. QED
      BY <1>4, <1>5, <1>14, <2>1, <3>1, <3>2 DEF RunInv, ThreadInv, ThreadTypes
  <2>3. /\ Tree' /\ state'[t] = "completed" /\ \A u \in Exec : u # t => state'[u] = state[u]
    BY <1>3, <1>14, TaskOps DEF RunInv, LedgerInv, State, Receipts
  <2>4. Held'
    BY <1>3, <1>14, <2>3, HeldFreed DEF Owner
  <2>5. Mode' /\ Ticket'
    BY <1>14, ExecFacts DEF NoRun, Mode, Ticket
  <2>6. ToolsInv'
    BY <1>1, <1>14 DEF RunInv, ThreadInv, ToolsInv
  <2>7. SweepInv'
    BY <1>4, <1>6, <1>14 DEF RunInv, ThreadInv, SweepInv, NoSweep, NoRun
  <2>8. QED
    BY <1>4, <2>2, <2>3, <2>4, <2>5, <2>6, <2>7 DEF ThreadInv
<1>15. QED
  BY <1>2, <1>10, <1>11, <1>12, <1>13, <1>14, <1>seen DEF Ending, at

\* Both callers of finish(), as one: somebody finished x.
LEMMA Finishers ==
  ASSUME RunInv, (\E x \in Exec : OwnerFinish(x)) \/ SweepFinish
  PROVE  \E x \in Exec, st \in Final, input \in BOOLEAN :
           FinishedBy(x, st, input) /\ FinishTx(x, st, input) /\ UNCHANGED <<tool, exit, origin>>
<1>1. ASSUME NEW x \in Exec, OwnerFinish(x)
      PROVE  \E st \in Final, input \in BOOLEAN :
               FinishedBy(x, st, input) /\ FinishTx(x, st, input) /\ UNCHANGED <<tool, exit, origin>>
  <2>1. CASE exit[x] = "input"
    <3>1. FinishTx(x, "interrupted", TRUE) /\ FinishedBy(x, "interrupted", TRUE)
      BY <1>1, <2>1 DEF OwnerFinish, FinishedBy, Goto
    <3>2. QED
      BY <1>1, <3>1 DEF OwnerFinish, Final
  <2>2. CASE exit[x] # "input"
    <3>1. FinishTx(x, exit[x], FALSE) /\ FinishedBy(x, exit[x], FALSE)
      BY <1>1, <2>2 DEF OwnerFinish, FinishedBy, Goto
    <3>2. exit[x] \in Final
      BY <1>1, <2>2 DEF OwnerFinish, RunInv, ThreadInv, ThreadTypes, Exits
    <3>3. QED
      BY <1>1, <3>1, <3>2 DEF OwnerFinish
  <2>3. QED
    BY <2>1, <2>2
<1>2. CASE SweepFinish
  <2>1. /\ sweep.exec \in Exec /\ FinishTx(sweep.exec, "interrupted", FALSE)
        /\ FinishedBy(sweep.exec, "interrupted", FALSE) /\ UNCHANGED <<tool, exit, origin>>
    BY <1>2 DEF SweepFinish, FinishedBy, RunInv, ThreadInv, SweepInv, driverVars
  <2>2. QED
    BY <2>1 DEF Final
<1>3. QED
  BY <1>1, <1>2

\* finish() keeps the invariant, whoever calls it.
LEMMA FinishSteps ==
  ASSUME RunInv, (\E e \in Exec : OwnerFinish(e)) \/ SweepFinish
  PROVE  Tree' /\ Held' /\ ThreadInv'
  BY Finishers, RefusedStep, FinishStep

(***************************************************************************)
(* Recovery                                                                *)
(***************************************************************************)
\* A lost owner's run is closed when nothing of it is left, and stopped otherwise.
LEMMA RecoverStep ==
  ASSUME RunInv, Recover
  PROVE  Tree' /\ Held' /\ ThreadInv'
<1> DEFINE e == ctl.exec
<1>1. UNCHANGED <<tool, drv, exit, origin, sweep>> /\ Expired
  BY DEF Recover, Recoverable, driverVars
<1>2. PICK t \in TaskOf(e) :
        \/ /\ OrphanSettled(e, t)
           /\ ledger' = [ledger EXCEPT ![e] = [desired |-> "terminated", ended |-> TRUE]]
           /\ Retire(t) /\ ctl' = NoRun /\ status' = "error" /\ lease' = NoLease /\ asked' = FALSE
        \/ /\ ledger' = [ledger EXCEPT ![e] = Intend(e, "terminated", FALSE)]
           /\ Change(t, "terminated") /\ ctl' = [ctl EXCEPT !.state = "terminating"]
           /\ status' = "busy" /\ UNCHANGED <<lease, asked>>
  BY DEF Recover, SetLedger
<1>3. /\ e \in Exec /\ t \in Exec /\ Owner(t) /\ Registered(t) /\ state[t] \in State \ {"absent"}
      /\ e \in attempts[t]
  BY <1>2, OwnTask DEF RunInv, LedgerInv, TypeOK
<1>4. CASE /\ OrphanSettled(e, t)
           /\ ledger' = [ledger EXCEPT ![e] = [desired |-> "terminated", ended |-> TRUE]]
           /\ Retire(t) /\ ctl' = NoRun /\ status' = "error" /\ lease' = NoLease /\ asked' = FALSE
  <2>1. /\ Tree' /\ state'[t] = "completed" /\ \A u \in Exec : u # t => state'[u] = state[u]
    BY <1>3, <1>4, TaskOps DEF RunInv, LedgerInv, State, Receipts, Intent
  <2>2. Held'
    BY <1>3, <1>4, <2>1, HeldFreed DEF Owner
  <2>3. ThreadTypes'
    <3>1. /\ ctl' \in [exec : Exec \cup {NoAttempt}, state : RunState, saved : BOOLEAN, claimed : BOOLEAN,
                       ticket : Exec \cup {NoAttempt}, pend : Final \cup {"none"}, pid : BOOLEAN]
          /\ ctl'.exec = NoAttempt /\ ctl'.state = "none"
      BY <1>4 DEF NoRun, RunState
    <3>2. lease' \in [exec : Exec \cup {NoAttempt}, by : Exec \cup {NoAttempt}, live : BOOLEAN]
      BY <1>4 DEF NoLease
    <3>3. ledger' \in [Exec -> [desired : Intent \cup {"none"}, ended : BOOLEAN]]
      BY <1>4 DEF RunInv, ThreadInv, ThreadTypes, Intent
    <3>4. QED
      BY <1>1, <1>4, <3>1, <3>2, <3>3 DEF RunInv, ThreadInv, ThreadTypes, Final
  <2>4. Exits' /\ Mode' /\ Ticket'
    BY <1>1, <1>4, ExecFacts DEF NoRun, RunInv, ThreadInv, Exits, Mode, Ticket
  <2>5. ToolsInv'
    <3>1. tool[e] = "none"
      BY <1>3, <1>4 DEF OrphanSettled
    <3>2. QED
      BY <1>1, <3>1 DEF RunInv, ThreadInv, ToolsInv
  <2>6. SweepInv'
    BY <1>1, <1>4 DEF NoRun, RunInv, ThreadInv, SweepInv
  <2>7. QED
    BY <2>1, <2>2, <2>3, <2>4, <2>5, <2>6 DEF ThreadInv
<1>5. CASE /\ ledger' = [ledger EXCEPT ![e] = Intend(e, "terminated", FALSE)]
           /\ Change(t, "terminated") /\ ctl' = [ctl EXCEPT !.state = "terminating"]
           /\ status' = "busy" /\ UNCHANGED <<lease, asked>>
  <2>1. PICK b \in BOOLEAN : ledger' = [ledger EXCEPT ![e] = [desired |-> "terminated", ended |-> b]]
    <3>1. CASE ledger[e].desired = "terminated"
      <4>1. ledger[e] = [desired |-> "terminated", ended |-> ledger[e].ended] /\ ledger[e].ended \in BOOLEAN
        BY <1>3, <3>1 DEF RunInv, ThreadInv, ThreadTypes
      <4>2. QED
        BY <1>5, <3>1, <4>1 DEF Intend
    <3>2. CASE ledger[e].desired # "terminated"
      <4>1. Intend(e, "terminated", FALSE) = [desired |-> "terminated", ended |-> ledger[e].ended]
            /\ ledger[e].ended \in BOOLEAN
        BY <1>3, <3>2 DEF Intend, RunInv, ThreadInv, ThreadTypes
      <4>2. QED
        BY <1>5, <4>1
    <3>3. QED
      BY <3>1, <3>2
  <2>2. ctl' = [ctl EXCEPT !.state = "terminating", !.claimed = ctl.claimed] /\ ctl.claimed \in BOOLEAN
        /\ asked' \in BOOLEAN
    BY <1>5 DEF RunInv, ThreadInv, ThreadTypes
  <2>3. QED
    BY <1>1, <1>5, <2>1, <2>2, StopStep
<1>6. QED
  BY <1>2, <1>4, <1>5

(***************************************************************************)
(* The invariant                                                           *)
(***************************************************************************)
\* The free thread, before anything ran.
LEMMA RunInvInit == TRInit => RunInv
<1> SUFFICES ASSUME TRInit PROVE RunInv
  OBVIOUS
<1>1. LedgerInv
  BY LedgerInvInit DEF TRInit
<1>2. Tree
  BY ExecFacts DEF TRInit, TaskInit, Tree
<1>3. Held
  BY ExecFacts DEF TRInit, TaskInit, Held, OpenTasks, NoRun
<1>4. ThreadTypes
  <2>1. ctl \in [exec : Exec \cup {NoAttempt}, state : RunState, saved : BOOLEAN, claimed : BOOLEAN,
                 ticket : Exec \cup {NoAttempt}, pend : Final \cup {"none"}, pid : BOOLEAN]
    BY DEF TRInit, NoRun, RunState
  <2>2. /\ lease \in [exec : Exec \cup {NoAttempt}, by : Exec \cup {NoAttempt}, live : BOOLEAN]
        /\ sweep \in [at : {"idle", "listed", "drained"}, exec : Exec \cup {NoAttempt}]
    BY DEF TRInit, NoLease, NoSweep
  <2>3. ledger \in [Exec -> [desired : Intent \cup {"none"}, ended : BOOLEAN]]
    BY DEF TRInit
  <2>4. QED
    BY <2>1, <2>2, <2>3 DEF TRInit, NoRun, ThreadTypes, Final
<1>5. Exits /\ Mode /\ Ticket /\ ToolsInv /\ SweepInv
  BY ExecFacts DEF TRInit, NoRun, NoSweep, Exits, Mode, Ticket, ToolsInv, SweepInv
<1>6. QED
  BY <1>1, <1>2, <1>3, <1>4, <1>5 DEF RunInv, ThreadInv

\* Every step keeps it.
LEMMA RunInvStep == RunInv /\ [TRNext]_trVars => RunInv'
<1> SUFFICES ASSUME RunInv, [TRNext]_trVars PROVE RunInv'
  OBVIOUS
<1>1. LedgerInv'
  BY StepsLedger, LedgerInvStep DEF RunInv
<1>2. ASSUME NEW e \in Exec,
             \/ Start(e) \/ StartInput(e) \/ RequestPause(e) \/ Cancel(e) \/ Terminate(e)
             \/ ClaimResume(e)
      PROVE  Tree' /\ Held' /\ ThreadInv'
  BY <1>2, StartStep, InputStep, PauseStep, CancelStop, TerminateStep, ClaimStep
<1>3. ASSUME NEW e \in Exec,
             GraphStep(e) \/ StageCheckpoint(e) \/ BeginGraph(e) \/ AdmitTool(e) \/ SettleTool(e) \/ Crash(e)
      PROVE  Tree' /\ Held' /\ ThreadInv'
  BY <1>3, DriverSteps, CheckpointStep, BeginStep, ToolSteps, CrashStep
<1>4. ASSUME NEW e \in Exec, BindResumed(e) \/ ReleaseResume(e)
      PROVE  Tree' /\ Held' /\ ThreadInv'
  BY <1>4, BindStep, ReleaseLate, ReleaseHeld
<1>5. ASSUME (\E e \in Exec : OwnerFinish(e)) \/ SweepFinish
      PROVE  Tree' /\ Held' /\ ThreadInv'
  BY <1>5, FinishSteps
<1>6. ASSUME ListStopping \/ CheckDrained \/ ExpireLease
      PROVE  Tree' /\ Held' /\ ThreadInv'
  BY <1>6, WatchSteps
<1>7. ASSUME KidStep
      PROVE  Tree' /\ Held' /\ ThreadInv'
  BY <1>7, KidThread
<1>8. ASSUME Recover
      PROVE  Tree' /\ Held' /\ ThreadInv'
  BY <1>8, RecoverStep
<1>9. ASSUME UNCHANGED trVars
      PROVE  Tree' /\ Held' /\ ThreadInv'
  <2>1. UNCHANGED <<taskVars, ctl, status, lease, ledger, tool, drv, exit, origin, sweep, asked>>
    BY <1>9 DEF trVars, threadVars, driverVars
  <2>2. Tree'
    BY <2>1 DEF RunInv, Tree, taskVars
  <2>3. Held'
    BY <2>1, HeldSame DEF taskVars
  <2>4. ThreadInv'
    BY <2>1 DEF RunInv, ThreadInv, ThreadTypes, Exits, Mode, Ticket, Continues, taskVars, ToolsInv, SweepInv
  <2>5. QED
    BY <2>2, <2>3, <2>4
<1>10. Tree' /\ Held' /\ ThreadInv'
  BY <1>2, <1>3, <1>4, <1>5, <1>6, <1>7, <1>8, <1>9 DEF TRNext, Driver, Maintain
<1>11. QED
  BY <1>1, <1>10 DEF RunInv

\* The invariant holds in every state.
LEMMA RunInvariant == TRSpec => []RunInv
  BY RunInvInit, RunInvStep, PTL DEF TRSpec

(***************************************************************************)
(* Theorems                                                                *)
(***************************************************************************)
\* The thread row, its lease, the execution rows and the drivers keep their types.
THEOREM ThreadTypeCorrect == TRSpec => []TRTypeOK
<1>1. RunInv => TRTypeOK
  BY DEF RunInv, LedgerInv, ThreadInv, ThreadTypes, TRTypeOK
<1>2. QED
  BY <1>1, RunInvariant, PTL

\* The thread is occupied exactly while one execution task is open, that task runs as
\* the thread's execution, and a pause or an input wait has parked it.
THEOREM ThreadAgrees == TRSpec => []ThreadMatchesTask
<1>1. RunInv => ThreadMatchesTask
  <2> SUFFICES ASSUME RunInv PROVE ThreadMatchesTask
    OBVIOUS
  <2>1. CASE ctl.exec = NoAttempt
    BY <2>1 DEF RunInv, Held, ThreadMatchesTask
  <2>2. CASE ctl.exec # NoAttempt
    <3>1. PICK t \in Exec : Owner(t)
      BY <2>2 DEF RunInv, Held
    <3>2. ctl # NoRun /\ t \in Task
      BY <2>2, <3>1, ExecFacts DEF NoRun
    <3>3. QED
      BY <3>1, <3>2 DEF Owner, ThreadMatchesTask
  <2>3. QED
    BY <2>1, <2>2
<1>2. QED
  BY <1>1, RunInvariant, PTL

\* The execution ledger and the task ledger agree on what the current execution is to do,
\* and the thread is stopped only with its task; they differ only when the task was
\* terminated, and then one of the task's executions was.
THEOREM IntentsNeverDisagree == TRSpec => []IntentsAgree
<1>1. RunInv => IntentsAgree
  <2> SUFFICES ASSUME RunInv, NEW t \in Task, ctl.exec # NoAttempt, ctl.exec \in attempts[t]
               PROVE  Agreed(t)
    BY DEF IntentsAgree, Agreed
  <2>1. t \in TaskOf(ctl.exec)
    BY DEF TaskOf
  <2>2. QED
    BY <2>1, OwnTask DEF RunInv, LedgerInv, Owner
<1>2. QED
  BY <1>1, RunInvariant, PTL

\* No tool call outlives its execution's hold of the thread.
THEOREM RunsDoNotOverlap == TRSpec => []NoOverlap
<1>1. RunInv => NoOverlap
  BY DEF RunInv, ThreadInv, ToolsInv, NoOverlap
<1>2. QED
  BY <1>1, RunInvariant, PTL

\* The thread service is a client of the task ledger: it only makes its steps.
THEOREM RunsAreLedgerClient == TRSpec => OnlyLedgerSteps
<1>1. RunInv /\ [TRNext]_trVars => [TaskNext]_taskVars
  BY StepsLedger
<1>2. QED
  BY <1>1, RunInvariant, PTL DEF TRSpec, OnlyLedgerSteps

\* Only finish(), by the owner or by maintenance, and recovery free an occupied thread.
LEMMA Freeing ==
  ASSUME RunInv, [TRNext]_trVars, ctl.exec # NoAttempt, ctl' = NoRun
  PROVE  \/ \E x \in Exec : OwnerFinish(x)
         \/ SweepFinish
         \/ Recover
<1>1. ctl'.exec = NoAttempt
  BY DEF NoRun
<1>2. ASSUME NEW x \in Exec,
             \/ Start(x) \/ StartInput(x) \/ RequestPause(x) \/ Cancel(x) \/ Terminate(x)
             \/ ClaimResume(x) \/ BindResumed(x) \/ ReleaseResume(x) \/ StageCheckpoint(x)
      PROVE  ctl'.exec # NoAttempt
  <2>1. CASE Start(x)
    BY <2>1 DEF Start, NoRun
  <2>2. CASE StartInput(x)
    BY <2>2 DEF StartInput, RunInv, ThreadInv, ThreadTypes
  <2>3. CASE RequestPause(x)
    BY <2>3 DEF RequestPause, threadVars, RunInv, ThreadInv, ThreadTypes
  <2>4. CASE Cancel(x)
    BY <2>4 DEF Cancel, RunInv, ThreadInv, ThreadTypes
  <2>5. CASE ClaimResume(x)
    BY <2>5 DEF ClaimResume, RunInv, ThreadInv, ThreadTypes
  <2>6. CASE BindResumed(x)
    BY <2>6, ExecFacts DEF BindResumed, RunInv, ThreadInv, ThreadTypes
  <2>7. CASE ReleaseResume(x) /\ HoldsClaim(x) /\ ~CannotRelease
    <3>1. PICK old \in Exec : ctl' = [ctl EXCEPT !.exec = old, !.state = "paused", !.claimed = FALSE,
                                                 !.ticket = NoAttempt]
      BY <2>7 DEF ReleaseResume
    <3>2. QED
      BY <3>1, ExecFacts DEF RunInv, ThreadInv, ThreadTypes
  <2>8. CASE ReleaseResume(x) /\ (~HoldsClaim(x) \/ CannotRelease)
    BY <2>8 DEF ReleaseResume, threadVars
  <2>9. CASE StageCheckpoint(x)
    BY <2>9 DEF StageCheckpoint, RunInv, ThreadInv, ThreadTypes
  <2>10. CASE Terminate(x)
    BY <2>10 DEF Terminate, threadVars
  <2>11. QED
    BY <1>2, <2>1, <2>2, <2>3, <2>4, <2>5, <2>6, <2>7, <2>8, <2>9, <2>10
<1>3. ASSUME NEW x \in Exec, GraphStep(x) \/ BeginGraph(x) \/ AdmitTool(x) \/ SettleTool(x) \/ Crash(x)
      PROVE  UNCHANGED ctl
  BY <1>3 DEF GraphStep, BeginGraph, AdmitTool, SettleTool, Crash, threadVars
<1>4. ASSUME KidStep \/ ListStopping \/ CheckDrained \/ ExpireLease \/ UNCHANGED trVars
      PROVE  UNCHANGED ctl
  BY <1>4 DEF KidStep, ListStopping, CheckDrained, ExpireLease, trVars, threadVars
<1>5. QED
  BY <1>1, <1>2, <1>3, <1>4 DEF TRNext, Driver, Maintain

\* A finish that frees the thread was not refused, and no operation of its caller is pending.
LEMMA FreedBy ==
  ASSUME RunInv, ctl.exec # NoAttempt, ctl' = NoRun,
         NEW x \in Exec, NEW st, NEW input \in BOOLEAN, FinishedBy(x, st, input), FinishTx(x, st, input)
  PROVE  /\ ~FinishRefused(x) /\ x = ctl.exec /\ ~ctl.claimed /\ ctl.state \notin {"paused", "input_wait"}
         /\ \E t \in TaskOf(ctl.exec) : ~(Seen(t) = "running" /\ input) /\ status' = Shown(t, st)
<1>1. ctl # NoRun /\ ctl'.state = "none" /\ ctl.state # "none"
  BY DEF NoRun, RunInv, ThreadInv, ThreadTypes
<1>2. ~FinishRefused(x)
  BY <1>1 DEF FinishTx, threadVars
<1>3. /\ x = ctl.exec /\ ~ctl.claimed /\ ctl.state \notin {"paused", "input_wait"}
      /\ \E t \in TaskOf(x) : Ending(x, t, st, input)
  BY <1>2, FinishEndings
<1>4. /\ [ctl EXCEPT !.state = "input_wait"].state = "input_wait"
      /\ [ctl EXCEPT !.state = "paused"].state = "paused"
      /\ \A p : [ctl EXCEPT !.state = "settling", !.pend = p].state = "settling"
  BY DEF RunInv, ThreadInv, ThreadTypes
<1>5. PICK t \in TaskOf(ctl.exec) : Ending(x, t, st, input)
  BY <1>3
<1>6. Seen(t) \in {"pausing", "terminating"} => [ctl EXCEPT !.state = Seen(t)].state # "none"
  BY DEF RunInv, ThreadInv, ThreadTypes
<1>7. ~(Seen(t) = "running" /\ input) /\ status' = Shown(t, st)
  BY <1>1, <1>4, <1>5, <1>6 DEF Ending
<1>8. QED
  BY <1>2, <1>3, <1>7

\* A step that frees the thread of an execution that is over, and whose lease is good,
\* shows the status its owner reported.
LEMMA StatusStep ==
  ASSUME RunInv, [TRNext]_trVars, NEW e \in Exec, ctl.exec = e,
         ~Stopping(e), ctl.state # "pausing", ~Expired, ctl' = NoRun, drv'[e] = "over"
  PROVE  status' = exit[e]
<1>1. ctl.exec # NoAttempt
  BY ExecFacts
<1>2. ~Recover
  BY DEF Recover, Recoverable
<1>3. PICK x \in Exec, st \in Final, input \in BOOLEAN : FinishedBy(x, st, input) /\ FinishTx(x, st, input)
  BY <1>1, <1>2, Freeing, Finishers
<1>4. /\ x = e /\ ~ctl.claimed /\ ctl.state \notin {"paused", "input_wait"}
      /\ ~(ctl.state = "running" /\ input) /\ status' = IF ctl.state = "settling" THEN ctl.pend ELSE st
  BY <1>1, <1>3, FreedBy DEF Seen, Shown, Stopping
<1>5. CASE ctl.state = "settling"
  BY <1>1, <1>4, <1>5 DEF RunInv, ThreadInv, Mode
<1>6. CASE ctl.state = "running"
  <2>1. status' = st /\ ~input
    BY <1>4, <1>6
  <2>2. QED
    BY <1>3, <1>4, <1>6, <2>1 DEF FinishedBy, RunInv, ThreadInv, SweepInv
<1>7. QED
  BY <1>1, <1>4, <1>5, <1>6 DEF Stopping, RunInv, ThreadInv, ThreadTypes, RunState

\* What an owner reported of its run is what the thread shows once it is released, at
\* once or by maintenance later.
THEOREM StatusKept == TRSpec => FinishStatusKept
<1>1. RunInv /\ [TRNext]_trVars =>
        [\A e \in Exec : ctl.exec = e /\ ~Stopping(e) /\ ctl.state # "pausing" /\ ~Expired =>
           (ctl' = NoRun /\ drv'[e] = "over" => status' = exit[e])]_trVars
  BY StatusStep
<1>2. QED
  BY <1>1, RunInvariant, PTL DEF TRSpec, FinishStatusKept
====
