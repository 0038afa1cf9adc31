--------------------------- MODULE ThreadFreed_proofs ---------------------------
(***************************************************************************)
(* Proofs of what a run leaves behind when its thread is freed: no live    *)
(* graph of its own, and no attached child that runs or can still start;   *)
(* and so the runs of a thread take turns.                                 *)
(***************************************************************************)
EXTENDS ThreadRun_proofs

USE DEF Registered

(***************************************************************************)
(* A live graph is not freed                                               *)
(***************************************************************************)
\* What users may not do is never seen: no input wait without input checkpoints, no
\* pause and no resume without pause requests.
Inputless == "input" \notin Env => ctl.state # "input_wait" /\ \A e \in Exec : exit[e] # "input"

Pauseless ==
  "pause" \notin Env =>
    \A e \in Exec : ledger[e].desired # "paused" /\ drv[e] \notin {"starting", "bound"}

\* The end of the thread's graph is recorded only once its driver left it, and so an
\* execution that maintenance found drained has no graph when it is finished.
Unfinished == \A e \in Exec : ctl.exec = e /\ drv[e] \notin Gone => ~ledger[e].ended

Drained == sweep.at = "drained" /\ ctl.exec = sweep.exec => drv[sweep.exec] \in Gone

GraphInv == Unfinished /\ Drained

LiveInv == Inputless /\ Pauseless /\ GraphInv

\* What writing the row that intent() returns does: it records no end, a reopened
\* execution has none, and the intent is the new one or that of a tombstone.
LEMMA IntendRow ==
  ASSUME ThreadTypes, NEW e \in Exec, NEW d, NEW reopen \in BOOLEAN,
         ledger' = [ledger EXCEPT ![e] = Intend(e, d, reopen)]
  PROVE  /\ \A x \in Exec : ledger'[x].ended => ledger[x].ended
         /\ \A x \in Exec : ledger'[x].desired \in {d, ledger[x].desired}
         /\ reopen /\ ledger[e].desired # "terminated" => ~ledger'[e].ended
<1>1. ledger'[e] = Intend(e, d, reopen) /\ \A x \in Exec : x # e => ledger'[x] = ledger[x]
  BY DEF ThreadTypes
<1>2. /\ Intend(e, d, reopen).desired \in {d, ledger[e].desired}
      /\ Intend(e, d, reopen).ended => ledger[e].ended
      /\ reopen /\ ledger[e].desired # "terminated" => ~Intend(e, d, reopen).ended
  BY DEF Intend, ThreadTypes
<1>3. QED
  BY <1>1, <1>2

\* A graph that was left is not entered again, the end is recorded of a graph that was
\* left, and no new answer of maintenance: then a live graph still has no recorded end.
LEMMA GraphKept ==
  ASSUME RunInv, GraphInv,
         \/ ctl'.exec \in {ctl.exec, NoAttempt}
         \/ ctl'.exec \in Exec /\ drv'[ctl'.exec] \in Gone,
         \A e \in Exec : drv[e] \in Gone => drv'[e] \in Gone,
         \A e \in Exec : ctl'.exec = e /\ ledger'[e].ended => ledger[e].ended \/ drv'[e] \in Gone,
         sweep' = sweep \/ sweep'.at # "drained"
  PROVE  GraphInv'
<1>1. sweep.at = "drained" => sweep.exec \in Exec
  BY DEF RunInv, ThreadInv, SweepInv
<1>2. Unfinished'
  <2> SUFFICES ASSUME NEW e \in Exec, ctl'.exec = e, drv'[e] \notin Gone
               PROVE  ~ledger'[e].ended
    BY DEF Unfinished, Gone
  <2>1. ctl.exec = e /\ drv[e] \notin Gone
    BY ExecFacts
  <2>2. QED
    BY <2>1 DEF GraphInv, Unfinished
<1>3. Drained'
  <2> SUFFICES ASSUME sweep'.at = "drained", ctl'.exec = sweep'.exec
               PROVE  drv'[sweep'.exec] \in Gone
    BY DEF Drained, Gone
  <2>1. sweep' = sweep /\ sweep.exec \in Exec
    BY <1>1
  <2>2. QED
    BY <2>1, ExecFacts DEF GraphInv, Drained
<1>4. QED
  BY <1>2, <1>3 DEF GraphInv

\* finish() records the end of a graph that its caller left, or that had left.
LEMMA FinishLive ==
  ASSUME RunInv, LiveInv, (\E e \in Exec : OwnerFinish(e)) \/ SweepFinish
  PROVE  LiveInv'
<1>1. PICK x \in Exec, st \in Final, input \in BOOLEAN :
        FinishedBy(x, st, input) /\ FinishTx(x, st, input) /\ UNCHANGED <<tool, exit, origin>>
  BY Finishers
<1>2. /\ drv'[x] = drv[x] \/ (drv[x] = "returned" /\ drv'[x] = "over")
      /\ \A n \in Exec : n # x => drv'[n] = drv[n]
  BY <1>1, FinishDrivers
<1>3. sweep' = sweep \/ sweep'.at # "drained"
  BY <1>1 DEF FinishedBy, NoSweep
<1>4. CASE FinishRefused(x)
  <2>1. UNCHANGED <<ctl, ledger>>
    BY <1>1, <1>4 DEF FinishTx, threadVars
  <2>2. GraphInv'
    BY <1>2, <1>3, <2>1, GraphKept DEF LiveInv, Gone
  <2>3. Inputless' /\ Pauseless'
    BY <1>1, <1>2, <2>1 DEF LiveInv, Inputless, Pauseless
  <2>4. QED
    BY <2>2, <2>3 DEF LiveInv
<1>5. CASE ~FinishRefused(x)
  <2>1. /\ ctl.exec = x /\ ctl.state \notin {"paused", "input_wait"}
        /\ ledger' = [ledger EXCEPT ![x].ended = TRUE]
        /\ \E t \in TaskOf(x) : Ending(x, t, st, input)
    BY <1>1, <1>5, FinishEndings
  <2>2. /\ \A s \in {"input_wait", "paused"} :
             [ctl EXCEPT !.state = s].exec = ctl.exec /\ [ctl EXCEPT !.state = s].state = s
        /\ \A p : /\ [ctl EXCEPT !.state = "settling", !.pend = p].exec = ctl.exec
                  /\ [ctl EXCEPT !.state = "settling", !.pend = p].state = "settling"
    BY DEF RunInv, ThreadInv, ThreadTypes
  <2>3. ctl'.exec \in {ctl.exec, NoAttempt} /\ (ctl'.state = "input_wait" => input)
    <3>1. PICK t \in TaskOf(x) : Ending(x, t, st, input)
      BY <2>1
    <3>2. \/ \E s \in {"input_wait", "paused"} : ctl' = [ctl EXCEPT !.state = s] /\ (s = "input_wait" => input)
          \/ \E p : ctl' = [ctl EXCEPT !.state = "settling", !.pend = p]
          \/ ctl' = [ctl EXCEPT !.state = Seen(t)] /\ Seen(t) # "input_wait"
          \/ ctl' = NoRun
      BY <3>1 DEF Ending
    <3>3. NoRun.exec = NoAttempt /\ NoRun.state = "none"
      BY DEF NoRun
    <3>4. CASE \E s \in {"input_wait", "paused"} : ctl' = [ctl EXCEPT !.state = s] /\ (s = "input_wait" => input)
      BY <2>2, <3>4
    <3>5. CASE \E p : ctl' = [ctl EXCEPT !.state = "settling", !.pend = p]
      BY <2>2, <3>5
    <3>6. CASE (ctl' = [ctl EXCEPT !.state = Seen(t)] /\ Seen(t) # "input_wait") \/ ctl' = NoRun
      <4>1. [ctl EXCEPT !.state = Seen(t)].exec = ctl.exec /\ [ctl EXCEPT !.state = Seen(t)].state = Seen(t)
        BY DEF RunInv, ThreadInv, ThreadTypes
      <4>2. QED
        BY <2>1, <3>3, <3>6, <4>1
    <3>7. QED
      BY <3>2, <3>4, <3>5, <3>6
  <2>4. drv'[x] \in Gone
    BY <1>1, <1>2, <2>1 DEF FinishedBy, LiveInv, GraphInv, Drained, Gone
  <2>5. \A e \in Exec : e # x => ledger'[e] = ledger[e]
    BY <2>1 DEF RunInv, ThreadInv, ThreadTypes
  <2>6. \A e \in Exec : ledger'[e].desired = ledger[e].desired
    BY <2>1 DEF RunInv, ThreadInv, ThreadTypes
  <2>7. GraphInv'
    BY <1>2, <1>3, <2>3, <2>4, <2>5, GraphKept DEF LiveInv, Gone
  <2>8. Inputless' /\ Pauseless'
    BY <1>1, <1>2, <2>3, <2>6 DEF FinishedBy, LiveInv, Inputless, Pauseless
  <2>9. QED
    BY <2>7, <2>8 DEF LiveInv
<1>6. QED
  BY <1>4, <1>5

\* A new run, and an answered input checkpoint, start with no recorded end; maintenance
\* does not hold an old view of either, unless a pause was requested in an input wait.
LEMMA StartLive ==
  ASSUME RunInv, LiveInv, ~({"pause", "input"} \subseteq Env), NEW e \in Exec, Start(e) \/ StartInput(e)
  PROVE  LiveInv'
<1>1. CASE Start(e)
  <2>1. /\ drv[e] = "new" /\ drv' = [drv EXCEPT ![e] = "running"] /\ UNCHANGED <<exit, sweep>>
        /\ ledger' = [ledger EXCEPT ![e] = [desired |-> "running", ended |-> FALSE]]
        /\ ctl'.exec = e /\ ctl'.state = "running"
    BY <1>1 DEF Start, Goto, SetLedger, NoRun
  <2>2. ~ledger'[e].ended
    BY <2>1 DEF RunInv, ThreadInv, ThreadTypes
  <2>3. sweep.at = "drained" => sweep.exec # e
    BY <2>1 DEF RunInv, ThreadInv, SweepInv
  <2>4. GraphInv'
    BY <2>1, <2>2, <2>3 DEF GraphInv, Unfinished, Drained
  <2>5. Inputless' /\ Pauseless'
    BY <2>1 DEF LiveInv, Inputless, Pauseless, RunInv, ThreadInv, ThreadTypes
  <2>6. QED
    BY <2>4, <2>5 DEF LiveInv
<1>2. CASE StartInput(e)
  <2>1. /\ ctl.exec = e /\ ctl.state = "input_wait" /\ ledger[e].desired # "terminated"
        /\ drv' = [drv EXCEPT ![e] = "running"] /\ UNCHANGED sweep
        /\ exit' = [exit EXCEPT ![e] = "none"]
        /\ ledger' = [ledger EXCEPT ![e] = Intend(e, ledger[e].desired, TRUE)]
        /\ ctl'.exec = e /\ ctl'.state # "input_wait"
    BY <1>2 DEF StartInput, Goto, SetLedger, RunInv, ThreadInv, ThreadTypes
  <2>2. ~ledger'[e].ended /\ ledger'[e].desired = ledger[e].desired
    <3>1. PICK d : d = ledger[e].desired
      OBVIOUS
    <3>2. ledger' = [ledger EXCEPT ![e] = Intend(e, d, TRUE)]
      BY <2>1, <3>1
    <3>3. ThreadTypes
      BY DEF RunInv, ThreadInv
    <3>4. ledger'[e].desired \in {d, ledger[e].desired} /\ ~ledger'[e].ended
      BY <2>1, <3>2, <3>3, IntendRow
    <3>5. QED
      BY <3>1, <3>4
  <2>3. "pause" \notin Env
    BY <2>1 DEF LiveInv, Inputless
  <2>4. sweep.at = "drained" => sweep.exec # e
    BY <2>1, <2>3 DEF RunInv, ThreadInv, SweepInv, LiveInv, Pauseless
  <2>5. GraphInv'
    BY <2>1, <2>2, <2>4 DEF GraphInv, Unfinished, Drained
  <2>6. Inputless'
    BY <2>1 DEF LiveInv, Inputless, RunInv, ThreadInv, ThreadTypes
  <2>7. Pauseless'
    <3>1. \A x \in Exec : x # e => ledger'[x] = ledger[x] /\ drv'[x] = drv[x]
      BY <2>1 DEF RunInv, ThreadInv, ThreadTypes
    <3>2. drv'[e] = "running"
      BY <2>1 DEF RunInv, ThreadInv, ThreadTypes
    <3>3. QED
      BY <2>2, <3>1, <3>2 DEF LiveInv, Pauseless
  <2>8. QED
    BY <2>5, <2>6, <2>7 DEF LiveInv
<1>3. QED
  BY <1>1, <1>2

\* Users only change the intent; the end of a graph is recorded for a paused one.
LEMMA RequestLive ==
  ASSUME RunInv, LiveInv, NEW e \in Exec, RequestPause(e) \/ Cancel(e) \/ Terminate(e) \/ ClaimResume(e)
  PROVE  LiveInv'
<1>1. CASE RequestPause(e)
  <2>1. /\ UNCHANGED <<drv, exit, sweep>> /\ "pause" \in Env
        /\ ctl'.exec = ctl.exec /\ (ctl'.state = "input_wait" => ctl.state = "input_wait")
    BY <1>1 DEF RequestPause, driverVars, threadVars, RunInv, ThreadInv, ThreadTypes
  <2>2. ledger' = ledger \/ ledger' = [ledger EXCEPT ![e] = Intend(e, "paused", FALSE)]
    BY <1>1 DEF RequestPause, SetLedger
  <2>3. \A x \in Exec : ledger'[x].ended => ledger[x].ended
    BY <2>2, IntendRow DEF RunInv, ThreadInv
  <2>4. GraphInv'
    BY <2>1, <2>3, GraphKept DEF LiveInv
  <2>5. QED
    BY <2>1, <2>4 DEF LiveInv, Inputless, Pauseless
<1>2. CASE Cancel(e)
  <2>1. /\ UNCHANGED <<drv, exit, sweep>>
        /\ ctl.exec = e /\ ctl'.exec = ctl.exec /\ ctl'.state = "terminating"
        /\ ledger' = [ledger EXCEPT ![e] = [desired |-> "terminated",
                                             ended |-> ledger[e].ended \/ ctl.state = "paused"]]
    BY <1>2 DEF Cancel, SetLedger, driverVars, RunInv, ThreadInv, ThreadTypes
  <2>2. ctl.state = "paused" => drv[e] \in Gone
    BY <2>1, ExecFacts DEF RunInv, ThreadInv, Mode
  <2>3. \A x \in Exec : /\ ctl'.exec = x /\ ledger'[x].ended => ledger[x].ended \/ drv[x] \in Gone
                        /\ ledger'[x].desired \in {ledger[x].desired, "terminated"}
    BY <2>1, <2>2 DEF RunInv, ThreadInv, ThreadTypes
  <2>4. GraphInv'
    BY <2>1, <2>3, GraphKept DEF LiveInv
  <2>5. QED
    BY <2>1, <2>3, <2>4 DEF LiveInv, Inputless, Pauseless
<1>3. CASE ClaimResume(e)
  <2>1. /\ drv[e] = "new" /\ drv' = [drv EXCEPT ![e] = "starting"] /\ UNCHANGED <<exit, sweep>>
        /\ ctl.state = "paused" /\ ctl'.exec = ctl.exec /\ ctl'.state = "running"
        /\ ledger' = [ledger EXCEPT ![ctl.exec] = Intend(ctl.exec, "running", FALSE)]
    BY <1>3 DEF ClaimResume, Goto, SetLedger, RunInv, ThreadInv, ThreadTypes
  <2>2. ctl.exec \in Exec /\ ledger[ctl.exec].desired = "paused"
    <3>1. PICK t \in TaskOf(ctl.exec) : Change(t, "running")
      BY <1>3 DEF ClaimResume
    <3>2. Owner(t) /\ desired[t] # "terminated" /\ ctl.exec \in Exec
      BY <3>1, OwnTask DEF RunInv, LedgerInv, Change, ChangeAllowed
    <3>3. QED
      BY <2>1, <3>2, ExecFacts DEF Owner, Agreed, RunInv, ThreadInv, Mode
  <2>3. \A x \in Exec : ledger'[x].ended => ledger[x].ended
    BY <2>1, <2>2, IntendRow DEF RunInv, ThreadInv
  <2>4. \A x \in Exec : drv[x] \in Gone => drv'[x] \in Gone
    BY <2>1 DEF RunInv, ThreadInv, ThreadTypes, Gone
  <2>5. GraphInv'
    BY <2>1, <2>3, <2>4, GraphKept DEF LiveInv
  <2>6. QED
    BY <2>1, <2>2, <2>5 DEF LiveInv, Inputless, Pauseless
<1>4. CASE Terminate(e)
  <2>1. /\ UNCHANGED <<ctl, drv, exit, sweep>>
        /\ ledger' = [ledger EXCEPT ![e] = Intend(e, "terminated", FALSE)]
    BY <1>4 DEF Terminate, SetLedger, threadVars, driverVars
  <2>2. \A x \in Exec : /\ ledger'[x].ended => ledger[x].ended
                        /\ ledger'[x].desired \in {ledger[x].desired, "terminated"}
    <3>1. ThreadTypes
      BY DEF RunInv, ThreadInv
    <3>2. /\ Intend(e, "terminated", FALSE).desired \in {ledger[e].desired, "terminated"}
          /\ Intend(e, "terminated", FALSE).ended => ledger[e].ended
      <4>1. ledger[e] \in [desired : Intent \cup {"none"}, ended : BOOLEAN]
        BY <3>1 DEF ThreadTypes
      <4>2. QED
        BY <4>1 DEF Intend
    <3>3. QED
      BY <2>1, <3>1, <3>2 DEF ThreadTypes
  <2>3. GraphInv'
    BY <2>1, <2>2, GraphKept DEF LiveInv
  <2>4. QED
    BY <2>1, <2>2, <2>3 DEF LiveInv, Inputless, Pauseless
<1>5. QED
  BY <1>1, <1>2, <1>3, <1>4

\* A resumed execution is new to maintenance; one that is given back had left its graph.
LEMMA ResumeLive ==
  ASSUME RunInv, LiveInv, NEW n \in Exec, BindResumed(n) \/ ReleaseResume(n)
  PROVE  LiveInv'
<1>1. /\ drv[n] \in {"starting", "bound"} /\ UNCHANGED <<exit, sweep>>
      /\ "pause" \in Env
  BY DEF BindResumed, ReleaseResume, LiveInv, Pauseless
<1>2. CASE BindResumed(n)
  <2>1. /\ drv[n] = "starting" /\ drv' = [drv EXCEPT ![n] = "bound"]
        /\ ctl.state = "running" /\ ctl'.exec = n /\ ctl'.state = ctl.state
        /\ ledger' = [ledger EXCEPT ![ctl.exec] = [desired |-> "paused", ended |-> TRUE],
                                    ![n] = [desired |-> "running", ended |-> FALSE]]
    BY <1>2 DEF BindResumed, HoldsClaim, Goto, RunInv, ThreadInv, ThreadTypes
  <2>2. ~ledger'[n].ended
    BY <2>1 DEF RunInv, ThreadInv, ThreadTypes
  <2>3. sweep.at = "drained" => sweep.exec # n
    BY <2>1 DEF RunInv, ThreadInv, SweepInv
  <2>4. GraphInv'
    BY <1>1, <2>1, <2>2, <2>3 DEF GraphInv, Unfinished, Drained
  <2>5. QED
    BY <1>1, <2>1, <2>4 DEF LiveInv, Inputless, Pauseless
<1>3. CASE ReleaseResume(n)
  <2>1. drv' = [drv EXCEPT ![n] = "over"]
    BY <1>3 DEF ReleaseResume, Goto
  <2>2. \A x \in Exec : drv[x] \in Gone => drv'[x] \in Gone
    BY <2>1 DEF RunInv, ThreadInv, ThreadTypes, Gone
  <2>3. CASE ~HoldsClaim(n) \/ CannotRelease
    <3>1. UNCHANGED <<ctl, ledger>>
      BY <1>3, <2>3 DEF ReleaseResume, threadVars
    <3>2. GraphInv'
      BY <1>1, <2>2, <3>1, GraphKept DEF LiveInv
    <3>3. QED
      BY <1>1, <3>1, <3>2 DEF LiveInv, Inputless, Pauseless
  <2>4. CASE HoldsClaim(n) /\ ~CannotRelease
    <3>1. PICK old \in Exec :
            /\ ctl' = [ctl EXCEPT !.exec = old, !.state = "paused", !.claimed = FALSE, !.ticket = NoAttempt]
            /\ IF drv[n] = "starting"
               THEN old = ctl.exec /\ ledger' = [ledger EXCEPT ![old] = Intend(old, "paused", FALSE)]
               ELSE old = origin[n] /\ ledger' = [ledger EXCEPT ![n] = Intend(n, "terminated", FALSE)]
      BY <1>3, <2>4 DEF ReleaseResume, SetLedger
    <3>2. ctl'.exec = old /\ ctl'.state = "paused"
      BY <3>1 DEF RunInv, ThreadInv, ThreadTypes
    <3>3. drv[old] \in Gone
      <4>1. CASE drv[n] = "starting"
        BY <2>4, <3>1, <4>1, ExecFacts DEF HoldsClaim, RunInv, ThreadInv, Ticket, Mode
      <4>2. CASE drv[n] = "bound"
        BY <2>4, <3>1, <4>2 DEF HoldsClaim, RunInv, ThreadInv, Ticket
      <4>3. QED
        BY <1>1, <4>1, <4>2
    <3>4. \A x \in Exec : ledger'[x].ended => ledger[x].ended
      BY <3>1, IntendRow DEF RunInv, ThreadInv
    <3>5. GraphInv'
      BY <1>1, <2>2, <3>2, <3>3, <3>4, GraphKept DEF LiveInv
    <3>6. QED
      BY <1>1, <3>2, <3>5 DEF LiveInv, Inputless, Pauseless
  <2>5. QED
    BY <2>3, <2>4
<1>4. QED
  BY <1>2, <1>3

\* The graph, its tools and the other tasks write no end.
LEMMA GraphLive ==
  ASSUME RunInv, LiveInv,
         \/ \E e \in Exec : \/ GraphStep(e) \/ StageCheckpoint(e) \/ BeginGraph(e)
                            \/ AdmitTool(e) \/ SettleTool(e) \/ Crash(e)
         \/ KidStep \/ ListStopping \/ ExpireLease \/ UNCHANGED trVars
  PROVE  LiveInv'
<1>1. ASSUME ctl'.exec = ctl.exec, ctl'.state = ctl.state, UNCHANGED ledger,
             sweep' = sweep \/ sweep'.at # "drained",
             \A x \in Exec : /\ drv[x] \in Gone => drv'[x] \in Gone
                             /\ drv'[x] \in {"starting", "bound"} => drv[x] \in {"starting", "bound"}
                             /\ exit'[x] = "input" => exit[x] = "input" \/ "input" \in Env
      PROVE  LiveInv'
  <2>1. GraphInv'
    BY <1>1, GraphKept DEF LiveInv
  <2>2. QED
    BY <1>1, <2>1 DEF LiveInv, Inputless, Pauseless
<1>2. ASSUME NEW e \in Exec, GraphStep(e)
      PROVE  LiveInv'
  <2>1. UNCHANGED <<ctl, ledger, sweep>>
    BY <1>2 DEF GraphStep, threadVars
  <2>2. \/ \E how \in Final : Returns(e, how)
        \/ "input" \in Env /\ Returns(e, "input")
        \/ UNCHANGED exit /\ drv[e] = "running" /\ \E l \in {"stopping", "ending"} : Goto(e, l)
    BY <1>2 DEF GraphStep, Final
  <2>3. \A x \in Exec : /\ drv[x] \in Gone => drv'[x] \in Gone
                        /\ drv'[x] \in {"starting", "bound"} => drv[x] \in {"starting", "bound"}
                        /\ exit'[x] = "input" => exit[x] = "input" \/ "input" \in Env
    BY <2>2 DEF Returns, Goto, Gone, Final, RunInv, ThreadInv, ThreadTypes
  <2>4. QED
    BY <1>1, <2>1, <2>3
<1>3. ASSUME NEW e \in Exec, StageCheckpoint(e)
      PROVE  LiveInv'
  <2>1. /\ ctl'.exec = ctl.exec /\ ctl'.state = ctl.state /\ UNCHANGED <<ledger, sweep>>
        /\ \E how \in {"interrupted", "error"} : Returns(e, how)
    BY <1>3 DEF StageCheckpoint, RunInv, ThreadInv, ThreadTypes
  <2>2. \A x \in Exec : /\ drv[x] \in Gone => drv'[x] \in Gone
                        /\ drv'[x] \in {"starting", "bound"} => drv[x] \in {"starting", "bound"}
                        /\ exit'[x] = "input" => exit[x] = "input" \/ "input" \in Env
    BY <2>1 DEF Returns, Goto, Gone, RunInv, ThreadInv, ThreadTypes
  <2>3. QED
    BY <1>1, <2>1, <2>2
<1>4. ASSUME NEW e \in Exec, BeginGraph(e) \/ AdmitTool(e) \/ SettleTool(e) \/ Crash(e)
      PROVE  LiveInv'
  <2>1. UNCHANGED <<ctl, ledger, exit, sweep>>
    BY <1>4 DEF BeginGraph, AdmitTool, SettleTool, Crash, threadVars, driverVars
  <2>2. \/ UNCHANGED drv
        \/ drv[e] = "bound" /\ drv' = [drv EXCEPT ![e] = "running"]
        \/ drv' = [drv EXCEPT ![e] = "dead"]
    BY <1>4 DEF BeginGraph, AdmitTool, SettleTool, Crash, Goto, driverVars
  <2>3. \A x \in Exec : /\ drv[x] \in Gone => drv'[x] \in Gone
                        /\ drv'[x] \in {"starting", "bound"} => drv[x] \in {"starting", "bound"}
    BY <2>2 DEF Gone, RunInv, ThreadInv, ThreadTypes
  <2>4. QED
    BY <1>1, <2>1, <2>3
<1>5. ASSUME KidStep \/ ListStopping \/ ExpireLease \/ UNCHANGED trVars
      PROVE  LiveInv'
  <2>1. UNCHANGED <<ctl, ledger, drv, exit>> /\ (sweep' = sweep \/ sweep'.at # "drained")
    BY <1>5 DEF KidStep, ListStopping, ExpireLease, trVars, threadVars, driverVars
  <2>2. QED
    BY <1>1, <2>1
<1>6. QED
  BY <1>2, <1>3, <1>4, <1>5

\* Maintenance takes an execution for drained only if its end is recorded.
LEMMA CheckLive ==
  ASSUME RunInv, LiveInv, CheckDrained
  PROVE  LiveInv'
<1>1. UNCHANGED <<ctl, ledger, drv, exit>> /\ sweep.exec \in Exec
  BY DEF CheckDrained, threadVars, driverVars, RunInv, ThreadInv, SweepInv
<1>2. sweep'.at = "drained" => sweep'.exec = sweep.exec /\ ledger[sweep.exec].ended
  BY DEF CheckDrained, NoSweep, RunInv, ThreadInv, ThreadTypes
<1>3. GraphInv'
  BY <1>1, <1>2 DEF LiveInv, GraphInv, Unfinished, Drained, Gone
<1>4. QED
  BY <1>1, <1>3 DEF LiveInv, Inputless, Pauseless

\* Recovery keeps what the row says of the end, or frees the thread.
LEMMA RecoverLive ==
  ASSUME RunInv, LiveInv, Recover
  PROVE  LiveInv'
<1>1. UNCHANGED <<drv, exit, sweep>>
  BY DEF Recover, driverVars
<1>2. ctl.exec \in Exec
  <2>1. PICK t \in TaskOf(ctl.exec) : TRUE
    BY DEF Recover
  <2>2. QED
    BY OwnTask DEF RunInv, LedgerInv
<1>3. \/ /\ ctl' = NoRun
         /\ ledger' = [ledger EXCEPT ![ctl.exec] = [desired |-> "terminated", ended |-> TRUE]]
      \/ /\ ctl' = [ctl EXCEPT !.state = "terminating"]
         /\ ledger' = [ledger EXCEPT ![ctl.exec] = Intend(ctl.exec, "terminated", FALSE)]
  BY DEF Recover, SetLedger
<1>4. ctl'.exec \in {ctl.exec, NoAttempt} /\ ctl'.state # "input_wait"
  <2>1. NoRun.exec = NoAttempt /\ NoRun.state = "none"
    BY DEF NoRun
  <2>2. /\ [ctl EXCEPT !.state = "terminating"].exec = ctl.exec
        /\ [ctl EXCEPT !.state = "terminating"].state = "terminating"
    BY DEF RunInv, ThreadInv, ThreadTypes
  <2>3. QED
    BY <1>3, <2>1, <2>2
<1>5. \A x \in Exec : /\ ctl'.exec = x /\ ledger'[x].ended => ledger[x].ended
                      /\ ledger'[x].desired \in {"terminated", ledger[x].desired}
  <2>1. CASE /\ ctl' = NoRun
             /\ ledger' = [ledger EXCEPT ![ctl.exec] = [desired |-> "terminated", ended |-> TRUE]]
    BY <1>2, <2>1, ExecFacts DEF NoRun, RunInv, ThreadInv, ThreadTypes
  <2>2. CASE ledger' = [ledger EXCEPT ![ctl.exec] = Intend(ctl.exec, "terminated", FALSE)]
    BY <1>2, <2>2, IntendRow DEF RunInv, ThreadInv
  <2>3. QED
    BY <1>3, <2>1, <2>2
<1>6. GraphInv'
  BY <1>1, <1>4, <1>5, GraphKept DEF LiveInv
<1>7. QED
  BY <1>1, <1>4, <1>5, <1>6 DEF LiveInv, Inputless, Pauseless

\* Before anything ran.
LEMMA LiveInvInit == TRInit => LiveInv
  BY ExecFacts DEF TRInit, NoRun, NoSweep, LiveInv, Inputless, Pauseless, GraphInv, Unfinished, Drained

\* Every step keeps it, if a run that waits for an input cannot be paused.
LEMMA LiveInvStep ==
  ASSUME ~({"pause", "input"} \subseteq Env)
  PROVE  RunInv /\ LiveInv /\ [TRNext]_trVars => LiveInv'
  BY FinishLive, StartLive, RequestLive, ResumeLive, GraphLive, CheckLive, RecoverLive
     DEF TRNext, Driver, Maintain

\* Who frees the thread of a live graph has taken it from a lost owner.
LEMMA FreeStep ==
  ASSUME RunInv, LiveInv, [TRNext]_trVars, NEW e \in Exec, ctl.exec = e, drv[e] \notin Gone, ~Expired
  PROVE  ctl' # NoRun
<1> SUFFICES ASSUME ctl' = NoRun PROVE FALSE
  OBVIOUS
<1>1. ctl.exec # NoAttempt /\ ~Recover
  BY ExecFacts DEF Recover, Recoverable
<1>2. PICK x \in Exec, st \in Final, input \in BOOLEAN : FinishedBy(x, st, input) /\ FinishTx(x, st, input)
  BY <1>1, Freeing, Finishers
<1>3. x = e
  BY <1>1, <1>2, FreedBy
<1>4. QED
  BY <1>2, <1>3 DEF FinishedBy, LiveInv, GraphInv, Drained, Gone

\* Unless a run that waits for an input can also be paused, which is how the run
\* stale_finish breaks it, a live owner's graph is never finished behind its back:
\* through stops, resumes, crashes, lost leases and every pass of maintenance.
THEOREM LiveGraphKept ==
  ASSUME ~({"pause", "input"} \subseteq Env)
  PROVE  TRSpec => LiveGraphNotFreed
<1>1. TRSpec => [](RunInv /\ LiveInv)
  <2>1. TRSpec => []LiveInv
    BY LiveInvInit, LiveInvStep, RunInvariant, PTL DEF TRSpec
  <2>2. QED
    BY <2>1, RunInvariant, PTL
<1>2. RunInv /\ LiveInv /\ [TRNext]_trVars =>
        [\A e \in Exec : ctl.exec = e /\ drv[e] \in {"running", "stopping", "ending"} /\ ~Expired =>
           ctl' # NoRun]_trVars
  BY FreeStep DEF Gone
<1>3. QED
  BY <1>1, <1>2, PTL DEF TRSpec, LiveGraphNotFreed

(***************************************************************************)
(* The attached child of a run that ended is quiet                         *)
(***************************************************************************)
\* The child hangs below one execution task, and no receipt pauses it.
KidRow ==
  /\ state[Kid] # "paused"
  /\ Registered(Kid) => \E p \in Exec : Registered(p) /\ entry[Kid].lineage = {p, Kid}

\* Execution tasks are opened running; they are never claimed.
RootsUnclaimed == \A t \in Exec : claim[t] = NoToken

\* Without resume requests nobody is binding an execution.
Resumeless == "resume" \notin Env => \A n \in Exec : drv[n] \notin {"starting", "bound"}

\* The run of the task is over, or confirmed paused for good.
Rests(p) ==
  \/ state[p] = "completed"
  \/ "resume" \notin Env /\ ctl.state = "paused" /\ p \in TaskOf(ctl.exec)

\* The child below the task is completed, or it waits under a pause or a termination that
\* holds it back.
Quieted(p) ==
  Registered(Kid) /\ p \in entry[Kid].lineage =>
    \/ state[Kid] = "completed"
    \/ /\ state[Kid] = "queued" /\ claim[Kid] = NoToken /\ ~entry[Kid].drain
       /\ desired[p] \in {"paused", "terminated"}

FamilyInv == KidRow /\ RootsUnclaimed /\ Resumeless /\ \A p \in Exec : Rests(p) => Quieted(p)

\* The one ledger operation that a step of the thread service makes on task t.
Touches(t) ==
  \/ Open(t, t)
  \/ \E d \in Intent : Change(t, d)
  \/ \E s \in {"running", "paused", "completed"} : Receipt(t, s, NoToken)
  \/ \E e, f \in Exec : Bind(t, e, f) \/ RestoreAttempt(t, e, f)
  \/ Retire(t)

\* An operation on one execution task leaves the child and every other task alone, and
\* takes no claim.
LEMMA TouchKeeps ==
  ASSUME TypeOK, NEW t \in Exec, Touches(t)
  PROVE  /\ entry'[Kid] = entry[Kid] /\ state'[Kid] = state[Kid] /\ claim'[Kid] = claim[Kid]
         /\ \A u \in Exec : u # t => /\ state'[u] = state[u] /\ desired'[u] = desired[u]
                                     /\ attempts'[u] = attempts[u]
         /\ \A u \in Exec : claim[u] = NoToken => claim'[u] = NoToken
         /\ state'[t] # "absent" \/ state'[t] = state[t]
<1>1. t # Kid /\ t \in Task /\ Kid \in Task /\ \A u \in Exec : u \in Task
  BY ExecFacts
<1>2. CASE Open(t, t)
  BY <1>1, <1>2 DEF Open, TypeOK, mailVars
<1>3. CASE \E d \in Intent : Change(t, d)
  BY <1>1, <1>3 DEF Change, TypeOK, runVars, execVars
<1>4. CASE \E s \in {"running", "paused", "completed"} : Receipt(t, s, NoToken)
  BY <1>1, <1>4 DEF Receipt, PutReceipt, TypeOK, treeVars, execVars
<1>5. CASE \E e, f \in Exec : Bind(t, e, f)
  BY <1>1, <1>5 DEF Bind, TypeOK, treeVars
<1>6. CASE \E e, f \in Exec : RestoreAttempt(t, e, f)
  BY <1>1, <1>6 DEF RestoreAttempt, TypeOK
<1>7. CASE Retire(t)
  BY <1>1, <1>7 DEF Retire, PutReceipt, TypeOK, execVars
<1>8. QED
  BY <1>2, <1>3, <1>4, <1>5, <1>6, <1>7 DEF Touches

\* Every step but the child's makes at most one such operation, on a task that is not
\* completed unless the operation is a termination.
LEMMA StepTouches ==
  ASSUME RunInv, [TRNext]_trVars, ~KidStep
  PROVE  \/ UNCHANGED taskVars
         \/ \E t \in Exec : state[t] # "completed" /\ Touches(t)
         \/ \E t \in Exec : Change(t, "terminated")
<1>1. ASSUME NEW t \in TaskOf(ctl.exec), Touches(t)
      PROVE  \E u \in Exec : state[u] # "completed" /\ Touches(u)
  BY <1>1, OwnTask DEF RunInv, LedgerInv
<1>2. ASSUME NEW e \in Exec, Start(e)
      PROVE  \E u \in Exec : state[u] # "completed" /\ Touches(u)
  <2>1. state[e] = "absent" /\ Open(e, e)
    BY <1>2 DEF Start, Open
  <2>2. Touches(e)
    BY <2>1 DEF Touches
  <2>3. QED
    BY <2>1, <2>2
<1>3. ASSUME NEW e \in Exec, StartInput(e) \/ RequestPause(e) \/ Cancel(e) \/ ClaimResume(e)
      PROVE  UNCHANGED taskVars \/ \E t \in TaskOf(ctl.exec) : Touches(t)
  BY <1>3 DEF StartInput, RequestPause, Cancel, ClaimResume, Touches, Intent
<1>4. ASSUME NEW n \in Exec, BindResumed(n)
      PROVE  \E t \in TaskOf(ctl.exec) : Touches(t)
  <2>1. PICK t \in TaskOf(ctl.exec) : Bind(t, ctl.exec, n)
    BY <1>4 DEF BindResumed
  <2>2. ctl.exec \in Exec
    BY <2>1, OwnTask DEF RunInv, LedgerInv
  <2>3. QED
    BY <2>1, <2>2 DEF Touches
<1>5. ASSUME NEW n \in Exec, ReleaseResume(n)
      PROVE  UNCHANGED taskVars \/ \E t \in TaskOf(ctl.exec) : Touches(t)
  BY <1>5 DEF ReleaseResume, Touches, Intent
<1>6. ASSUME NEW x \in Exec, NEW st, NEW input \in BOOLEAN, FinishedBy(x, st, input), FinishTx(x, st, input)
      PROVE  UNCHANGED taskVars \/ \E t \in TaskOf(ctl.exec) : Touches(t)
  <2>1. CASE FinishRefused(x)
    BY <1>6, <2>1 DEF FinishTx
  <2>2. CASE ~FinishRefused(x)
    <3>1. ctl.exec = x /\ \E t \in TaskOf(x) : Ending(x, t, st, input)
      BY <1>6, <2>2, FinishEndings
    <3>2. QED
      BY <3>1 DEF Ending, Touches
  <2>3. QED
    BY <2>1, <2>2
<1>7. ASSUME (\E x \in Exec : OwnerFinish(x)) \/ SweepFinish
      PROVE  UNCHANGED taskVars \/ \E t \in TaskOf(ctl.exec) : Touches(t)
  BY <1>6, <1>7, Finishers
<1>8. ASSUME Recover
      PROVE  \E t \in TaskOf(ctl.exec) : Touches(t)
  BY <1>8 DEF Recover, Touches, Intent
<1>9. ASSUME NEW e \in Exec,
             GraphStep(e) \/ StageCheckpoint(e) \/ BeginGraph(e) \/ AdmitTool(e) \/ SettleTool(e) \/ Crash(e)
      PROVE  UNCHANGED taskVars
  BY <1>9 DEF GraphStep, StageCheckpoint, BeginGraph, AdmitTool, SettleTool, Crash
<1>10. ASSUME ListStopping \/ CheckDrained \/ ExpireLease \/ UNCHANGED trVars
       PROVE  UNCHANGED taskVars
  BY <1>10 DEF ListStopping, CheckDrained, ExpireLease, trVars
<1>11. ASSUME NEW e \in Exec, Terminate(e)
       PROVE  \E t \in Exec : Change(t, "terminated")
  BY <1>11, ExecFacts DEF Terminate, TaskOf, RunInv, Tree
<1>12. QED
  BY <1>1, <1>2, <1>3, <1>4, <1>5, <1>7, <1>8, <1>9, <1>10, <1>11 DEF TRNext, Driver, Maintain

\* What finish() and recovery ask of the family is that its child is quiet.
LEMMA SettledQuiet ==
  ASSUME KidRow, NEW t \in Exec, NEW pause \in BOOLEAN, Settled(t, pause),
         Registered(Kid), t \in entry[Kid].lineage
  PROVE  \/ state[Kid] = "completed"
         \/ pause /\ state[Kid] = "queued" /\ claim[Kid] = NoToken /\ ~entry[Kid].drain
<1>1. Kid \in Descendants(t)
  BY ExecFacts DEF Descendants
<1>2. QED
  BY <1>1 DEF Settled, Quiescent, KidRow

\* A step but the child's keeps the invariant if every task that comes to rest is quiet.
LEMMA FamilyKept ==
  ASSUME RunInv, FamilyInv, [TRNext]_trVars, ~KidStep,
         "resume" \notin Env => \A n \in Exec : drv'[n] \notin {"starting", "bound"},
         \A p \in Exec : Rests(p)' => \/ Rests(p) /\ desired'[p] \in {desired[p], "terminated"}
                                      \/ Quieted(p)'
  PROVE  FamilyInv'
<1>1. /\ entry'[Kid] = entry[Kid] /\ state'[Kid] = state[Kid] /\ claim'[Kid] = claim[Kid]
      /\ \A u \in Exec : claim'[u] = NoToken
      /\ \A u \in Exec : Registered(u) => state'[u] # "absent"
  <2>1. CASE UNCHANGED taskVars
    BY <2>1 DEF taskVars, FamilyInv, RootsUnclaimed
  <2>2. CASE \E t \in Exec : Touches(t)
    BY <2>2, TouchKeeps DEF RunInv, LedgerInv, FamilyInv, RootsUnclaimed
  <2>3. \A t \in Exec : Change(t, "terminated") => Touches(t)
    BY DEF Touches, Intent
  <2>4. QED
    BY <2>1, <2>2, <2>3, StepTouches
<1>2. KidRow' /\ RootsUnclaimed' /\ Resumeless'
  BY <1>1 DEF FamilyInv, KidRow, RootsUnclaimed, Resumeless
<1>3. ASSUME NEW p \in Exec, Rests(p)'
      PROVE  Quieted(p)'
  <2>1. CASE Rests(p) /\ desired'[p] \in {desired[p], "terminated"}
    BY <1>1, <2>1 DEF FamilyInv, Quieted
  <2>2. QED
    BY <1>3, <2>1
<1>4. QED
  BY <1>2, <1>3 DEF FamilyInv

\* A completed execution task is touched by a termination at most, so it is as quiet as
\* it was.
LEMMA RestedKept ==
  ASSUME RunInv, [TRNext]_trVars, ~KidStep, NEW p \in Exec, state[p] = "completed"
  PROVE  state'[p] = "completed" /\ desired'[p] \in {desired[p], "terminated"}
<1>1. CASE UNCHANGED taskVars
  BY <1>1 DEF taskVars
<1>2. CASE \E t \in Exec : state[t] # "completed" /\ Touches(t)
  BY <1>2, TouchKeeps DEF RunInv, LedgerInv
<1>3. CASE \E t \in Exec : Change(t, "terminated")
  BY <1>3, ExecFacts DEF Change, runVars, RunInv, LedgerInv, TypeOK
<1>4. QED
  BY <1>1, <1>2, <1>3, StepTouches

\* The child registers below a live execution, and below one that is at rest it is not
\* admitted.
LEMMA KidFamily ==
  ASSUME RunInv, FamilyInv, KidStep
  PROVE  FamilyInv'
<1>1. /\ UNCHANGED <<ctl, drv>>
      /\ Kid \in Task /\ NoToken \notin Token
      /\ \A u \in Exec : u \in Task /\ u # Kid
  BY ExecFacts, NoTokenAssumption DEF KidStep, threadVars, driverVars
<1>2. Resumeless'
  BY <1>1 DEF FamilyInv, Resumeless
<1>3. ASSUME NEW e \in Exec, NEW t \in Task, NEW drain \in BOOLEAN,
             drv[e] \in {"running", "ending"}, t \in TaskOf(e), current[t] = e,
             Register(Kid, t, "attached", drain, NoAttempt)
      PROVE  FamilyInv'
  <2>1. t \in Exec
    BY <1>3, ExecFacts DEF TaskOf, RunInv, Tree
  <2>2. /\ Registered(t) /\ state[t] # "completed" /\ entry[t].lineage = {t} /\ t # NoTask
    BY <1>3, <2>1, ExecFacts, NoTaskAssumption DEF Register, ParentOpen, RunInv, Tree
  <2>3. /\ entry'[Kid].lineage = {t, Kid} /\ state'[Kid] = "queued"
        /\ \A u \in Exec : state'[u] = state[u] /\ claim'[u] = claim[u] /\ attempts'[u] = attempts[u]
    BY <1>1, <1>3, <2>2 DEF Register, NewEntry, RunInv, LedgerInv, TypeOK
  <2>4. ~Rests(t)'
    <3>1. ASSUME ctl.state = "paused", t \in TaskOf(ctl.exec) PROVE FALSE
      <4>1. current[t] = ctl.exec /\ ctl.exec \in Exec
        BY <3>1, OwnTask DEF RunInv, LedgerInv, Owner
      <4>2. QED
        BY <1>3, <3>1, <4>1, ExecFacts DEF RunInv, ThreadInv, Mode, Gone
    <3>2. QED
      BY <1>1, <2>1, <2>2, <2>3, <3>1 DEF Rests, TaskOf
  <2>5. QED
    BY <1>1, <1>2, <2>1, <2>2, <2>3, <2>4 DEF FamilyInv, KidRow, RootsUnclaimed, Quieted
<1>4. ASSUME Registered(Kid), UNCHANGED <<treeVars, execVars>>, state'[Kid] # "paused", state'[Kid] # "absent",
             \A u \in Exec : state'[u] = state[u] /\ claim'[u] = claim[u],
             state'[Kid] = "completed" \/ \A p \in Exec : Rests(p) => p \notin entry[Kid].lineage
      PROVE  FamilyInv'
  <2>1. \A p \in Exec : Rests(p)' => Rests(p)
    BY <1>1, <1>4 DEF Rests, TaskOf, execVars
  <2>2. \A p \in Exec : Rests(p)' => Quieted(p)'
    BY <1>4, <2>1 DEF Quieted, treeVars
  <2>3. KidRow' /\ RootsUnclaimed'
    BY <1>4 DEF FamilyInv, KidRow, RootsUnclaimed, treeVars
  <2>4. QED
    BY <1>2, <2>2, <2>3 DEF FamilyInv
<1>5. ASSUME NEW k \in Token, Claim(Kid, k)
      PROVE  FamilyInv'
  <2>1. ASSUME NEW p \in Exec, Rests(p), p \in entry[Kid].lineage
        PROVE  FALSE
    <3>1. Registered(Kid) /\ ClaimRefusal(Kid) = "none"
      BY <1>5 DEF Claim
    <3>2. state[Kid] # "completed"
      BY <3>1 DEF ClaimRefusal
    <3>3. ~entry[Kid].drain /\ desired[p] \in {"paused", "terminated"}
      BY <2>1, <3>1, <3>2 DEF FamilyInv, Quieted
    <3>4. IntentOf(Kid) \in {"paused", "terminated"}
      BY <2>1, <3>3 DEF IntentOf
    <3>5. QED
      BY <3>1, <3>3, <3>4 DEF ClaimRefusal
  <2>2. /\ state'[Kid] = "running" /\ UNCHANGED <<treeVars, execVars>> /\ Registered(Kid)
        /\ \A u \in Exec : state'[u] = state[u] /\ claim'[u] = claim[u]
    BY <1>1, <1>5 DEF Claim, RunInv, LedgerInv, TypeOK
  <2>3. QED
    BY <1>4, <2>1, <2>2
<1>6. ASSUME NEW k \in Token, FinishClaim(Kid, k, "succeeded")
      PROVE  FamilyInv'
  <2>1. Registered(Kid)
    BY <1>1, <1>6 DEF FinishClaim, RunInv, LedgerInv, Blank
  <2>2. /\ state'[Kid] = "completed" /\ UNCHANGED <<treeVars, execVars>>
        /\ \A u \in Exec : state'[u] = state[u] /\ claim'[u] = claim[u]
    BY <1>1, <1>6 DEF FinishClaim, RunInv, LedgerInv, TypeOK
  <2>3. QED
    BY <1>4, <2>1, <2>2
<1>7. CASE SettleUnstarted(Kid)
  <2>1. /\ Registered(Kid) /\ state'[Kid] = "completed" /\ UNCHANGED <<treeVars, execVars>>
        /\ \A u \in Exec : state'[u] = state[u] /\ claim'[u] = claim[u]
    BY <1>1, <1>7 DEF SettleUnstarted, Unstarted, PutReceipt, RunInv, LedgerInv, TypeOK
  <2>2. QED
    BY <1>4, <2>1
<1>8. QED
  BY <1>3, <1>5, <1>6, <1>7 DEF KidStep

\* Only finish() and recovery complete an execution task.
Opening(t) ==
  \/ Open(t, t)
  \/ \E d \in Intent : Change(t, d)
  \/ Receipt(t, "running", NoToken)
  \/ \E e, f \in Exec : Bind(t, e, f) \/ RestoreAttempt(t, e, f)

\* No such operation completes a task.
LEMMA OpeningKeeps ==
  ASSUME TypeOK, NEW t \in Task, Opening(t), NEW p \in Exec, state'[p] = "completed"
  PROVE  state[p] = "completed"
<1>1. p \in Task
  BY ExecFacts
<1>2. CASE Open(t, t)
  BY <1>1, <1>2 DEF Open, TypeOK
<1>3. CASE \E d \in Intent : Change(t, d)
  BY <1>3 DEF Change, runVars
<1>4. CASE Receipt(t, "running", NoToken)
  BY <1>1, <1>4 DEF Receipt, PutReceipt, TypeOK
<1>5. CASE \E e, f \in Exec : Bind(t, e, f)
  BY <1>1, <1>5 DEF Bind, TypeOK
<1>6. CASE \E e, f \in Exec : RestoreAttempt(t, e, f)
  BY <1>1, <1>6 DEF RestoreAttempt, TypeOK
<1>7. QED
  BY <1>2, <1>3, <1>4, <1>5, <1>6 DEF Opening

\* A step that completes no execution task, and that leaves a thread paused only if
\* nothing changed, brings no task to rest.
LEMMA PlainFamily ==
  ASSUME RunInv, FamilyInv, [TRNext]_trVars, ~KidStep,
         UNCHANGED taskVars \/ \E t \in Task : Opening(t),
         "resume" \notin Env => \A n \in Exec : drv'[n] \notin {"starting", "bound"},
         "resume" \notin Env /\ ctl'.state = "paused" => UNCHANGED <<taskVars, ctl>>
  PROVE  FamilyInv'
<1>1. ASSUME NEW p \in Exec, state'[p] = "completed"
      PROVE  state[p] = "completed" /\ desired'[p] \in {desired[p], "terminated"}
  <2>1. CASE UNCHANGED taskVars
    BY <1>1, <2>1 DEF taskVars
  <2>2. CASE \E t \in Task : Opening(t)
    BY <1>1, <2>2, OpeningKeeps, RestedKept DEF RunInv, LedgerInv
  <2>3. QED
    BY <2>1, <2>2
<1>2. ASSUME NEW p \in Exec, "resume" \notin Env, ctl'.state = "paused", p \in TaskOf(ctl.exec)'
      PROVE  Rests(p) /\ desired'[p] = desired[p]
  BY <1>2 DEF Rests, TaskOf, taskVars
<1>3. \A p \in Exec : Rests(p)' => Rests(p) /\ desired'[p] \in {desired[p], "terminated"}
  BY <1>1, <1>2 DEF Rests
<1>4. QED
  BY <1>3, FamilyKept

\* A run that ends or is confirmed paused is quiet: finish() asked.
LEMMA FinishFamily ==
  ASSUME RunInv, FamilyInv, [TRNext]_trVars, ~KidStep, (\E x \in Exec : OwnerFinish(x)) \/ SweepFinish
  PROVE  FamilyInv'
<1>1. PICK x \in Exec, st \in Final, input \in BOOLEAN :
        FinishedBy(x, st, input) /\ FinishTx(x, st, input) /\ UNCHANGED <<tool, exit, origin>>
  BY Finishers
<1>2. "resume" \notin Env => \A n \in Exec : drv'[n] \notin {"starting", "bound"}
  <2>1. /\ drv'[x] = drv[x] \/ drv'[x] = "over"
        /\ \A n \in Exec : n # x => drv'[n] = drv[n]
    BY <1>1, FinishDrivers
  <2>2. QED
    BY <2>1 DEF FamilyInv, Resumeless
<1>3. CASE FinishRefused(x)
  <2>1. UNCHANGED <<taskVars, ctl>>
    BY <1>1, <1>3 DEF FinishTx, threadVars
  <2>2. QED
    BY <1>2, <2>1, PlainFamily
<1>4. CASE ~FinishRefused(x)
  <2>1. PICK t \in TaskOf(ctl.exec) : Ending(x, t, st, input) /\ x = ctl.exec
    BY <1>1, <1>4, FinishEndings
  <2>2. /\ t \in Exec /\ state[t] # "completed" /\ TaskOf(ctl.exec) = {t}
        /\ ctl.exec \in Exec
    BY OwnTask DEF RunInv, LedgerInv, Owner
  <2>3. UNCHANGED taskVars \/ Receipt(t, "paused", NoToken) \/ Receipt(t, "completed", NoToken)
    BY <2>1 DEF Ending
  <2>4. /\ \A u \in Exec : /\ u # t => state'[u] = state[u]
                           /\ desired'[u] = desired[u] /\ attempts'[u] = attempts[u]
        /\ entry'[Kid] = entry[Kid] /\ state'[Kid] = state[Kid] /\ claim'[Kid] = claim[Kid]
        /\ Receipt(t, "completed", NoToken) \/ state'[t] # "completed"
    BY <2>2, <2>3, ExecFacts DEF Receipt, PutReceipt, treeVars, execVars, taskVars, RunInv, LedgerInv, TypeOK
  <2>5. \/ ctl'.state # "paused" /\ state'[t] # "completed"
        \/ Settled(t, Seen(t) = "pausing") /\ (ctl'.state = "paused" => ctl'.exec = ctl.exec)
    <3>1. /\ [ctl EXCEPT !.state = "input_wait"].state = "input_wait"
          /\ [ctl EXCEPT !.state = "paused"].exec = ctl.exec
          /\ \A p : [ctl EXCEPT !.state = "settling", !.pend = p].state = "settling"
          /\ [ctl EXCEPT !.state = Seen(t)].state = Seen(t)
          /\ NoRun.state = "none"
      BY DEF NoRun, RunInv, ThreadInv, ThreadTypes
    <3>2. CASE UNCHANGED taskVars /\ ctl'.state # "paused"
      BY <2>2, <3>2 DEF taskVars
    <3>3. CASE Receipt(t, "paused", NoToken) /\ ctl'.state = "input_wait"
      BY <2>2, <3>3, ExecFacts DEF Receipt, PutReceipt, RunInv, LedgerInv, TypeOK
    <3>4. CASE Seen(t) = "pausing" /\ Settled(t, TRUE) /\ ctl' = [ctl EXCEPT !.state = "paused"]
      BY <3>1, <3>4
    <3>5. CASE Settled(t, Seen(t) = "pausing") /\ ctl' = NoRun
      BY <3>1, <3>5
    <3>6. QED
      BY <2>1, <3>1, <3>2, <3>3, <3>4, <3>5 DEF Ending
  <2>6. Seen(t) = "pausing" => desired[t] = "paused"
    <3>1. ctl.state \notin {"paused", "input_wait"}
      BY <1>1, <1>4, FinishEndings
    <3>2. QED
      BY <2>2, <3>1, SeenIs, ExecFacts DEF RunInv, ThreadInv, Mode
  <2>7. ASSUME NEW p \in Exec, Rests(p)'
        PROVE  (Rests(p) /\ desired'[p] = desired[p]) \/ Quieted(p)'
    <3>1. CASE state'[p] = "completed" /\ p # t
      BY <2>4, <3>1 DEF Rests
    <3>2. CASE p = t
      <4>1. Settled(t, Seen(t) = "pausing")
        BY <2>5, <2>7, <3>2 DEF Rests
      <4>2. ASSUME Registered(Kid), t \in entry[Kid].lineage
            PROVE  \/ state[Kid] = "completed"
                   \/ /\ Seen(t) = "pausing" /\ state[Kid] = "queued" /\ claim[Kid] = NoToken
                      /\ ~entry[Kid].drain
        BY <2>2, <4>1, <4>2, SettledQuiet DEF FamilyInv
      <4>3. Quieted(t)'
        BY <2>2, <2>4, <2>6, <4>2 DEF Quieted
      <4>4. QED
        BY <3>2, <4>3
    <3>3. CASE state'[p] # "completed" /\ p # t
      <4>1. ctl'.state = "paused" /\ p \in TaskOf(ctl.exec)'
        BY <2>7, <3>3 DEF Rests
      <4>2. ctl'.exec = ctl.exec
        BY <2>5, <4>1
      <4>3. p \in TaskOf(ctl.exec)
        BY <2>4, <4>1, <4>2 DEF TaskOf
      <4>4. QED
        BY <2>2, <3>3, <4>3
    <3>4. QED
      BY <3>1, <3>2, <3>3
  <2>8. QED
    BY <1>2, <2>7, FamilyKept
<1>5. QED
  BY <1>3, <1>4

\* Recovery closes a run only if everything below it is completed.
LEMMA RecoverFamily ==
  ASSUME RunInv, FamilyInv, [TRNext]_trVars, ~KidStep, Recover
  PROVE  FamilyInv'
<1>1. UNCHANGED drv
  BY DEF Recover, driverVars
<1>2. "resume" \notin Env => \A n \in Exec : drv'[n] \notin {"starting", "bound"}
  BY <1>1 DEF FamilyInv, Resumeless
<1>3. PICK t \in TaskOf(ctl.exec) :
        \/ OrphanSettled(ctl.exec, t) /\ Retire(t) /\ ctl' = NoRun
        \/ Change(t, "terminated") /\ ctl' = [ctl EXCEPT !.state = "terminating"]
  BY DEF Recover
<1>4. t \in Exec /\ t \in Task
  BY OwnTask DEF RunInv, LedgerInv
<1>5. CASE Change(t, "terminated") /\ ctl' = [ctl EXCEPT !.state = "terminating"]
  <2>1. ctl'.state = "terminating" /\ Opening(t)
    BY <1>5 DEF RunInv, ThreadInv, ThreadTypes, Opening, Intent
  <2>2. QED
    BY <1>2, <1>4, <2>1, PlainFamily
<1>6. CASE OrphanSettled(ctl.exec, t) /\ Retire(t) /\ ctl' = NoRun
  <2>1. Settled(t, FALSE) /\ ctl'.state # "paused"
    BY <1>6 DEF OrphanSettled, NoRun
  <2>2. Touches(t)
    BY <1>6 DEF Touches
  <2>3. /\ entry'[Kid] = entry[Kid] /\ state'[Kid] = state[Kid] /\ claim'[Kid] = claim[Kid]
        /\ \A u \in Exec : u # t => state'[u] = state[u] /\ desired'[u] = desired[u]
    BY <1>4, <2>2, TouchKeeps DEF RunInv, LedgerInv
  <2>4. ASSUME Registered(Kid), t \in entry[Kid].lineage
        PROVE  state[Kid] = "completed"
    BY <1>4, <2>1, <2>4, SettledQuiet DEF FamilyInv
  <2>5. Quieted(t)'
    BY <2>3, <2>4 DEF Quieted
  <2>6. \A p \in Exec : Rests(p)' => (Rests(p) /\ desired'[p] = desired[p]) \/ Quieted(p)'
    BY <2>1, <2>3, <2>5 DEF Rests
  <2>7. QED
    BY <1>2, <2>6, FamilyKept
<1>7. QED
  BY <1>3, <1>5, <1>6

\* A termination brings no task to rest, and holds the child of one back as a pause does.
LEMMA TerminateFamily ==
  ASSUME RunInv, FamilyInv, [TRNext]_trVars, ~KidStep, NEW e \in Exec, Terminate(e)
  PROVE  FamilyInv'
<1>1. UNCHANGED <<ctl, drv>> /\ \E t \in Task : Change(t, "terminated")
  BY DEF Terminate, TaskOf, threadVars, driverVars
<1>2. UNCHANGED <<state, attempts>> /\ \A p \in Task : desired'[p] \in {desired[p], "terminated"}
  BY <1>1 DEF Change, runVars, execVars, RunInv, LedgerInv, TypeOK
<1>3. \A p \in Exec : Rests(p)' => Rests(p) /\ desired'[p] \in {desired[p], "terminated"}
  BY <1>1, <1>2, ExecFacts DEF Rests, TaskOf
<1>4. QED
  BY <1>1, <1>3, FamilyKept DEF FamilyInv, Resumeless

\* Every other step brings no task to rest.
LEMMA OtherFamily ==
  ASSUME RunInv, FamilyInv, [TRNext]_trVars, ~KidStep,
         \/ \E e \in Exec :
              \/ Start(e) \/ StartInput(e) \/ RequestPause(e) \/ Cancel(e) \/ ClaimResume(e)
              \/ GraphStep(e) \/ StageCheckpoint(e) \/ BindResumed(e) \/ BeginGraph(e) \/ ReleaseResume(e)
              \/ AdmitTool(e) \/ SettleTool(e) \/ Crash(e)
         \/ ListStopping \/ CheckDrained \/ ExpireLease \/ UNCHANGED trVars
  PROVE  FamilyInv'
<1>1. ASSUME UNCHANGED taskVars \/ \E t \in Task : Opening(t),
             ctl'.state # "paused" \/ UNCHANGED <<taskVars, ctl>>,
             \A n \in Exec : drv'[n] \in {"starting", "bound"} =>
               drv[n] \in {"starting", "bound"} \/ "resume" \in Env
      PROVE  FamilyInv'
  BY <1>1, PlainFamily DEF FamilyInv, Resumeless
<1>2. ASSUME NEW e \in Exec, NEW l \in {"running", "returned", "stopping", "ending", "dead"},
             drv' = [drv EXCEPT ![e] = l]
      PROVE  \A n \in Exec : drv'[n] \in {"starting", "bound"} => drv[n] \in {"starting", "bound"}
  BY <1>2 DEF RunInv, ThreadInv, ThreadTypes
<1>3. ASSUME NEW e \in Exec, Start(e)
      PROVE  FamilyInv'
  <2>1. e \in Task /\ Opening(e)
    BY <1>3, ExecFacts DEF Start, Opening
  <2>2. ctl'.state = "running" /\ drv' = [drv EXCEPT ![e] = "running"]
    BY <1>3 DEF Start, NoRun, Goto
  <2>3. \A n \in Exec : drv'[n] \in {"starting", "bound"} => drv[n] \in {"starting", "bound"}
    BY <1>2, <2>2
  <2>4. QED
    BY <1>1, <2>1, <2>2, <2>3
<1>4. ASSUME NEW e \in Exec, StartInput(e)
      PROVE  FamilyInv'
  <2>1. UNCHANGED taskVars \/ \E t \in Task : Opening(t)
    BY <1>4 DEF StartInput, Opening, TaskOf
  <2>2. ctl'.state # "paused" /\ drv' = [drv EXCEPT ![e] = "running"]
    BY <1>4 DEF StartInput, Goto, RunInv, ThreadInv, ThreadTypes
  <2>3. \A n \in Exec : drv'[n] \in {"starting", "bound"} => drv[n] \in {"starting", "bound"}
    BY <1>2, <2>2
  <2>4. QED
    BY <1>1, <2>1, <2>2, <2>3
<1>5. ASSUME NEW e \in Exec, RequestPause(e)
      PROVE  FamilyInv'
  <2>1. UNCHANGED taskVars \/ \E t \in Task : Opening(t)
    BY <1>5 DEF RequestPause, Opening, TaskOf, Intent
  <2>2. (ctl'.state # "paused" \/ UNCHANGED <<taskVars, ctl>>) /\ UNCHANGED drv
    BY <1>5 DEF RequestPause, threadVars, driverVars, RunInv, ThreadInv, ThreadTypes
  <2>3. QED
    BY <1>1, <2>1, <2>2
<1>6. ASSUME NEW e \in Exec, Cancel(e)
      PROVE  FamilyInv'
  <2>1. \E t \in Task : Opening(t)
    BY <1>6 DEF Cancel, Opening, TaskOf, Intent
  <2>2. ctl'.state = "terminating" /\ UNCHANGED drv
    BY <1>6 DEF Cancel, driverVars, RunInv, ThreadInv, ThreadTypes
  <2>3. QED
    BY <1>1, <2>1, <2>2
<1>7. ASSUME NEW e \in Exec, ClaimResume(e)
      PROVE  FamilyInv'
  <2>1. \E t \in Task : Opening(t)
    BY <1>7 DEF ClaimResume, Opening, TaskOf, Intent
  <2>2. ctl'.state = "running" /\ "resume" \in Env
    BY <1>7 DEF ClaimResume, RunInv, ThreadInv, ThreadTypes
  <2>3. QED
    BY <1>1, <2>1, <2>2
<1>8. ASSUME NEW n \in Exec, BindResumed(n) \/ ReleaseResume(n)
      PROVE  FamilyInv'
  <2>1. "resume" \in Env
    BY <1>8 DEF BindResumed, ReleaseResume, FamilyInv, Resumeless
  <2>2. UNCHANGED taskVars \/ \E t \in Task : Opening(t)
    <3>1. CASE BindResumed(n)
      <4>1. PICK t \in TaskOf(ctl.exec) : Bind(t, ctl.exec, n)
        BY <3>1 DEF BindResumed
      <4>2. ctl.exec \in Exec /\ t \in Task
        BY <4>1, OwnTask DEF RunInv, LedgerInv
      <4>3. QED
        BY <4>1, <4>2 DEF Opening
    <3>2. CASE ReleaseResume(n)
      BY <3>2 DEF ReleaseResume, Opening, TaskOf, Intent
    <3>3. QED
      BY <1>8, <3>1, <3>2
  <2>3. QED
    BY <2>1, <2>2, PlainFamily
<1>9. ASSUME NEW e \in Exec, GraphStep(e) \/ StageCheckpoint(e) \/ BeginGraph(e)
       PROVE  FamilyInv'
  <2>1. UNCHANGED taskVars /\ (UNCHANGED ctl \/ ctl'.state = "pausing")
    BY <1>9 DEF GraphStep, StageCheckpoint, BeginGraph, threadVars, RunInv, ThreadInv, ThreadTypes
  <2>2. \/ UNCHANGED drv
        \/ \E s \in {"returned", "stopping", "ending", "running"} : drv' = [drv EXCEPT ![e] = s]
    BY <1>9 DEF GraphStep, StageCheckpoint, BeginGraph, Returns, Goto
  <2>3. \A n \in Exec : drv'[n] \in {"starting", "bound"} => drv[n] \in {"starting", "bound"}
    BY <1>2, <2>2
  <2>4. QED
    BY <1>1, <2>1, <2>3
<1>10. ASSUME NEW e \in Exec, AdmitTool(e) \/ SettleTool(e) \/ Crash(e)
       PROVE  FamilyInv'
  <2>1. UNCHANGED <<taskVars, ctl>> /\ (UNCHANGED drv \/ drv' = [drv EXCEPT ![e] = "dead"])
    BY <1>10 DEF AdmitTool, SettleTool, Crash, Goto, threadVars, driverVars
  <2>2. \A n \in Exec : drv'[n] \in {"starting", "bound"} => drv[n] \in {"starting", "bound"}
    BY <1>2, <2>1
  <2>3. QED
    BY <1>1, <2>1, <2>2
<1>11. ASSUME ListStopping \/ CheckDrained \/ ExpireLease \/ UNCHANGED trVars
       PROVE  FamilyInv'
  <2>1. UNCHANGED <<taskVars, ctl, drv>>
    BY <1>11 DEF ListStopping, CheckDrained, ExpireLease, trVars, threadVars, driverVars
  <2>2. QED
    BY <1>1, <2>1
<1>12. QED
  BY <1>3, <1>4, <1>5, <1>6, <1>7, <1>8, <1>9, <1>10, <1>11

\* Before anything is registered.
LEMMA FamilyInvInit == TRInit => FamilyInv
  BY ExecFacts
     DEF TRInit, TaskInit, NoRun, FamilyInv, KidRow, RootsUnclaimed, Resumeless, Rests, Quieted

\* Every step keeps it.
LEMMA FamilyInvStep == RunInv /\ FamilyInv /\ [TRNext]_trVars => FamilyInv'
<1> SUFFICES ASSUME RunInv, FamilyInv, [TRNext]_trVars PROVE FamilyInv'
  OBVIOUS
<1>1. CASE KidStep
  BY <1>1, KidFamily
<1>2. CASE ~KidStep
  BY <1>2, FinishFamily, RecoverFamily, TerminateFamily, OtherFamily DEF TRNext, Driver, Maintain
<1>3. QED
  BY <1>1, <1>2

\* The child's row and the rest of a run agree in every state.
LEMMA FamilyInvariant == TRSpec => []FamilyInv
  BY FamilyInvInit, FamilyInvStep, RunInvariant, PTL DEF TRSpec

\* Whoever holds an admission is the child of a task that is not completed.
LEMMA ClaimedBelow ==
  ASSUME RunInv, FamilyInv, NEW d \in Task, claim[d] # NoToken
  PROVE  d = Kid /\ \E t \in TaskOf(ctl.exec) : d \in Descendants(t) /\ ~Rests(t)
<1>1. d = Kid /\ Registered(Kid) /\ state[Kid] # "completed"
  BY ExecFacts DEF RunInv, LedgerInv, Blank, Unheld, FamilyInv, RootsUnclaimed
<1>2. PICK p \in Exec : Registered(p) /\ entry[Kid].lineage = {p, Kid}
  BY <1>1 DEF FamilyInv, KidRow
<1>3. ~Rests(p)
  BY <1>1, <1>2 DEF FamilyInv, Quieted
<1>4. p \in OpenTasks
  BY <1>2, <1>3, ExecFacts DEF OpenTasks, Rests
<1>5. Owner(p) /\ p \in Task
  BY <1>4, ExecFacts DEF RunInv, Held, Owner
<1>6. p \in TaskOf(ctl.exec)
  BY <1>2, <1>5 DEF Owner, RunInv, Tree, TaskOf
<1>7. Kid \in Descendants(p)
  BY <1>2, ExecFacts DEF Descendants
<1>8. QED
  BY <1>1, <1>3, <1>6, <1>7

\* Under every request and fault: a child is admitted only while the run it belongs to
\* occupies the thread, so a freed thread, and the next run on it, share nothing with it.
THEOREM FamiliesDoNotOverlap == TRSpec => []NoFamilyOverlap
<1>1. RunInv /\ FamilyInv => NoFamilyOverlap
  BY ClaimedBelow DEF NoFamilyOverlap
<1>2. QED
  BY <1>1, RunInvariant, FamilyInvariant, PTL

\* As long as nobody resumes, no child of a run that is confirmed paused is admitted.
\* A resume that fails after it was claimed breaks it, as it breaks PausedRunIsQuiet.
THEOREM PausedThreadQuiet ==
  ASSUME "resume" \notin Env
  PROVE  TRSpec => []PausedThreadIsQuiet
<1>1. RunInv /\ FamilyInv => PausedThreadIsQuiet
  BY ClaimedBelow DEF PausedThreadIsQuiet, Rests
<1>2. QED
  BY <1>1, RunInvariant, FamilyInvariant, PTL

(***************************************************************************)
(* The thread implements the contract of its runs                          *)
(***************************************************************************)
Stages == [t \in Exec |-> Stage(t)]
Works  == [t \in Exec |-> Working(t)]

\* The runs that the contract takes for open are the open tasks.
LEMMA OpenRuns == \A t \in Exec : t \in OpenTasks <=> Stage(t) = "open"
  BY ExecFacts DEF OpenTasks, Stage

\* What works belongs to the open run.
LEMMA WorkIsOpen ==
  ASSUME RunInv, FamilyInv, NEW t \in Exec, Working(t)
  PROVE  Stage(t) = "open"
<1>1. t \in TaskOf(ctl.exec)
  <2>1. CASE \E e \in attempts[t] : tool[e] # "none"
    <3>1. PICK e \in attempts[t] : tool[e] # "none"
      BY <2>1
    <3>2. t \in Task /\ e \in Exec
      BY ExecFacts DEF RunInv, LedgerInv, TypeOK, Exec
    <3>3. ctl.exec = e
      BY <3>1, <3>2 DEF RunInv, ThreadInv, ToolsInv
    <3>4. QED
      BY <3>2, <3>3 DEF TaskOf
  <2>2. CASE \E d \in Descendants(t) : claim[d] # NoToken
    <3>1. PICK d \in Descendants(t) : claim[d] # NoToken
      BY <2>2
    <3>2. d \in Task
      BY DEF Descendants
    <3>3. d = Kid /\ \E u \in TaskOf(ctl.exec) : Kid \in Descendants(u)
      BY <3>1, <3>2, ClaimedBelow
    <3>4. PICK u \in TaskOf(ctl.exec) : Kid \in Descendants(u)
      BY <3>3
    <3>5. Registered(Kid) /\ u \in Exec
      BY <3>1, <3>3, <3>4, OwnTask, ExecFacts DEF RunInv, LedgerInv, Blank
    <3>6. u = t
      BY <3>3, <3>4, <3>5, ExecFacts DEF Descendants, FamilyInv, KidRow
    <3>7. QED
      BY <3>4, <3>6
  <2>3. QED
    BY <2>1, <2>2 DEF Working
<1>2. t \in OpenTasks
  BY <1>1, OwnTask DEF RunInv, LedgerInv, Owner
<1>3. QED
  BY <1>2, OpenRuns

\* The thread holds at most one open run, and what works belongs to it.
Orderly ==
  /\ \A t, u \in Exec : Stage(t) = "open" /\ Stage(u) = "open" => t = u
  /\ \A t \in Exec : Working(t) => Stage(t) = "open"

\* So it is in every state of the inductive invariants, and after every step.
LEMMA RunsOrderly == RunInv /\ FamilyInv => Orderly
<1> SUFFICES ASSUME RunInv, FamilyInv PROVE Orderly
  OBVIOUS
<1>1. ASSUME NEW t \in Exec, NEW u \in Exec, Stage(t) = "open", Stage(u) = "open"
      PROVE  t = u
  <2>1. t \in OpenTasks /\ u \in OpenTasks
    BY <1>1, OpenRuns
  <2>2. QED
    BY <2>1 DEF RunInv, Held, Owner
<1>2. QED
  BY <1>1, WorkIsOpen DEF Orderly

LEMMA RunsOrderlyNext == RunInv' /\ FamilyInv' => Orderly'
  BY RunsOrderly, PTL

\* The stage of a task changes by its opening, or by its end.
LEMMA TouchStage ==
  ASSUME TypeOK, Blank, NEW t \in Exec, state[t] # "completed", Touches(t)
  PROVE  /\ Stage(t)' = Stage(t) \/ <<Stage(t), Stage(t)'>> \in {<<"new", "open">>, <<"open", "closed">>}
         /\ Registered(t) => attempts[t] \subseteq attempts'[t]
<1>1. t \in Task
  BY ExecFacts
<1>2. CASE Open(t, t)
  BY <1>1, <1>2 DEF Open, TaskOf, Stage, TypeOK
<1>3. CASE \E d \in Intent : Change(t, d)
  BY <1>1, <1>3 DEF Change, Stage, runVars, execVars
<1>4. CASE \E s \in {"running", "paused", "completed"} : Receipt(t, s, NoToken)
  BY <1>1, <1>4 DEF Receipt, ReceiptAccepted, PutReceipt, Stage, TypeOK, execVars
<1>5. CASE \E e, f \in Exec : Bind(t, e, f)
  BY <1>1, <1>5, ExecFacts DEF Bind, Blank, Stage, TypeOK
<1>6. CASE \E e, f \in Exec : RestoreAttempt(t, e, f)
  BY <1>1, <1>6, ExecFacts DEF RestoreAttempt, Blank, Stage, TypeOK
<1>7. CASE Retire(t)
  BY <1>1, <1>7 DEF Retire, PutReceipt, Stage, TypeOK, execVars
<1>8. QED
  BY <1>2, <1>3, <1>4, <1>5, <1>6, <1>7 DEF Touches

\* A step that writes the task ledger leaves the tools alone.
LEMMA ToolsOrTasks ==
  ASSUME [TRNext]_trVars
  PROVE  UNCHANGED tool \/ UNCHANGED taskVars
<1>1. ASSUME NEW e \in Exec, AdmitTool(e) \/ SettleTool(e) \/ Crash(e)
      PROVE  UNCHANGED taskVars
  BY <1>1 DEF AdmitTool, SettleTool, Crash
<1>2. ASSUME NEW e \in Exec, \/ Start(e) \/ StartInput(e) \/ RequestPause(e) \/ Cancel(e)
                             \/ Terminate(e) \/ ClaimResume(e) \/ Driver(e)
      PROVE  UNCHANGED tool
  BY <1>2 DEF Start, StartInput, RequestPause, Cancel, Terminate, ClaimResume, Driver, GraphStep, StageCheckpoint,
              OwnerFinish, BindResumed, BeginGraph, ReleaseResume
<1>3. ASSUME KidStep \/ Maintain \/ ExpireLease \/ Recover \/ UNCHANGED trVars
      PROVE  UNCHANGED tool
  BY <1>3 DEF KidStep, Maintain, ListStopping, CheckDrained, SweepFinish, ExpireLease, Recover, trVars
<1>4. QED
  BY <1>1, <1>2, <1>3 DEF TRNext

\* In one step at most one run changes its stage, and then no tool is called or returns.
LEMMA StageStep ==
  ASSUME RunInv, [TRNext]_trVars
  PROVE  \/ \A u \in Exec : Stage(u)' = Stage(u)
         \/ /\ ~KidStep /\ UNCHANGED tool
            /\ \E t \in Exec :
                 /\ <<Stage(t), Stage(t)'>> \in {<<"new", "open">>, <<"open", "closed">>}
                 /\ Registered(t) => attempts[t] \subseteq attempts'[t]
                 /\ \A u \in Exec : u # t => Stage(u)' = Stage(u)
<1>1. CASE KidStep
  BY <1>1, ChildStep DEF RunInv, Stage
<1>2. CASE UNCHANGED taskVars
  BY <1>2 DEF taskVars, Stage
<1>3. CASE ~KidStep /\ UNCHANGED tool /\ \E t \in Exec : state[t] # "completed" /\ Touches(t)
  <2>1. PICK t \in Exec : state[t] # "completed" /\ Touches(t)
    BY <1>3
  <2>2. \A u \in Exec : u # t => Stage(u)' = Stage(u)
    BY <2>1, TouchKeeps DEF RunInv, LedgerInv, Stage
  <2>3. /\ Stage(t)' = Stage(t) \/ <<Stage(t), Stage(t)'>> \in {<<"new", "open">>, <<"open", "closed">>}
        /\ Registered(t) => attempts[t] \subseteq attempts'[t]
    BY <2>1, TouchStage DEF RunInv, LedgerInv
  <2>4. QED
    BY <1>3, <2>2, <2>3
<1>4. CASE \E t \in Exec : Change(t, "terminated")
  BY <1>4 DEF Change, runVars, Stage
<1>5. QED
  BY <1>1, <1>2, <1>3, <1>4, StepTouches, ToolsOrTasks

\* Nothing works while a run begins, and nothing is left to do when it ends.
LEMMA QuietTurn ==
  ASSUME RunInv, RunInv', FamilyInv, FamilyInv', [TRNext]_trVars, ~KidStep, UNCHANGED tool, NEW t \in Exec,
         <<Stage(t), Stage(t)'>> \in {<<"new", "open">>, <<"open", "closed">>},
         Registered(t) => attempts[t] \subseteq attempts'[t],
         \A u \in Exec : u # t => Stage(u)' = Stage(u)
  PROVE  /\ \A u \in Exec : ~Working(u) /\ ~Working(u)'
         /\ Stage(t) = "new" => \A u \in Exec : Stage(u) # "open"
<1>1. /\ entry'[Kid] = entry[Kid] /\ claim'[Kid] = claim[Kid]
      /\ \A u \in Exec : claim[u] = NoToken /\ claim'[u] = NoToken
  <2>1. CASE UNCHANGED taskVars
    BY <2>1 DEF taskVars, FamilyInv, RootsUnclaimed
  <2>2. CASE \E u \in Exec : Touches(u)
    BY <2>2, TouchKeeps DEF RunInv, LedgerInv, FamilyInv, RootsUnclaimed
  <2>3. \A u \in Exec : Change(u, "terminated") => Touches(u)
    BY DEF Touches, Intent
  <2>4. QED
    BY <2>1, <2>2, <2>3, StepTouches
<1>2. Orderly /\ Orderly'
  BY RunsOrderly, RunsOrderlyNext
<1>3. CASE Stage(t) = "new"
  <2>1. \A u \in Exec : Stage(u) # "open"
    BY <1>2, <1>3 DEF Orderly
  <2>2. \A u \in Exec : ~Working(u)
    BY <1>2, <2>1 DEF Orderly
  <2>3. ctl.exec \notin Exec
    BY <2>1, ExecFacts, OpenRuns DEF RunInv, Held, Owner
  <2>4. \A e \in Exec : tool[e] = "none"
    BY <2>3 DEF RunInv, ThreadInv, ToolsInv
  <2>5. \A d \in Task : claim[d] = NoToken
    BY <2>3, ClaimedBelow, OwnTask DEF RunInv, LedgerInv
  <2>6. \A d \in Task : claim'[d] = NoToken
    BY <1>1, <2>5, ExecFacts
  <2>7. \A u \in Exec : attempts'[u] \subseteq Exec
    BY ExecFacts DEF RunInv, LedgerInv, TypeOK, Exec
  <2>8. \A u \in Exec : ~Working(u)'
    BY <2>4, <2>6, <2>7 DEF Working, Descendants
  <2>9. QED
    BY <2>1, <2>2, <2>8
<1>4. CASE Stage(t) = "open"
  <2>1. \A u \in Exec : Stage(u)' # "open"
    BY <1>2, <1>4 DEF Orderly
  <2>2. \A u \in Exec : ~Working(u)'
    BY <1>2, <2>1 DEF Orderly
  <2>3. \A u \in Exec : u # t => ~Working(u)
    BY <1>2, <1>4 DEF Orderly
  <2>4. ~Working(t)
    <3>1. \A e \in attempts[t] : tool[e] = "none"
      BY <1>4, <2>2 DEF Working, Stage
    <3>2. \A d \in Descendants(t) : claim[d] = NoToken
      <4>1. \A d \in Task : d # Kid => claim[d] = NoToken
        BY <1>1, ExecFacts
      <4>2. Kid \in Descendants(t) => Kid \in Descendants(t)'
        BY <1>1, ExecFacts DEF Descendants
      <4>3. Kid \in Descendants(t) => claim[Kid] = NoToken
        BY <1>1, <2>2, <4>2 DEF Working
      <4>4. QED
        BY <4>1, <4>3 DEF Descendants
    <3>3. QED
      BY <3>1, <3>2 DEF Working
  <2>5. QED
    BY <1>4, <2>2, <2>3, <2>4
<1>5. QED
  BY <1>3, <1>4

\* If no stage changes, at most the open run works differently.
LEMMA WorkStep ==
  ASSUME Orderly, Orderly', \A u \in Exec : Stage(u)' = Stage(u)
  PROVE  Turns!Next \/ (Stages' = Stages /\ Works' = Works)
<1>1. Stages' = Stages
  BY DEF Stages
<1>2. CASE \A u \in Exec : Working(u)' = Working(u)
  BY <1>1, <1>2 DEF Works
<1>3. ASSUME NEW t \in Exec, Working(t)' # Working(t)
      PROVE  Turns!Next
  <2>1. Stage(t) = "open" /\ Stage(t)' = "open"
    <3>1. Working(t) \in BOOLEAN /\ Working(t)' \in BOOLEAN
      BY DEF Working
    <3>2. Working(t) \/ Working(t)'
      BY <1>3, <3>1, Zenon
    <3>3. QED
      BY <3>2 DEF Orderly
  <2>2. \A u \in Exec : u # t => ~Working(u) /\ ~Working(u)'
    BY <2>1 DEF Orderly
  <2>3. Works' = [Works EXCEPT ![t] = ~@]
    <3>1. \A u \in Exec : Working(u) \in BOOLEAN /\ Working(u)' \in BOOLEAN
      BY DEF Working
    <3>2. /\ Working(t)' = ~Working(t)
          /\ \A u \in Exec : u # t => Working(u)' = Working(u)
      BY <1>3, <2>2, <3>1, Zenon
    <3>3. QED
      BY <3>2, Zenon DEF Works
  <2>4. QED
    BY <1>1, <2>1, <2>3 DEF Turns!Next, Turns!Work, Stages, Works
<1>4. QED
  BY <1>2, <1>3

\* Every step of the thread is a step of the contract, or invisible to it.
LEMMA TurnStep ==
  ASSUME RunInv, FamilyInv, [TRNext]_trVars
  PROVE  [Turns!Next]_(Turns!turnVars)
<1>1. RunInv' /\ FamilyInv'
  BY RunInvStep, FamilyInvStep
<1>2. Orderly /\ Orderly'
  BY <1>1, RunsOrderly, RunsOrderlyNext
<1>3. CASE \A u \in Exec : Stage(u)' = Stage(u)
  BY <1>2, <1>3, WorkStep DEF Turns!turnVars, Stages, Works
<1>4. ASSUME ~KidStep, UNCHANGED tool, NEW t \in Exec,
             <<Stage(t), Stage(t)'>> \in {<<"new", "open">>, <<"open", "closed">>},
             Registered(t) => attempts[t] \subseteq attempts'[t],
             \A u \in Exec : u # t => Stage(u)' = Stage(u)
      PROVE  Turns!Next
  <2>1. /\ \A u \in Exec : ~Working(u) /\ ~Working(u)'
        /\ Stage(t) = "new" => \A u \in Exec : Stage(u) # "open"
    BY <1>1, <1>4, QuietTurn
  <2>2. Works' = Works /\ ~Works[t]
    <3>1. \A u \in Exec : Working(u) = FALSE /\ Working(u)' = FALSE
      BY <2>1, Zenon DEF Working
    <3>2. QED
      BY <3>1, Zenon DEF Works
  <2>3. Stages' = [Stages EXCEPT ![t] = Stage(t)']
    BY <1>4 DEF Stages
  <2>4. CASE Stage(t) = "new" /\ Stage(t)' = "open"
    BY <2>1, <2>2, <2>3, <2>4 DEF Turns!Next, Turns!Begin, Turns!Open, Stages, Works
  <2>5. CASE Stage(t) = "open" /\ Stage(t)' = "closed"
    BY <2>2, <2>3, <2>5 DEF Turns!Next, Turns!End, Stages, Works
  <2>6. QED
    BY <1>4, <2>4, <2>5
<1>5. QED
  BY <1>3, <1>4, StageStep

\* At first every run is new.
LEMMA TurnInit == TRInit => Turns!Init
<1> SUFFICES ASSUME TRInit PROVE Turns!Init
  OBVIOUS
<1>1. \A t \in Exec : Stage(t) = "new" /\ ~Working(t)
  BY ExecFacts DEF TRInit, TaskInit, Stage, Working, Descendants
<1>2. \E first \in SUBSET Exec :
        /\ \A r, s \in first : r = s
        /\ [t \in Exec |-> Stage(t)] = [r \in Exec |-> IF r \in first THEN "open" ELSE "new"]
  <2>1. WITNESS {} \in SUBSET Exec
  <2>2. QED
    BY <1>1
<1>3. [t \in Exec |-> Working(t)] = [r \in Exec |-> FALSE]
  <2>1. \A t \in Exec : Working(t) = FALSE
    BY <1>1, Zenon DEF Working
  <2>2. QED
    BY <2>1, Zenon
<1>4. QED
  BY <1>2, <1>3, Zenon DEF Turns!Init

\* Whatever users, processes and maintenance do, the runs of a thread take turns: one
\* begins only when no other is open, works only while it is open, and ends once, with its
\* tools returned and no child of it admitted.
THEOREM RunsTakeTurns == TRSpec => RunsInTurnSpec
  BY RunInvariant, FamilyInvariant, TurnInit, TurnStep, PTL DEF TRSpec, RunsInTurnSpec, Turns!Spec
====
