------------------------ MODULE HandoffRelay_proofs ------------------------
(***************************************************************************)
(* Proofs, for any number of messages and processes and under every fault, *)
(* that controlled handoff messages are a client of the task ledger, that  *)
(* a processor is called at most once, and that what is said of a message  *)
(* is what became of it.                                                   *)
(***************************************************************************)
EXTENDS HandoffRelay, TaskControl_proofs

USE DEF Registered

(***************************************************************************)
(* The slots' locals                                                       *)
(***************************************************************************)
Working == {"claimed", "handler", "checking", "body", "storing", "outbound", "closing",
            "resolving", "failing", "withheld", "exited"}

\* What a slot's place says of its locals.
LocalsInv ==
  \A s \in Process :
    /\ pc[s] \notin {"idle", "dead"} => on[s] \in Message
    /\ pc[s] \in Working => how[s] \in {"succeeded", "failed"}
    /\ pc[s] \in {"storing", "outbound", "closing", "resolving"} => said[s] \in Reply

\* The types of everything but the ledger.
RelayTypes ==
  /\ answer \in [Message -> Reply \cup {"none"}]
  /\ waiter \in [Message -> Reply \cup {"none", "waiting", "rejected", "gone"}]
  /\ home \in [Message -> Process \cup {NoProcess}]
  /\ job \in [Message -> {"none", "waiting", "finished", "failed"} \cup Process]
  /\ pc \in [Process -> SlotAt]
  /\ on \in [Process -> Message \cup {NoTask}]
  /\ said \in [Process -> Reply \cup {"none"}]
  /\ how \in [Process -> Outcome]
  /\ processed \subseteq Message /\ stopping \subseteq Message /\ scan \subseteq Message

RelayInv == RelayTypes /\ LocalsInv

\* Messages and jobs are different tasks.
LEMMA Kinds ==
  /\ Run \in Task /\ Handoff = Message /\ \A m \in Message : m # Run
  /\ \A m \in Message : m \in Task /\ JobOf[m] \in Task /\ JobOf[m] \notin Message
  /\ \A m, n \in Message : JobOf[m] = JobOf[n] => m = n
  /\ \A s \in Process : s # NoToken
  /\ Message \cup Jobs \subseteq Task
  BY RelayAssumption, KindAssumption, NoTokenAssumption DEF Jobs

(***************************************************************************)
(* Every step is a ledger operation or none                                *)
(***************************************************************************)
\* Publication, the receipts and the answers are methods of the store.
LEMMA Methods ==
  ASSUME TypeOK
  PROVE  /\ \A m \in Task, p \in Task, pol \in Policy, drain \in BOOLEAN :
              Publish(m, p, pol, drain) => TaskNext
         /\ \A m \in Message, s \in Receipts : PutState(m, s) => [TaskNext]_taskVars
         /\ \A m \in Message : \A r : PutAnswer(m, r) => [TaskNext]_taskVars
         /\ \A t \in Task : Published(t) => TaskNext
         /\ \A t \in Task : SettleUnstarted(t) => TaskNext
         /\ \A t \in Task, d \in Intent : Change(t, d) => TaskNext
  BY Kinds DEF TaskNext, PutState, PutAnswer

\* A slot's step calls at most one method of the store.
LEMMA SlotStepsLedger ==
  ASSUME TypeOK, RelayInv, NEW s \in Process, ProcessNext(s)
  PROVE  [TaskNext]_taskVars
<1>1. pc[s] \notin {"idle", "dead"} => on[s] \in Message /\ JobOf[on[s]] \in Task
  BY Kinds DEF RelayInv, LocalsInv
<1>2. CASE ClaimJob(s)
  BY <1>1, <1>2, RelayAssumption DEF ClaimJob, TaskNext
<1>3. CASE TurnAway(s)
  <2>1. CASE Receipt(JobOf[on[s]], "completed", NoToken)
    BY <1>1, <1>3, <2>1 DEF TurnAway, TaskNext, Receipts
  <2>2. QED
    BY <1>3, <2>1 DEF TurnAway
<1>4. CASE Finish(s)
  <2>1. how[s] \in {"succeeded", "failed"} /\ s \in Token
    BY <1>4, RelayAssumption DEF Finish, RelayInv, LocalsInv, Working
  <2>2. CASE FinishClaim(JobOf[on[s]], s, how[s])
    BY <1>1, <1>4, <2>1, <2>2 DEF Finish, TaskNext
  <2>3. QED
    BY <1>4, <2>2 DEF Finish
<1>5. CASE Admit(s) \/ Close(s) \/ Doubt(s)
  BY <1>1, <1>5, Methods DEF Admit, Close, Doubt, Receipts
<1>6. CASE Store(s) \/ Fail(s)
  BY <1>1, <1>6, Methods DEF Store, Fail
<1>7. CASE SendOutbound(s)
  BY <1>1, <1>7, Methods, Kinds DEF SendOutbound, Policy
<1>8. CASE \/ Begin(s) \/ Dispatch(s) \/ (\E r \in Reply : Return(s, r)) \/ Resolve(s)
           \/ Throw(s) \/ StatementFails(s) \/ Crash(s) \/ Restart(s)
           \/ \E m \in Message : Deliver(s, m)
  BY <1>8 DEF Begin, Dispatch, Return, Resolve, Throw, StatementFails, Crash, Restart, Deliver
<1>9. QED
  BY <1>2, <1>3, <1>4, <1>5, <1>6, <1>7, <1>8 DEF ProcessNext, HandlerStep

\* No step bypasses the store.
LEMMA StepsLedger ==
  ASSUME TypeOK, RelayInv, [RelayNext]_relayVars
  PROVE  [TaskNext]_taskVars
<1>1. ASSUME NEW m \in Message, MessageNext(m)
      PROVE  [TaskNext]_taskVars
  <2>1. \A p \in Task : Enqueue(m, p) => TaskNext
    BY Methods, Kinds DEF Enqueue, Policy
  <2>2. \A p \in Task, s \in Process : EnqueueAndWait(m, p, s) => TaskNext
    BY Methods, Kinds DEF EnqueueAndWait, Policy
  <2>3. PublishControlled(m) => TaskNext
    <3>1. entry[m].drain \in BOOLEAN
      BY Kinds DEF TypeOK, Entry
    <3>2. QED
      BY <3>1, Methods, Kinds DEF PublishControlled, Policy
  <2>4. MarkPublished(m) \/ AddJob(m) => TaskNext
    BY Methods, Kinds DEF MarkPublished, AddJob
  <2>5. Stop(m) => TaskNext
    BY Methods, Kinds DEF Stop, Intent
  <2>6. ScanChildren(m) => [TaskNext]_taskVars
    BY Methods DEF ScanChildren, Receipts
  <2>7. Stall(m) \/ Poll(m) \/ TimeOut(m) \/ StopWaiter(m) \/ ScanOn(m) => UNCHANGED taskVars
    BY DEF Stall, Poll, TimeOut, StopWaiter, ScanOn
  <2>8. QED
    BY <1>1, <2>1, <2>2, <2>3, <2>4, <2>5, <2>6, <2>7 DEF MessageNext
<1>2. ASSUME NEW t \in Task, SettleTask(t)
      PROVE  [TaskNext]_taskVars
  BY <1>2, Methods DEF SettleTask
<1>3. ASSUME NEW d \in Intent, ControlRun(d)
      PROVE  [TaskNext]_taskVars
  BY <1>3, Methods, Kinds DEF ControlRun
<1>4. CASE UNCHANGED relayVars
  BY <1>4 DEF relayVars
<1>5. QED
  BY <1>1, <1>2, <1>3, <1>4, SlotStepsLedger DEF RelayNext

(***************************************************************************)
(* Types and locals are kept                                               *)
(***************************************************************************)
\* A slot's step keeps the types and the locals.
LEMMA SlotKeepsLocals ==
  ASSUME RelayInv, NEW s \in Process, ProcessNext(s)
  PROVE  RelayInv'
<1> USE DEF RelayInv, RelayTypes, LocalsInv, Working, waitVars, Goto, Reply, SlotAt
<1>1. CASE \E m \in Message : Deliver(s, m)
  BY <1>1 DEF Deliver
<1>2. CASE ClaimJob(s)
  BY <1>2 DEF ClaimJob, Outcome
<1>3. CASE TurnAway(s)
  BY <1>3 DEF TurnAway, Release, Free, Outcome
<1>4. CASE Begin(s)
  BY <1>4 DEF Begin
<1>5. CASE Admit(s) \/ Dispatch(s)
  BY <1>5 DEF Admit, Dispatch, Call
<1>6. CASE \E r \in Reply : Return(s, r)
  BY <1>6 DEF Return
<1>7. CASE Store(s) \/ Fail(s)
  <2>1. answer' \in [Message -> Reply \cup {"none"}]
    BY <1>7 DEF Store, Fail, PutAnswer
  <2>2. CASE Store(s)
    BY <2>1, <2>2 DEF Store
  <2>3. CASE Fail(s)
    BY <2>1, <2>3 DEF Fail
  <2>4. QED
    BY <1>7, <2>2, <2>3
<1>8. CASE SendOutbound(s)
  BY <1>8, ZenonT(40) DEF SendOutbound
<1>9. CASE Close(s) \/ Doubt(s)
  BY <1>9 DEF Close, Doubt
<1>10. CASE Resolve(s)
  BY <1>10 DEF Resolve, Outcome
<1>11. CASE Finish(s)
  BY <1>11 DEF Finish, Release, Free, Outcome
<1>12. CASE Throw(s) \/ StatementFails(s) \/ Restart(s)
  BY <1>12 DEF Throw, StatementFails, Restart
<1>13. CASE Crash(s)
  BY <1>13 DEF Crash, Free, Outcome
<1>14. QED
  BY <1>1, <1>2, <1>3, <1>4, <1>5, <1>6, <1>7, <1>8, <1>9, <1>10, <1>11, <1>12, <1>13
  DEF ProcessNext, HandlerStep

\* Every step keeps them.
LEMMA RelayStep ==
  ASSUME RelayInv, [RelayNext]_relayVars
  PROVE  RelayInv'
<1> USE DEF RelayInv, RelayTypes, LocalsInv, waitVars, slotVars
<1>1. ASSUME NEW m \in Message, MessageNext(m)
      PROVE  RelayInv'
  <2>1. ASSUME NEW p \in Task, Enqueue(m, p) \/ \E s \in Process : EnqueueAndWait(m, p, s)
        PROVE  RelayInv'
    <3>1. CASE Enqueue(m, p)
      BY <3>1 DEF Enqueue
    <3>2. ASSUME NEW s \in Process, EnqueueAndWait(m, p, s)
          PROVE  RelayInv'
      BY <3>2 DEF EnqueueAndWait
    <3>3. QED
      BY <2>1, <3>1, <3>2
  <2>2. CASE PublishControlled(m) \/ MarkPublished(m) \/ AddJob(m) \/ Stall(m)
    BY <2>2 DEF PublishControlled, MarkPublished, AddJob, Stall
  <2>3. CASE Poll(m)
    BY <2>3 DEF Poll
  <2>4. CASE TimeOut(m) \/ Stop(m) \/ StopWaiter(m)
    BY <2>4 DEF TimeOut, Stop, StopWaiter
  <2>5. CASE ScanOn(m) \/ ScanChildren(m)
    BY <2>5 DEF ScanOn, ScanChildren
  <2>6. QED
    BY <1>1, <2>1, <2>2, <2>3, <2>4, <2>5 DEF MessageNext
<1>2. ASSUME NEW t \in Task, SettleTask(t)
      PROVE  RelayInv'
  BY <1>2 DEF SettleTask, Reply
<1>3. ASSUME NEW d \in Intent, ControlRun(d)
      PROVE  RelayInv'
  BY <1>3 DEF ControlRun
<1>4. CASE UNCHANGED relayVars
  BY <1>4 DEF relayVars
<1>5. QED
  BY <1>1, <1>2, <1>3, <1>4, SlotKeepsLocals DEF RelayNext

\* A row that does not exist has no ancestry to inherit an intent from.
Rootless == \A t \in Task : ~Registered(t) => entry[t].lineage = {}

BaseInv == RelayInv /\ LedgerInv /\ CancelInv /\ Rootless

\* The run's own row is the only one at the start.
LEMMA BaseInit == RelayInit => BaseInv
<1> SUFFICES ASSUME RelayInit PROVE BaseInv
  OBVIOUS
<1>1. RelayInv
  BY DEF RelayInit, RelayInv, RelayTypes, LocalsInv, SlotAt, Outcome, Working, Reply
<1>2. Run \in Task
  BY Kinds
<1>3. TypeOK
  <2>1. NoEntry \in Entry
    BY DEF NoEntry, Entry, Policy
  <2>2. NewEntry(Run, NoTask, "attached", FALSE) \in Entry
    BY <1>2 DEF NewEntry, Entry, Policy
  <2>3. QED
    BY <2>1, <2>2 DEF RelayInit, TypeOK, Intent, State, Receipts, Outcome, Answer
<1>4. Blank /\ Unheld /\ CancelInv
  BY DEF RelayInit, Blank, Unheld, CancelInv, CanceledNeverRan
<1>5. /\ entry[Run].lineage = {Run} /\ entry[Run].root = Run
      /\ \A t \in Task : t # Run => ~Registered(t) /\ entry[t].lineage = {}
      /\ Registered(Run)
  BY <1>2 DEF RelayInit, NoEntry, NewEntry
<1>6. LineageClosed /\ Rootless
  BY <1>2, <1>5 DEF LineageClosed, Rootless
<1>7. QED
  BY <1>1, <1>3, <1>4, <1>6 DEF BaseInv, LedgerInv

\* Each step is a ledger step, so it keeps what ledger steps keep.
LEMMA BaseStep ==
  ASSUME BaseInv, [RelayNext]_relayVars
  PROVE  BaseInv'
<1>1. [TaskNext]_taskVars
  BY StepsLedger DEF BaseInv, LedgerInv
<1>2. RelayInv' /\ LedgerInv' /\ CancelInv'
  BY <1>1, RelayStep, LedgerInvStep, CancelStep DEF BaseInv
<1>3. Rootless'
  <2>1. Grows
    BY <1>1, Growth DEF BaseInv, LedgerInv
  <2>2. CASE UNCHANGED entry /\ \A u \in Task : Registered(u)' = Registered(u)
    BY <2>2 DEF Rootless, BaseInv
  <2>3. ASSUME NEW t \in Task, NEW p \in Task \cup {NoTask}, NEW pol \in Policy,
               NEW drain \in BOOLEAN, Appears(t, p, pol, drain)
        PROVE  Rootless'
    BY <2>3 DEF Appears, Rootless, BaseInv, LedgerInv, TypeOK
  <2>4. QED
    BY <2>1, <2>2, <2>3 DEF Grows
<1>4. QED
  BY <1>2, <1>3 DEF BaseInv

\* Ledger, types and locals are right in every reachable state.
LEMMA BaseInvariant == RelaySpec => []BaseInv
  BY BaseInit, BaseStep, PTL DEF RelaySpec

\* The ledger, the promises and the job slots keep their types.
THEOREM RelayTypeCorrect == RelaySpec => []RelayTypeOK
<1>1. BaseInv => RelayTypeOK
  BY DEF BaseInv, RelayInv, RelayTypes, LedgerInv, RelayTypeOK
<1>2. QED
  BY <1>1, BaseInvariant, PTL

\* Handoff messages change the ledger only by the store's methods, so each theorem
\* about steps of TaskSpec holds of them.
THEOREM RelayIsLedgerClient == RelaySpec => OnlyLedgerSteps
<1>1. BaseInv /\ [RelayNext]_relayVars => [TaskNext]_taskVars
  BY StepsLedger DEF BaseInv, LedgerInv
<1>2. QED
  BY <1>1, BaseInvariant, PTL DEF RelaySpec, OnlyLedgerSteps

(***************************************************************************)
(* What a step does to a message and to the claim of its job               *)
(***************************************************************************)
\* The claim of the message's job stays, or its holder gives it up on its exit, or
\* a delivery of that message takes it.
ClaimRow(m) ==
  LET j == JobOf[m]
  IN  \/ claim'[j] = claim[j]
      \/ /\ claim'[j] = NoToken /\ state'[j] = "completed"
         /\ \E s \in Process : claim[j] = s /\ pc[s] = "exited" /\ pc'[s] = "idle"
      \/ /\ claim[j] = NoToken /\ state[j] # "completed"
         /\ \E s \in Process : claim'[j] = s /\ ClaimJob(s) /\ on[s] = m

\* Nothing that the message's own slot says happens to the message: it appears, it
\* is settled unstarted, or it follows its completed job.
Bystander(m) ==
  /\ m \in processed' <=> m \in processed
  /\ \/ state'[m] = state[m]
     \/ state[m] = "absent" /\ state'[m] = "queued"
     \/ state[m] = "queued" /\ state'[m] = "completed" /\ IntentOf(m) = "terminated"
     \/ state[m] # "absent" /\ state'[m] = "completed" /\ state[JobOf[m]] = "completed"
  /\ \/ result'[m] = result[m] /\ answer'[m] = answer[m]
     \/ /\ state[m] = "queued" /\ result[m] = "none"
        /\ result'[m] = "canceled" /\ answer'[m] = "dead"

\* The slot that handles the message changes it.
Acts(s, m) ==
  on[s] = m /\ (Admit(s) \/ Dispatch(s) \/ Store(s) \/ Close(s) \/ Fail(s) \/ Doubt(s))

\* Methods of the store that touch no claim.
LEMMA ClaimsStay ==
  ASSUME TypeOK, NEW t \in Task, NEW u \in Task
  PROVE  /\ \A p, pol, drain : Publish(t, p, pol, drain) => claim'[u] = claim[u]
         /\ Published(t) => claim'[u] = claim[u]
         /\ \A d : Change(t, d) => claim'[u] = claim[u]
         /\ SettleUnstarted(t) => claim'[u] = claim[u]
         /\ \A r : PutAnswer(t, r) => claim'[u] = claim[u]
         /\ \A x : u # t /\ PutState(t, x) => claim'[u] = claim[u]
<1> USE DEF TypeOK, runVars, taskVars
<1>1. \A p, pol, drain : Publish(t, p, pol, drain) => claim'[u] = claim[u]
  BY DEF Publish, Register
<1>2. (Published(t) => claim'[u] = claim[u]) /\ \A d : Change(t, d) => claim'[u] = claim[u]
  BY DEF Published, Change
<1>3. SettleUnstarted(t) => claim'[u] = claim[u]
  BY DEF SettleUnstarted, Unstarted, PutReceipt
<1>4. \A r : PutAnswer(t, r) => claim'[u] = claim[u]
  BY DEF PutAnswer, PublicationResult
<1>5. \A x : u # t /\ PutState(t, x) => claim'[u] = claim[u]
  BY DEF PutState, Receipt, PutReceipt
<1>6. QED
  BY <1>1, <1>2, <1>3, <1>4, <1>5

\* A slot's step treats the claim of every message's job in one of the three ways.
LEMMA SlotClaimRow ==
  ASSUME BaseInv, NEW s \in Process, ProcessNext(s), NEW m \in Message
  PROVE  ClaimRow(m)
<1>1. /\ m \in Task /\ JobOf[m] \in Task /\ m # JobOf[m] /\ TypeOK
      /\ pc[s] \notin {"idle", "dead"} =>
           on[s] \in Message /\ on[s] \in Task /\ JobOf[on[s]] \in Task /\ on[s] # JobOf[m]
      /\ pc \in [Process -> SlotAt]
  BY Kinds DEF BaseInv, LedgerInv, RelayInv, RelayTypes, LocalsInv
<1>2. CASE ClaimJob(s)
  <2>1. Claim(JobOf[on[s]], s)
    BY <1>2 DEF ClaimJob
  <2>2. CASE on[s] = m
    BY <1>1, <1>2, <2>1, <2>2 DEF Claim, ClaimRefusal, ClaimRow, TypeOK
  <2>3. CASE on[s] # m
    BY <1>1, <1>2, <2>1, <2>3, Kinds DEF ClaimJob, Claim, ClaimRow, TypeOK
  <2>4. QED
    BY <2>2, <2>3
<1>3. CASE TurnAway(s)
  <2>1. CASE Receipt(JobOf[on[s]], "completed", NoToken) /\ claim[JobOf[on[s]]] = NoToken
    BY <1>1, <1>3, <2>1 DEF TurnAway, Receipt, PutReceipt, ClaimRow, TypeOK
  <2>2. QED
    BY <1>3, <2>1 DEF TurnAway, ClaimRow, taskVars
<1>4. CASE Finish(s)
  <2>1. CASE FinishClaim(JobOf[on[s]], s, how[s])
    <3>1. pc'[s] = "idle" /\ pc[s] = "exited"
      BY <1>1, <1>4 DEF Finish, Free, Goto
    <3>2. QED
      BY <1>1, <1>4, <2>1, <3>1 DEF Finish, FinishClaim, ClaimRow, TypeOK
  <2>2. QED
    BY <1>4, <2>1 DEF Finish, ClaimRow, taskVars
<1>5. CASE Admit(s) \/ Close(s) \/ Doubt(s) \/ Store(s) \/ Fail(s)
  BY <1>1, <1>5, ClaimsStay DEF Admit, Close, Doubt, Store, Fail, ClaimRow
<1>6. CASE SendOutbound(s)
  BY <1>1, <1>6, ClaimsStay, Kinds DEF SendOutbound, ClaimRow, taskVars
<1>7. CASE \/ Begin(s) \/ Dispatch(s) \/ (\E r \in Reply : Return(s, r)) \/ Resolve(s)
           \/ Throw(s) \/ StatementFails(s) \/ Crash(s) \/ Restart(s)
           \/ \E n \in Message : Deliver(s, n)
  BY <1>7 DEF Begin, Dispatch, Return, Resolve, Throw, StatementFails, Crash, Restart, Deliver,
              ClaimRow, taskVars
<1>8. QED
  BY <1>2, <1>3, <1>4, <1>5, <1>6, <1>7 DEF ProcessNext, HandlerStep

\* So does every step.
LEMMA ClaimRowStep ==
  ASSUME BaseInv, [RelayNext]_relayVars, NEW m \in Message
  PROVE  ClaimRow(m)
<1>1. m \in Task /\ JobOf[m] \in Task /\ TypeOK
  BY Kinds DEF BaseInv, LedgerInv
<1>2. ASSUME NEW n \in Message, MessageNext(n)
      PROVE  claim'[JobOf[m]] = claim[JobOf[m]]
  <2>1. n \in Task /\ JobOf[n] \in Task /\ n # JobOf[m]
    BY Kinds
  <2>2. QED
    BY <1>1, <1>2, <2>1, ClaimsStay DEF MessageNext, Enqueue, EnqueueAndWait, PublishControlled,
       MarkPublished, AddJob, Stall, Poll, TimeOut, Stop, StopWaiter, ScanOn, ScanChildren, taskVars
<1>3. ASSUME NEW t \in Task, SettleTask(t)
      PROVE  claim'[JobOf[m]] = claim[JobOf[m]]
  BY <1>1, <1>3, ClaimsStay DEF SettleTask
<1>4. ASSUME NEW d \in Intent, ControlRun(d)
      PROVE  claim'[JobOf[m]] = claim[JobOf[m]]
  BY <1>1, <1>4, ClaimsStay, Kinds DEF ControlRun
<1>5. CASE UNCHANGED relayVars
  BY <1>5 DEF ClaimRow, relayVars, taskVars
<1>6. QED
  BY <1>2, <1>3, <1>4, <1>5, SlotClaimRow DEF RelayNext, ClaimRow

\* What the methods of the store do to a message that is not their subject, or that
\* is registered or settled unstarted.
LEMMA MethodRows ==
  ASSUME TypeOK, NEW m \in Message, UNCHANGED <<processed>>
  PROVE  /\ \A t \in Task, p \in Task, pol \in Policy, drain \in BOOLEAN :
              Publish(t, p, pol, drain) /\ UNCHANGED answer => Bystander(m)
         /\ \A t \in Task : Published(t) /\ UNCHANGED answer => Bystander(m)
         /\ \A t \in Task, d \in Intent : Change(t, d) /\ UNCHANGED answer => Bystander(m)
         /\ \A n \in Message, x \in Receipts : n # m /\ PutState(n, x) /\ UNCHANGED answer => Bystander(m)
         /\ \A n \in Message : \A r : n # m /\ answer \in [Message -> Reply \cup {"none"}] /\ PutAnswer(n, r)
              => Bystander(m)
         /\ UNCHANGED <<taskVars, answer>> => Bystander(m)
<1> USE Kinds DEF TypeOK, Bystander, runVars, taskVars
<1>1. \A t \in Task, p \in Task, pol \in Policy, drain \in BOOLEAN :
        Publish(t, p, pol, drain) /\ UNCHANGED answer => Bystander(m)
  BY DEF Publish, Register
<1>2. /\ \A t \in Task : Published(t) /\ UNCHANGED answer => Bystander(m)
      /\ \A t \in Task, d \in Intent : Change(t, d) /\ UNCHANGED answer => Bystander(m)
      /\ UNCHANGED <<taskVars, answer>> => Bystander(m)
  BY DEF Published, Change, mailVars
<1>3. \A n \in Message, x \in Receipts : n # m /\ PutState(n, x) /\ UNCHANGED answer => Bystander(m)
  BY DEF PutState, Receipt, PutReceipt, mailVars
<1>4. \A n \in Message : \A r : n # m /\ answer \in [Message -> Reply \cup {"none"}] /\ PutAnswer(n, r)
        => Bystander(m)
  BY DEF PutAnswer, PublicationResult
<1>5. QED
  BY <1>1, <1>2, <1>3, <1>4

\* A slot changes only the message it handles.
LEMMA SlotMessageRow ==
  ASSUME BaseInv, NEW s \in Process, ProcessNext(s), NEW m \in Message
  PROVE  Bystander(m) \/ Acts(s, m)
<1>1. /\ m \in Task /\ JobOf[m] \in Task /\ m # JobOf[m] /\ TypeOK
      /\ pc[s] \notin {"idle", "dead"} =>
           on[s] \in Message /\ on[s] \in Task /\ JobOf[on[s]] \in Task /\ JobOf[on[s]] # m
      /\ answer \in [Message -> Reply \cup {"none"}]
  BY Kinds DEF BaseInv, LedgerInv, RelayInv, RelayTypes, LocalsInv
<1>2. CASE ClaimJob(s)
  BY <1>1, <1>2 DEF ClaimJob, Claim, Bystander, mailVars, TypeOK
<1>3. CASE TurnAway(s)
  <2>1. CASE Receipt(JobOf[on[s]], "completed", NoToken)
    BY <1>1, <1>3, <2>1 DEF TurnAway, Receipt, PutReceipt, Bystander, mailVars, TypeOK
  <2>2. QED
    BY <1>1, <1>3, <2>1, MethodRows DEF TurnAway
<1>4. CASE Finish(s)
  <2>1. CASE FinishClaim(JobOf[on[s]], s, how[s])
    BY <1>1, <1>4, <2>1 DEF Finish, FinishClaim, Bystander, mailVars, TypeOK
  <2>2. QED
    BY <1>1, <1>4, <2>1, MethodRows DEF Finish
<1>5. CASE Admit(s) \/ Close(s) \/ Doubt(s)
  <2>1. CASE on[s] = m
    BY <1>5, <2>1 DEF Acts
  <2>2. CASE on[s] # m
    <3>1. UNCHANGED <<processed, answer>> /\ on[s] \in Message /\ \E x \in Receipts : PutState(on[s], x)
      BY <1>1, <1>5 DEF Admit, Close, Doubt, Receipts
    <3>2. QED
      BY <1>1, <2>2, <3>1, MethodRows
  <2>3. QED
    BY <2>1, <2>2
<1>6. CASE Store(s) \/ Fail(s)
  <2>1. CASE on[s] = m
    BY <1>6, <2>1 DEF Acts
  <2>2. CASE on[s] # m
    <3>1. UNCHANGED processed /\ on[s] \in Message /\ \E r \in Reply \cup {"none"} : PutAnswer(on[s], r)
      BY <1>1, <1>6 DEF Store, Fail, Reply, BaseInv, RelayInv, RelayTypes
    <3>2. QED
      BY <1>1, <2>2, <3>1, MethodRows
  <2>3. QED
    BY <2>1, <2>2
<1>7. CASE Dispatch(s)
  <2>1. CASE on[s] = m
    BY <1>7, <2>1 DEF Acts
  <2>2. CASE on[s] # m
    BY <1>7, <2>2 DEF Dispatch, Call, Bystander, taskVars
  <2>3. QED
    BY <2>1, <2>2
<1>8. CASE SendOutbound(s)
  <2>1. UNCHANGED <<processed, answer>> /\ JobOf[on[s]] \in Task /\ "attached" \in Policy /\ FALSE \in BOOLEAN
    BY <1>1, <1>8 DEF SendOutbound, Policy
  <2>2. UNCHANGED taskVars \/ \E n \in Message : n \in Task /\ Publish(n, JobOf[on[s]], "attached", FALSE)
    BY <1>8, Kinds DEF SendOutbound
  <2>3. QED
    BY <1>1, <2>1, <2>2, MethodRows
<1>9. CASE \/ Begin(s) \/ (\E r \in Reply : Return(s, r)) \/ Resolve(s)
           \/ Throw(s) \/ StatementFails(s) \/ Crash(s) \/ Restart(s)
           \/ \E n \in Message : Deliver(s, n)
  <2>1. UNCHANGED <<taskVars, answer, processed>>
    BY <1>9 DEF Begin, Return, Resolve, Throw, StatementFails, Crash, Restart, Deliver
  <2>2. QED
    BY <1>1, <2>1, MethodRows
<1>10. QED
  BY <1>2, <1>3, <1>4, <1>5, <1>6, <1>7, <1>8, <1>9 DEF ProcessNext, HandlerStep

\* Every step leaves a message alone, or its own slot takes it.
LEMMA MessageRowStep ==
  ASSUME BaseInv, [RelayNext]_relayVars, NEW m \in Message
  PROVE  Bystander(m) \/ \E s \in Process : ProcessNext(s) /\ Acts(s, m)
<1>1. m \in Task /\ TypeOK
  BY Kinds DEF BaseInv, LedgerInv
<1>2. ASSUME NEW n \in Message, MessageNext(n)
      PROVE  Bystander(m)
  <2>1. n \in Task /\ JobOf[n] \in Task /\ entry[n].drain \in BOOLEAN /\ "attached" \in Policy
    BY <1>1, Kinds DEF TypeOK, Entry, Policy
  <2>2. CASE ScanChildren(n)
    <3>1. UNCHANGED <<processed, answer>>
      BY <2>2 DEF ScanChildren
    <3>2. CASE state[JobOf[n]] = "completed" /\ PutState(n, "completed")
      <4>1. CASE n = m
        BY <1>1, <3>1, <3>2, <4>1 DEF PutState, Receipt, ReceiptAccepted, PutReceipt, Bystander, mailVars,
           taskVars, TypeOK
      <4>2. CASE n # m
        BY <1>1, <3>1, <3>2, <4>2, MethodRows DEF Receipts
      <4>3. QED
        BY <4>1, <4>2
    <3>3. QED
      BY <1>1, <2>2, <3>1, <3>2, MethodRows DEF ScanChildren
  <2>3. CASE ~ScanChildren(n)
    <3>1. UNCHANGED <<processed, answer>>
      BY <1>2, <2>3 DEF MessageNext, Enqueue, EnqueueAndWait, PublishControlled,
         MarkPublished, AddJob, Stall, Poll, TimeOut, Stop, StopWaiter, ScanOn
    <3>2. \/ UNCHANGED taskVars
          \/ \E t \in Task, p \in Task, pol \in Policy, drain \in BOOLEAN : Publish(t, p, pol, drain)
          \/ \E t \in Task : Published(t)
          \/ \E t \in Task, d \in Intent : Change(t, d)
      BY <1>2, <2>1, <2>3 DEF MessageNext, Enqueue, EnqueueAndWait, PublishControlled,
         MarkPublished, AddJob, Stall, Poll, TimeOut, Stop, StopWaiter, ScanOn, Intent
    <3>3. QED
      BY <1>1, <3>1, <3>2, MethodRows
  <2>4. QED
    BY <2>2, <2>3
<1>3. ASSUME NEW t \in Task, SettleTask(t)
      PROVE  Bystander(m)
  <2>1. t \in Message \cup Jobs /\ SettleUnstarted(t) /\ UNCHANGED processed
    BY <1>3 DEF SettleTask
  <2>2. answer'[m] = IF result'[m] # result[m] THEN "dead" ELSE answer[m]
    BY <1>3 DEF SettleTask
  <2>3. state'[m] = IF m = t THEN "completed" ELSE state[m]
    BY <1>1, <2>1 DEF SettleUnstarted, PutReceipt, TypeOK
  <2>4. result'[m] = result[m] \/ (m = t /\ result[m] = "none" /\ result'[m] = "canceled")
    BY <1>1, <2>1 DEF SettleUnstarted, TypeOK
  <2>5. m = t => state[m] = "queued" /\ IntentOf(m) = "terminated"
    BY <2>1 DEF SettleUnstarted, Unstarted
  <2>6. QED
    BY <2>1, <2>2, <2>3, <2>4, <2>5 DEF Bystander
<1>4. ASSUME NEW d \in Intent, ControlRun(d)
      PROVE  Bystander(m)
  BY <1>1, <1>4, Kinds, MethodRows DEF ControlRun
<1>5. CASE UNCHANGED relayVars
  BY <1>1, <1>5, MethodRows DEF relayVars
<1>6. QED
  BY <1>2, <1>3, <1>4, <1>5, SlotMessageRow DEF RelayNext

(***************************************************************************)
(* The inductive invariant                                                 *)
(***************************************************************************)
Early == {"claimed", "handler", "checking"}

\* The message's job was claimed once, so no later delivery is admitted.
Taken(m) == claim[JobOf[m]] # NoToken \/ state[JobOf[m]] = "completed"

\* What a slot's place says of the message it handles and of its answer.
SlotInv(s) ==
  /\ pc[s] \in Working => claim[JobOf[on[s]]] = s
  /\ pc[s] \in Early => on[s] \notin processed
  /\ pc[s] = "body" =>
       on[s] \in processed /\ state[on[s]] # "completed" /\ result[on[s]] = "none"
  /\ pc[s] \in Early \cup {"body", "storing"} => result[on[s]] # "answered"
  /\ pc[s] \in {"checking", "body", "storing", "outbound", "closing", "resolving"} =>
       state[on[s]] \notin {"absent", "queued"}
  /\ pc[s] = "storing" /\ result[on[s]] = "canceled" => said[s] = "dead"
  /\ pc[s] \in {"outbound", "closing", "resolving"} =>
       result[on[s]] # "none" /\ answer[on[s]] = said[s]

\* Why no processor is called for a completed message.
Over(m) ==
  \/ IntentOf(m) = "terminated"
  \/ state[JobOf[m]] = "completed"
  \/ /\ claim[JobOf[m]] # NoToken
     /\ \A s \in Process : on[s] = m => pc[s] \notin Early \cup {"body"}

\* What a message's row, its answer and its waiter have to do with its processor.
MessageInv(m) ==
  /\ m \in processed => state[m] \notin {"absent", "queued"} /\ Taken(m)
  /\ result[m] = "answered" => Taken(m)
  /\ state[m] = "completed" => Over(m)
  /\ result[m] = "canceled" => answer[m] = "dead" /\ m \notin processed
  /\ waiter[m] \in Reply => result[m] # "none" /\ waiter[m] = answer[m]

CallInv ==
  /\ BaseInv
  /\ \A s \in Process : SlotInv(s)
  /\ \A m \in Message : MessageInv(m)

\* A slot that works on a message holds the claim of its job, which is not completed.
LEMMA Holder ==
  ASSUME CallInv, NEW s \in Process, pc[s] \in Working
  PROVE  on[s] \in Message /\ claim[JobOf[on[s]]] = s /\ state[JobOf[on[s]]] # "completed"
<1>1. on[s] \in Message /\ claim[JobOf[on[s]]] = s
  BY DEF CallInv, SlotInv, BaseInv, RelayInv, LocalsInv, Working
<1>2. QED
  BY <1>1, Kinds DEF CallInv, BaseInv, LedgerInv, Unheld

\* One slot at a time works on a message.
LEMMA OneSlot ==
  ASSUME CallInv, NEW s \in Process, NEW v \in Process, pc[s] \in Working, pc[v] \in Working, on[s] = on[v]
  PROVE  s = v
  BY Holder

\* Taken is for good.
LEMMA TakenStep ==
  ASSUME CallInv, [RelayNext]_relayVars, NEW m \in Message, Taken(m)
  PROVE  Taken(m)'
<1>1. [TaskNext]_taskVars /\ JobOf[m] \in Task
  BY StepsLedger, Kinds DEF CallInv, BaseInv, LedgerInv
<1>2. state[JobOf[m]] = "completed" => state'[JobOf[m]] = "completed"
  BY <1>1, Progress DEF CallInv, BaseInv, LedgerInv, Advances
<1>3. QED
  BY <1>2, ClaimRowStep, Kinds DEF CallInv, ClaimRow, Taken

\* A slot whose process takes no step keeps its locals.
LEMMA Movers ==
  ASSUME [RelayNext]_relayVars, BaseInv, NEW v \in Process
  PROVE  ProcessNext(v) \/ (pc'[v] = pc[v] /\ on'[v] = on[v] /\ said'[v] = said[v])
<1>1. ASSUME NEW s \in Process, ProcessNext(s), s # v
      PROVE  pc'[v] = pc[v] /\ on'[v] = on[v] /\ said'[v] = said[v]
  BY <1>1 DEF ProcessNext, HandlerStep, Deliver, ClaimJob, TurnAway, Begin, Admit, Dispatch, Call, Return,
     Store, SendOutbound, Close, Resolve, Fail, Doubt, Finish, Throw, StatementFails, Crash, Restart,
     Goto, Free, BaseInv, RelayInv, RelayTypes
<1>2. ASSUME NEW m \in Message, MessageNext(m)
      PROVE  UNCHANGED slotVars
  BY <1>2 DEF MessageNext, Enqueue, EnqueueAndWait, PublishControlled,
     MarkPublished, AddJob, Stall, Poll, TimeOut, Stop, StopWaiter, ScanOn, ScanChildren
<1>3. QED
  BY <1>1, <1>2 DEF RelayNext, SettleTask, ControlRun, relayVars, slotVars

\* A slot that works on is not disturbed by what the others do.
LEMMA Undisturbed ==
  ASSUME CallInv, [RelayNext]_relayVars, NEW v \in Process, ~ProcessNext(v)
  PROVE  SlotInv(v)'
<1>1. pc'[v] = pc[v] /\ on'[v] = on[v] /\ said'[v] = said[v]
  BY Movers DEF CallInv
<1>2. CASE pc[v] \notin Working
  BY <1>1, <1>2 DEF SlotInv, Early, Working
<1>3. CASE pc[v] \in Working
  <2> DEFINE m == on[v]
  <2>1. m \in Message /\ claim[JobOf[m]] = v /\ state[JobOf[m]] # "completed" /\ v # NoToken
    BY <1>3, Holder, Kinds
  <2>2. claim'[JobOf[m]] = v
    <3>1. ClaimRow(m)
      BY <2>1, ClaimRowStep DEF CallInv
    <3>2. ~(pc[v] = "exited" /\ pc'[v] = "idle")
      BY <1>1
    <3>3. QED
      BY <2>1, <3>1, <3>2 DEF ClaimRow
  <2>3. Bystander(m)
    <3>1. ASSUME NEW s \in Process, ProcessNext(s), Acts(s, m)
          PROVE  FALSE
      <4>1. pc[s] \in Working /\ on[s] = m
        BY <3>1 DEF Acts, Admit, Dispatch, Store, Close, Fail, Doubt, Working
      <4>2. QED
        BY <1>3, <3>1, <4>1, OneSlot
    <3>2. QED
      BY <2>1, <3>1, MessageRowStep DEF CallInv
  <2>4. m \in processed => state[m] \notin {"absent", "queued"}
    BY <2>1 DEF CallInv, MessageInv
  <2>5. SlotInv(v)
    BY DEF CallInv
  <2>6. QED
    BY <1>1, <2>1, <2>2, <2>3, <2>4, <2>5 DEF SlotInv, Bystander, Early
<1>4. QED
  BY <1>2, <1>3

\* A slot keeps its own part of the invariant through its own steps.
LEMMA SlotMoves ==
  ASSUME CallInv, [RelayNext]_relayVars, NEW s \in Process, ProcessNext(s)
  PROVE  SlotInv(s)'
<1> DEFINE m == on[s]
<1>1. /\ pc \in [Process -> SlotAt] /\ on \in [Process -> Message \cup {NoTask}]
      /\ said \in [Process -> Reply \cup {"none"}] /\ TypeOK
      /\ pc[s] \notin {"idle", "dead"} => m \in Message /\ m \in Task /\ JobOf[m] \in Task /\ m # JobOf[m]
      /\ answer \in [Message -> Reply \cup {"none"}]
  BY Kinds DEF CallInv, BaseInv, LedgerInv, RelayInv, RelayTypes, LocalsInv
<1>2. SlotInv(s) /\ (m \in Message => MessageInv(m))
  BY DEF CallInv
<1>3. CASE pc'[s] \notin Working
  BY <1>3 DEF SlotInv, Working, Early
<1>4. CASE ClaimJob(s)
  <2>1. pc'[s] = "claimed" /\ on' = on /\ UNCHANGED <<processed, result>> /\ m \in Message
    BY <1>1, <1>4 DEF ClaimJob, Goto, Claim, mailVars
  <2>2. claim'[JobOf[m]] = s /\ ~Taken(m)
    BY <1>1, <1>4 DEF ClaimJob, Claim, ClaimRefusal, Taken, TypeOK
  <2>3. QED
    BY <1>2, <2>1, <2>2 DEF SlotInv, MessageInv, Early
<1>5. ASSUME pc[s] \in Working, pc'[s] \in Working
      PROVE  m \in Message /\ on'[s] = m /\ claim'[JobOf[m]] = s /\ state[JobOf[m]] # "completed"
  <2>1. m \in Message /\ claim[JobOf[m]] = s /\ state[JobOf[m]] # "completed"
    BY <1>5, Holder
  <2>2. claim'[JobOf[m]] = s
    <3>1. pc'[s] # "idle" /\ s # NoToken
      BY <1>5, Kinds DEF Working
    <3>2. QED
      BY <2>1, <3>1, ClaimRowStep DEF CallInv, ClaimRow
  <2>3. on'[s] = on[s]
    BY <1>1, <1>5 DEF ProcessNext, HandlerStep, Deliver, ClaimJob, TurnAway, Begin, Admit, Dispatch, Call,
       Return, Store, SendOutbound, Close, Resolve, Fail, Doubt, Finish, Throw, StatementFails, Crash,
       Restart, Goto, Free, Working
  <2>4. QED
    BY <2>1, <2>2, <2>3
<1>6. CASE Begin(s) \/ Throw(s) \/ StatementFails(s) \/ Resolve(s)
  <2>1. /\ pc[s] \in Working /\ UNCHANGED <<processed, result>>
        /\ pc'[s] \in {"handler", "failing", "exited"} /\ (pc'[s] = "handler" => pc[s] = "claimed")
    BY <1>1, <1>6 DEF Begin, Throw, StatementFails, Resolve, Goto, Working, taskVars
  <2>2. QED
    BY <1>2, <1>5, <2>1 DEF SlotInv, Early, Working
<1>7. CASE Admit(s)
  <2>1. /\ pc[s] = "handler" /\ pc'[s] = "checking" /\ UNCHANGED <<processed, result>>
        /\ state'[m] \in {"running", "completed"}
    BY <1>1, <1>7 DEF Admit, Goto, PutState, Receipt, PutReceipt, mailVars, taskVars, TypeOK
  <2>2. QED
    BY <1>2, <1>5, <2>1 DEF SlotInv, Early, Working
<1>8. CASE Dispatch(s)
  <2>1. pc[s] = "checking" /\ UNCHANGED taskVars /\ pc'[s] \in {"storing", "body"} /\ m \in Message
    BY <1>1, <1>8 DEF Dispatch, Call, Goto
  <2>2. CASE IntentOf(m) = "terminated"
    <3>1. pc'[s] = "storing" /\ said'[s] = "dead"
      BY <1>1, <1>8, <2>2 DEF Dispatch, Goto
    <3>2. QED
      BY <1>2, <1>5, <2>1, <3>1 DEF SlotInv, Early, Working, taskVars
  <2>3. CASE IntentOf(m) # "terminated"
    <3>1. pc'[s] = "body" /\ m \in processed'
      BY <1>1, <1>8, <2>3 DEF Dispatch, Call, Goto
    <3>2. state[m] # "completed"
      BY <1>2, <1>5, <2>1, <2>3, <3>1 DEF MessageInv, Over, Early, Working
    <3>3. result[m] = "none"
      <4>1. result[m] # "canceled"
        BY <1>1, <2>1, <2>3 DEF CallInv, BaseInv, CancelInv, CanceledNeverRan
      <4>2. QED
        BY <1>1, <1>2, <2>1, <4>1 DEF SlotInv, Early, TypeOK, Answer
    <3>4. QED
      BY <1>2, <1>5, <2>1, <3>1, <3>2, <3>3 DEF SlotInv, Early, Working, taskVars
  <2>4. QED
    BY <2>2, <2>3
<1>9. ASSUME NEW r \in Reply, Return(s, r)
      PROVE  SlotInv(s)'
  <2>1. pc[s] = "body" /\ UNCHANGED taskVars /\ pc'[s] = "storing"
    BY <1>1, <1>9 DEF Return, Goto
  <2>2. QED
    BY <1>2, <1>5, <2>1 DEF SlotInv, Early, Working, taskVars
<1>10. CASE Store(s)
  <2>1. /\ pc[s] = "storing" /\ pc'[s] \in {"outbound", "closing"} /\ said' = said /\ UNCHANGED state
        /\ PutAnswer(m, said[s]) /\ m \in Message
    BY <1>1, <1>10 DEF Store, Goto, PutAnswer, PublicationResult, runVars, taskVars
  <2>2. result'[m] # "none" /\ answer'[m] = said[s]
    <3>1. CASE result[m] = "none"
      BY <1>1, <2>1, <3>1 DEF PutAnswer, PublicationResult, TypeOK
    <3>2. CASE result[m] = "canceled"
      BY <1>2, <2>1, <3>2 DEF PutAnswer, SlotInv, MessageInv, taskVars
    <3>3. QED
      BY <1>1, <1>2, <2>1, <3>1, <3>2 DEF SlotInv, TypeOK, Answer
  <2>3. QED
    BY <1>2, <1>5, <2>1, <2>2 DEF SlotInv, Early, Working
<1>11. CASE SendOutbound(s) /\ pc'[s] = "closing"
  <2>1. pc[s] = "outbound" /\ said' = said /\ UNCHANGED <<answer, result>> /\ m \in Message
    BY <1>1, <1>11 DEF SendOutbound, Publish, taskVars
  <2>2. state[m] \notin {"absent", "queued"}
    BY <1>2, <2>1 DEF SlotInv
  <2>3. state'[m] = state[m]
    <3>1. ASSUME NEW n \in Message, Publish(n, JobOf[m], "attached", FALSE)
          PROVE  state'[m] = state[m]
      <4>1. CASE Register(n, JobOf[m], "attached", FALSE, NoAttempt)
        <5>1. n # m /\ state' = [state EXCEPT ![n] = "queued"]
          BY <2>2, <4>1 DEF Register
        <5>2. QED
          BY <1>1, <5>1 DEF TypeOK
      <4>2. QED
        BY <3>1, <4>1 DEF Publish, runVars
    <3>2. QED
      BY <1>11, <3>1 DEF SendOutbound, taskVars
  <2>4. QED
    BY <1>2, <1>5, <1>11, <2>1, <2>2, <2>3 DEF SlotInv, Early, Working
<1>12. CASE SendOutbound(s) /\ pc'[s] # "closing"
  <2>1. pc[s] = "outbound" /\ pc'[s] = "failing"
    BY <1>1, <1>12 DEF SendOutbound, Goto
  <2>2. QED
    BY <1>5, <2>1 DEF SlotInv, Early, Working
<1>13. CASE Close(s)
  <2>1. /\ pc[s] = "closing" /\ pc'[s] = "resolving" /\ said' = said /\ UNCHANGED <<answer, result>>
        /\ state'[m] \in {"unknown", "completed"}
    BY <1>1, <1>13 DEF Close, Goto, PutState, Receipt, PutReceipt, mailVars, taskVars, TypeOK
  <2>2. QED
    BY <1>2, <1>5, <2>1 DEF SlotInv, Early, Working
<1>14. CASE Fail(s) \/ Doubt(s)
  <2>1. pc[s] \in Working /\ pc'[s] \in {"withheld", "exited"}
    BY <1>1, <1>14 DEF Fail, Doubt, Goto, Working
  <2>2. QED
    BY <1>5, <2>1 DEF SlotInv, Early, Working
<1>15. (\E n \in Message : Deliver(s, n)) \/ TurnAway(s) \/ Finish(s) \/ Crash(s) \/ Restart(s)
         => pc'[s] \notin Working
  BY <1>1 DEF Deliver, TurnAway, Finish, Crash, Restart, Free, Goto, Working
<1>16. QED
  BY <1>3, <1>4, <1>6, <1>7, <1>8, <1>9, <1>10, <1>11, <1>12, <1>13, <1>14, <1>15
  DEF ProcessNext, HandlerStep

\* An answer that was given is neither replaced nor withdrawn.
LEMMA AnswerStays ==
  ASSUME CallInv, [RelayNext]_relayVars, NEW m \in Message, result[m] # "none"
  PROVE  result'[m] = result[m] /\ answer'[m] = answer[m]
<1>1. TypeOK /\ m \in Task
  BY Kinds DEF CallInv, BaseInv, LedgerInv
<1>2. CASE Bystander(m)
  BY <1>2 DEF Bystander
<1>3. ASSUME NEW s \in Process, Acts(s, m)
      PROVE  result'[m] = result[m] /\ answer'[m] = answer[m]
  BY <1>3 DEF Acts, Admit, Dispatch, Store, Close, Fail, Doubt, PutAnswer, PutState, Receipt, taskVars, mailVars
<1>4. QED
  BY <1>2, <1>3, MessageRowStep DEF CallInv

\* A completed message stays one for which no processor is called.
LEMMA OverStep ==
  ASSUME CallInv, [RelayNext]_relayVars, NEW m \in Message, Registered(m), Over(m)
  PROVE  Over(m)'
<1>1. [TaskNext]_taskVars /\ m \in Task /\ JobOf[m] \in Task /\ NoToken = NoToken'
  BY StepsLedger, Kinds DEF CallInv, BaseInv, LedgerInv
<1>2. CASE IntentOf(m) = "terminated"
  BY <1>1, <1>2, TombstoneStep DEF CallInv, BaseInv, Over
<1>3. CASE state[JobOf[m]] = "completed"
  BY <1>1, <1>3, Progress DEF CallInv, BaseInv, LedgerInv, Advances, Over
<1>4. CASE /\ claim[JobOf[m]] # NoToken
           /\ \A s \in Process : on[s] = m => pc[s] \notin Early \cup {"body"}
  <2>1. claim'[JobOf[m]] = claim[JobOf[m]] \/ state'[JobOf[m]] = "completed"
    BY <1>4, ClaimRowStep DEF CallInv, ClaimRow
  <2>2. ASSUME NEW s \in Process, on'[s] = m, pc'[s] \in Early \cup {"body"}
        PROVE  FALSE
    <3>1. CASE ~ProcessNext(s)
      BY <1>4, <2>2, <3>1, Movers DEF CallInv
    <3>2. CASE ProcessNext(s)
      <4>1. pc \in [Process -> SlotAt] /\ on \in [Process -> Message \cup {NoTask}]
        BY DEF CallInv, BaseInv, RelayInv, RelayTypes
      <4>2. CASE ClaimJob(s)
        BY <1>4, <2>2, <4>1, <4>2 DEF ClaimJob, Claim, ClaimRefusal, Goto
      <4>3. CASE Begin(s) \/ Admit(s) \/ Dispatch(s)
        BY <1>4, <2>2, <4>1, <4>3 DEF Begin, Admit, Dispatch, Call, Goto, Early
      <4>4. QED
        BY <2>2, <3>2, <4>1, <4>2, <4>3 DEF ProcessNext, HandlerStep, Deliver, TurnAway, Return, Store,
           SendOutbound, Close, Resolve, Fail, Doubt, Finish, Throw, StatementFails, Crash, Restart,
           Goto, Free, Early
    <3>3. QED
      BY <3>1, <3>2
  <2>3. QED
    BY <1>4, <2>1, <2>2 DEF Over
<1>5. QED
  BY <1>2, <1>3, <1>4 DEF Over

\* Where a slot takes a message.
LEMMA ActsRow ==
  ASSUME CallInv, [RelayNext]_relayVars, NEW m \in Message, NEW s \in Process, ProcessNext(s), Acts(s, m)
  PROVE  /\ Taken(m) /\ pc[s] \in Working /\ on[s] = m
         /\ m \in processed' => state'[m] \notin {"absent", "queued"}
         /\ state'[m] = "completed" /\ state[m] # "completed" => Close(s)
         /\ result'[m] = "canceled" => result[m] = "canceled" /\ (m \in processed' => m \in processed)
<1>1. /\ TypeOK /\ m \in Task /\ SlotInv(s) /\ MessageInv(m)
      /\ pc \in [Process -> SlotAt]
  BY Kinds DEF CallInv, BaseInv, LedgerInv, RelayInv, RelayTypes
<1>2. pc[s] \in Working /\ on[s] = m
  BY DEF Acts, Admit, Dispatch, Store, Close, Fail, Doubt, Working
<1>3. Taken(m)
  BY <1>2, Holder, Kinds DEF Taken
<1>4. CASE Admit(s) \/ Close(s) \/ Doubt(s)
  <2>1. UNCHANGED <<processed, result>>
    BY <1>4 DEF Admit, Close, Doubt, PutState, Receipt, mailVars, taskVars
  <2>2. CASE UNCHANGED taskVars
    BY <1>1, <1>2, <1>3, <2>1, <2>2 DEF MessageInv, taskVars
  <2>3. ASSUME NEW x \in {"running", "unknown", "completed"}, Receipt(m, x, NoToken), x = "completed" => Close(s)
        PROVE  /\ m \in processed' => state'[m] \notin {"absent", "queued"}
               /\ state'[m] = "completed" /\ state[m] # "completed" => Close(s)
    BY <1>1, <2>3 DEF Receipt, PutReceipt, TypeOK
  <2>4. UNCHANGED taskVars \/ \E x \in {"running", "unknown", "completed"} :
                                Receipt(m, x, NoToken) /\ (x = "completed" => Close(s))
    BY <1>2, <1>4 DEF Admit, Close, Doubt, PutState
  <2>5. QED
    BY <1>2, <1>3, <2>1, <2>2, <2>3, <2>4
<1>5. CASE Store(s) \/ Fail(s)
  <2>1. UNCHANGED <<processed, state>> /\ PutAnswer(m, IF Store(s) THEN said[s] ELSE "dead")
    BY <1>2, <1>5 DEF Store, Fail, PutAnswer, PublicationResult, runVars, taskVars
  <2>2. result'[m] = "canceled" => result[m] = "canceled"
    BY <1>1, <2>1 DEF PutAnswer, PublicationResult, TypeOK, taskVars
  <2>3. QED
    BY <1>1, <1>2, <1>3, <2>1, <2>2 DEF MessageInv
<1>6. CASE Dispatch(s)
  <2>1. pc[s] = "checking" /\ UNCHANGED taskVars
    BY <1>6 DEF Dispatch
  <2>2. state[m] \notin {"absent", "queued"}
    BY <1>1, <1>2, <2>1 DEF SlotInv
  <2>3. result[m] = "canceled" => IntentOf(m) = "terminated"
    BY <1>1 DEF CallInv, BaseInv, CancelInv, CanceledNeverRan
  <2>4. result[m] = "canceled" => processed' = processed
    BY <1>2, <1>6, <2>3 DEF Dispatch, Call
  <2>5. QED
    BY <1>2, <1>3, <2>1, <2>2, <2>4 DEF taskVars
<1>7. QED
  BY <1>4, <1>5, <1>6 DEF Acts

\* Whatever a waiter is told is the answer that was given.
LEMMA WaiterStep ==
  ASSUME CallInv, [RelayNext]_relayVars, NEW m \in Message, waiter'[m] \in Reply
  PROVE  result'[m] # "none" /\ waiter'[m] = answer'[m]
<1>1. waiter \in [Message -> Reply \cup {"none", "waiting", "rejected", "gone"}] /\ MessageInv(m)
  BY DEF CallInv, BaseInv, RelayInv, RelayTypes
<1>2. CASE waiter'[m] = waiter[m]
  BY <1>1, <1>2, AnswerStays DEF MessageInv
<1>3. ASSUME NEW s \in Process, ProcessNext(s), waiter'[m] # waiter[m]
      PROVE  result[m] # "none" /\ waiter'[m] = answer[m]
  <2>1. CASE Resolve(s)
    BY <1>1, <1>3, <2>1 DEF Resolve, CallInv, SlotInv
  <2>2. CASE ~Resolve(s)
    <3>1. Crash(s)
      BY <1>3, <2>2 DEF ProcessNext, HandlerStep, Deliver, ClaimJob, TurnAway, Begin, Admit, Dispatch, Return,
         Store, SendOutbound, Close, Fail, Doubt, Finish, Throw, StatementFails, Restart, waitVars
    <3>2. waiter'[m] = "gone"
      BY <1>1, <1>3, <3>1 DEF Crash
    <3>3. QED
      BY <3>2 DEF Reply
  <2>3. QED
    BY <2>1, <2>2
<1>4. ASSUME NEW n \in Message, MessageNext(n), waiter'[m] # waiter[m]
      PROVE  result[m] # "none" /\ waiter'[m] = answer[m]
  <2>1. CASE Poll(n)
    BY <1>1, <1>4, <2>1 DEF Poll
  <2>2. CASE ~Poll(n)
    <3>1. TimeOut(n) \/ StopWaiter(n) \/ \E p \in Task, s \in Process : EnqueueAndWait(n, p, s)
      BY <1>4, <2>2 DEF MessageNext, Enqueue, PublishControlled, MarkPublished, AddJob, Stall, Stop,
         ScanOn, ScanChildren, waitVars
    <3>2. waiter'[m] \in {"rejected", "waiting"}
      BY <1>1, <1>4, <3>1 DEF TimeOut, StopWaiter, EnqueueAndWait
    <3>3. QED
      BY <3>2 DEF Reply
  <2>3. QED
    BY <2>1, <2>2
<1>5. CASE waiter'[m] # waiter[m]
  <2>1. result[m] # "none" /\ waiter'[m] = answer[m]
    BY <1>3, <1>4, <1>5 DEF RelayNext, SettleTask, ControlRun, relayVars, waitVars
  <2>2. QED
    BY <2>1, AnswerStays
<1>6. QED
  BY <1>2, <1>5

\* Every step keeps every message's part of the invariant.
LEMMA MessageInvStep ==
  ASSUME CallInv, [RelayNext]_relayVars, NEW m \in Message
  PROVE  MessageInv(m)'
<1>1. MessageInv(m) /\ m \in Task /\ TypeOK
  BY Kinds DEF CallInv, BaseInv, LedgerInv
<1>2. waiter'[m] \in Reply => result'[m] # "none" /\ waiter'[m] = answer'[m]
  BY WaiterStep
<1>3. Taken(m) => Taken(m)'
  BY TakenStep
<1>4. Registered(m) /\ Over(m) => Over(m)'
  BY OverStep
<1>5. CASE Bystander(m)
  <2>1. m \in processed' => state'[m] \notin {"absent", "queued"} /\ Taken(m)'
    BY <1>1, <1>3, <1>5 DEF Bystander, MessageInv
  <2>2. result'[m] = "answered" => Taken(m)'
    BY <1>1, <1>3, <1>5 DEF Bystander, MessageInv
  <2>3. state'[m] = "completed" => Over(m)'
    BY <1>1, <1>4, <1>5 DEF Bystander, MessageInv, Over
  <2>4. result'[m] = "canceled" => answer'[m] = "dead" /\ m \notin processed'
    BY <1>1, <1>5 DEF Bystander, MessageInv
  <2>5. QED
    BY <1>2, <2>1, <2>2, <2>3, <2>4 DEF MessageInv
<1>6. ASSUME NEW s \in Process, ProcessNext(s), Acts(s, m)
      PROVE  MessageInv(m)'
  <2>1. /\ Taken(m) /\ pc[s] \in Working /\ on[s] = m
        /\ m \in processed' => state'[m] \notin {"absent", "queued"}
        /\ state'[m] = "completed" /\ state[m] # "completed" => Close(s)
        /\ result'[m] = "canceled" => result[m] = "canceled" /\ (m \in processed' => m \in processed)
    BY <1>6, ActsRow
  <2>2. state'[m] = "completed" => Over(m)'
    <3>1. CASE state[m] = "completed"
      BY <1>1, <1>4, <3>1 DEF MessageInv
    <3>2. CASE state[m] # "completed" /\ Close(s)
      <4>1. claim[JobOf[m]] = s /\ s # NoToken /\ state[JobOf[m]] # "completed"
        BY <2>1, Holder, Kinds
      <4>2. pc'[s] = "resolving" /\ \A v \in Process : v # s => pc'[v] = pc[v] /\ on'[v] = on[v]
        BY <3>2 DEF Close, Goto, CallInv, BaseInv, RelayInv, RelayTypes
      <4>3. \A v \in Process : v # s /\ on[v] = m => pc[v] \notin Early \cup {"body"}
        BY <2>1, OneSlot DEF Working, Early
      <4>4. claim'[JobOf[m]] # NoToken
        BY <4>1, <4>2, ClaimRowStep DEF CallInv, ClaimRow
      <4>5. QED
        BY <4>2, <4>3, <4>4 DEF Over, Early
    <3>3. QED
      BY <2>1, <3>1, <3>2
  <2>3. result'[m] = "canceled" => answer'[m] = "dead" /\ m \notin processed'
    BY <1>1, <2>1, AnswerStays DEF MessageInv
  <2>4. QED
    BY <1>2, <1>3, <2>1, <2>2, <2>3 DEF MessageInv
<1>7. QED
  BY <1>5, <1>6, MessageRowStep DEF CallInv

\* At the start there is no message and no call.
LEMMA CallInit == RelayInit => CallInv
<1> SUFFICES ASSUME RelayInit PROVE CallInv
  OBVIOUS
<1>1. \A s \in Process : SlotInv(s)
  BY DEF RelayInit, SlotInv, Working, Early
<1>2. \A m \in Message : state[m] = "absent" /\ result[m] = "none" /\ waiter[m] = "none" /\ m \notin processed
  BY Kinds DEF RelayInit
<1>3. QED
  BY <1>1, <1>2, BaseInit DEF CallInv, MessageInv, Reply

\* Every step keeps the inductive invariant.
LEMMA CallStep ==
  ASSUME CallInv, [RelayNext]_relayVars
  PROVE  CallInv'
<1>1. BaseInv'
  BY BaseStep DEF CallInv
<1>2. \A s \in Process : SlotInv(s)'
  BY SlotMoves, Undisturbed
<1>3. QED
  BY <1>1, <1>2, MessageInvStep DEF CallInv

\* The inductive invariant holds in every reachable state.
LEMMA CallInvariant == RelaySpec => []CallInv
  BY CallInit, CallStep, PTL DEF RelaySpec

\* Whatever enqueueAndWait returned, from the registry of its own process or from the
\* durable row, is the durable answer.
THEOREM WaitersAgree == RelaySpec => []AnswersAgree
<1>1. CallInv => AnswersAgree
  BY DEF CallInv, MessageInv, AnswersAgree
<1>2. QED
  BY <1>1, CallInvariant, PTL

\* "Canceled before dispatch" is never said of a message whose processor was called.
THEOREM CancellationTruthful == RelaySpec => []CanceledBeforeDispatch
<1>1. CallInv => CanceledBeforeDispatch
  BY DEF CallInv, MessageInv, CanceledBeforeDispatch
<1>2. QED
  BY <1>1, CallInvariant, PTL

(***************************************************************************)
(* The refinement                                                          *)
(***************************************************************************)
BodyOf == [m \in Message |-> IF m \notin processed THEN "fresh"
                             ELSE IF Inside(m) THEN "inside" ELSE "left"]

VerdictOf == [m \in Message |-> IF state[m] = "completed" THEN "settled" ELSE "open"]

\* A slot enters or leaves the body of its message only by its own step.
LEMMA BodyMoves ==
  ASSUME CallInv, [RelayNext]_relayVars,
         \A s \in Process : (pc[s] = "body" <=> pc'[s] = "body"), processed' = processed
  PROVE  BodyOf' = BodyOf
<1>1. \A s \in Process : pc[s] = "body" => on'[s] = on[s]
  <2>1. ASSUME NEW s \in Process, pc[s] = "body", ProcessNext(s)
        PROVE  on'[s] = on[s]
    <3>1. pc'[s] = "body"
      BY <2>1
    <3>2. pc \in [Process -> SlotAt]
      BY DEF CallInv, BaseInv, RelayInv, RelayTypes
    <3>3. QED
      BY <2>1, <3>1, <3>2 DEF ProcessNext, HandlerStep, Deliver, ClaimJob, TurnAway, Begin, Admit, Dispatch,
         Call, Return, Store, SendOutbound, Close, Resolve, Fail, Doubt, Finish, Throw, StatementFails,
         Crash, Restart, Goto, Free
  <2>2. QED
    BY <2>1, Movers DEF CallInv
<1>2. ASSUME NEW m \in Message
      PROVE  Inside(m)' <=> Inside(m)
  BY <1>1 DEF Inside
<1>3. QED
  BY <1>2 DEF BodyOf

\* One message is entered by a dispatch, or left by its slot.
LEMMA BodySteps ==
  ASSUME CallInv, [RelayNext]_relayVars, NEW s \in Process, ProcessNext(s),
         ~(pc[s] = "body" <=> pc'[s] = "body")
  PROVE  Contract!Next
<1>1. /\ pc \in [Process -> SlotAt] /\ on \in [Process -> Message \cup {NoTask}]
      /\ SlotInv(s)
  BY DEF CallInv, BaseInv, RelayInv, RelayTypes
<1>2. \/ Dispatch(s) /\ pc'[s] = "body"
      \/ pc[s] = "body" /\ pc'[s] # "body" /\ ((\E r \in Reply : Return(s, r)) \/ Throw(s) \/ Crash(s))
  BY <1>1 DEF ProcessNext, HandlerStep, Deliver, ClaimJob, TurnAway, Begin, Admit, Dispatch,
     Call, Return, Store, SendOutbound, Close, Resolve, Fail, Doubt, Finish, Throw, StatementFails,
     Crash, Restart, Goto, Free
<1>3. on[s] \in Message /\ pc[s] \in Working
  BY <1>2, Holder DEF Dispatch, Working
<1>4. \A v \in Process : v # s /\ pc[v] = "body" => on[v] # on[s]
  BY <1>3, OneSlot DEF Working
<1>5. VerdictOf' = VerdictOf
  BY <1>2 DEF Dispatch, Return, Throw, Crash, taskVars, VerdictOf
<1>6. CASE Dispatch(s) /\ pc'[s] = "body"
  <2>1. /\ pc' = [pc EXCEPT ![s] = "body"] /\ on' = on /\ pc[s] = "checking"
        /\ processed' = processed \cup {on[s]} /\ on[s] \notin processed
    BY <1>1, <1>6 DEF Dispatch, Call, Goto, SlotInv, Early
  <2>2. state'[on[s]] # "completed" /\ state' = state
    <3>1. SlotInv(s)'
      BY SlotMoves
    <3>2. QED
      BY <1>6, <2>1, <3>1 DEF SlotInv, Dispatch, taskVars
  <2>3. Inside(on[s])' /\ \A m \in Message : m # on[s] => (Inside(m)' <=> Inside(m))
    BY <1>1, <1>3, <2>1 DEF Inside
  <2>4. BodyOf[on[s]] = "fresh" /\ BodyOf' = [BodyOf EXCEPT ![on[s]] = "inside"]
    BY <1>3, <2>1, <2>3 DEF BodyOf
  <2>5. VerdictOf[on[s]] = "open"
    BY <1>3, <2>2 DEF VerdictOf
  <2>6. QED
    BY <1>3, <1>5, <2>4, <2>5 DEF Contract!Next, Contract!Enter, BodyOf, VerdictOf
<1>7. CASE pc[s] = "body" /\ pc'[s] # "body" /\ ((\E r \in Reply : Return(s, r)) \/ Throw(s) \/ Crash(s))
  <2>1. /\ processed' = processed /\ on[s] \in processed
        /\ \A v \in Process : v # s => pc'[v] = pc[v] /\ on'[v] = on[v]
    BY <1>1, <1>7 DEF Return, Throw, Crash, Goto, Free, SlotInv
  <2>2. ASSUME NEW m \in Message
        PROVE  Inside(m)' <=> Inside(m) /\ m # on[s]
    <3>1. \A v \in Process :
            pc'[v] = "body" /\ on'[v] = m <=> pc[v] = "body" /\ on[v] = m /\ m # on[s]
      BY <1>4, <1>7, <2>1
    <3>2. QED
      BY <3>1 DEF Inside
  <2>3. Inside(on[s])
    BY <1>7 DEF Inside
  <2>4. BodyOf[on[s]] = "inside" /\ BodyOf' = [BodyOf EXCEPT ![on[s]] = "left"]
    BY <1>3, <2>1, <2>2, <2>3 DEF BodyOf
  <2>5. QED
    BY <1>3, <1>5, <2>4 DEF Contract!Next, Contract!Leave, BodyOf, VerdictOf
<1>8. QED
  BY <1>2, <1>6, <1>7

\* A message that becomes completed has nobody inside, and is the only one that does.
LEMMA Settling ==
  ASSUME CallInv, [RelayNext]_relayVars, BodyOf' = BodyOf
  PROVE  Contract!Next \/ VerdictOf' = VerdictOf
<1>1. TypeOK /\ [TaskNext]_taskVars /\ \A m \in Message : m \in Task
  BY StepsLedger, Kinds DEF CallInv, BaseInv, LedgerInv
<1>2. \A m \in Message : state[m] = "completed" => state'[m] = "completed"
  BY <1>1, Progress DEF CallInv, BaseInv, LedgerInv, Advances
<1>3. ASSUME NEW m \in Message, NEW n \in Message, state[m] # "completed", state'[m] = "completed",
             state[n] # "completed", state'[n] = "completed"
      PROVE  m = n
  <2>1. \E t \in Task : \A u \in Task : u # t => state'[u] = state[u]
    <3>1. CASE UNCHANGED taskVars
      BY <1>3, <3>1 DEF taskVars
    <3>2. CASE TaskNext
      BY <1>1, <3>2, ZenonT(40) DEF TaskNext, TypeOK, Register, Publish, Published, PublicationResult, SettleUnstarted,
         Retire, Change, Claim, FinishClaim, Receipt, PutReceipt, Open, Bind, RestoreAttempt, runVars
    <3>3. QED
      BY <1>1, <3>1, <3>2
  <2>2. QED
    BY <1>1, <1>3, <2>1
<1>4. ASSUME NEW m \in Message, state[m] # "completed", state'[m] = "completed"
      PROVE  ~Inside(m)
  <2>1. SUFFICES ASSUME NEW s \in Process, pc[s] = "body", on[s] = m
                 PROVE  FALSE
    BY DEF Inside
  <2>2. m \in processed /\ pc[s] \in Working
    BY <2>1 DEF CallInv, SlotInv, Working
  <2>3. state[m] \notin {"absent", "queued"} /\ state[JobOf[m]] # "completed"
    BY <2>1, <2>2, Holder DEF CallInv, MessageInv
  <2>4. ~Bystander(m)
    BY <1>4, <2>3 DEF Bystander
  <2>5. PICK v \in Process : ProcessNext(v) /\ Acts(v, m)
    BY <2>4, MessageRowStep DEF CallInv
  <2>6. Close(v) /\ on[v] = m
    BY <1>4, <2>5, ActsRow
  <2>7. v = s
    BY <2>1, <2>2, <2>6, OneSlot DEF Close, Working
  <2>8. QED
    BY <2>1, <2>6, <2>7 DEF Close
<1>5. CASE \E m \in Message : state[m] # "completed" /\ state'[m] = "completed"
  <2>1. PICK m \in Message : state[m] # "completed" /\ state'[m] = "completed"
    BY <1>5
  <2>2. BodyOf[m] # "inside"
    BY <1>4, <2>1 DEF BodyOf
  <2>3. \A n \in Message : n # m => (state'[n] = "completed" <=> state[n] = "completed")
    BY <1>2, <1>3, <2>1
  <2>4. VerdictOf[m] = "open" /\ VerdictOf' = [VerdictOf EXCEPT ![m] = "settled"]
    BY <2>1, <2>3 DEF VerdictOf
  <2>5. QED
    BY <2>2, <2>4 DEF Contract!Next, Contract!Settle, BodyOf, VerdictOf
<1>6. CASE ~\E m \in Message : state[m] # "completed" /\ state'[m] = "completed"
  BY <1>2, <1>6 DEF VerdictOf
<1>7. QED
  BY <1>5, <1>6

\* Every step is a step of the contract, or invisible to it.
LEMMA ContractStep ==
  ASSUME CallInv, [RelayNext]_relayVars
  PROVE  [Contract!Next]_(Contract!handlerVars)
<1>1. CASE \E s \in Process : ProcessNext(s) /\ ~(pc[s] = "body" <=> pc'[s] = "body")
  BY <1>1, BodySteps
<1>2. CASE ~\E s \in Process : ProcessNext(s) /\ ~(pc[s] = "body" <=> pc'[s] = "body")
  <2>1. \A s \in Process : (pc[s] = "body" <=> pc'[s] = "body")
    BY <1>2, Movers DEF CallInv
  <2>2. processed' = processed
    <3>1. ASSUME NEW s \in Process, ProcessNext(s), processed' # processed
          PROVE  FALSE
      <4>1. Dispatch(s)
        BY <3>1 DEF ProcessNext, HandlerStep, Deliver, ClaimJob, TurnAway, Begin, Admit,
           Return, Store, SendOutbound, Close, Resolve, Fail, Doubt, Finish, Throw, StatementFails,
           Crash, Restart
      <4>2. pc[s] = "checking" /\ pc'[s] = "body"
        BY <3>1, <4>1 DEF Dispatch, Call, Goto, CallInv, BaseInv, RelayInv, RelayTypes
      <4>3. QED
        BY <2>1, <4>2
    <3>2. \A m \in Message : MessageNext(m) => processed' = processed
      BY DEF MessageNext, Enqueue, EnqueueAndWait, PublishControlled,
         MarkPublished, AddJob, Stall, Poll, TimeOut, Stop, StopWaiter, ScanOn, ScanChildren
    <3>3. QED
      BY <3>1, <3>2 DEF RelayNext, SettleTask, ControlRun, relayVars
  <2>3. BodyOf' = BodyOf
    BY <2>1, <2>2, BodyMoves
  <2>4. Contract!Next \/ VerdictOf' = VerdictOf
    BY <2>3, Settling
  <2>5. QED
    BY <2>3, <2>4 DEF Contract!handlerVars, BodyOf, VerdictOf
<1>3. QED
  BY <1>1, <1>2

\* Before anything is published every message is fresh and open.
LEMMA ContractInit == RelayInit => Contract!Init
  BY Kinds DEF RelayInit, Contract!Init

\* For any number of messages and processes, under stalls, database errors, crashes
\* and cancellation, a processor is called at most once and its message is completed
\* only while it does not run: handoff messages implement HandlerOnce.
THEOREM ProcessorRunsOnce == RelaySpec => ProcessorOnceSpec
  BY CallInvariant, ContractInit, ContractStep, PTL DEF RelaySpec, ProcessorOnceSpec, Contract!Spec
=============================================================================
