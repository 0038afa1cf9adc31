------------------------- MODULE TaskControl_proofs -------------------------
(***************************************************************************)
(* Proofs, for every set of tasks, claims and executions, of what the task *)
(* ledger promises.  Two lemmas say all that the later proofs need to know *)
(* about a step: Growth (how the ancestry changes) and Progress (what can  *)
(* happen to one row).                                                     *)
(***************************************************************************)
EXTENDS TaskControl, TLAPS

USE DEF Registered

(***************************************************************************)
(* Type correctness                                                        *)
(***************************************************************************)
\* A new row's fixed part has the entry type.
LEMMA NewEntryType ==
  ASSUME TypeOK, NEW t \in Task, NEW p \in Task \cup {NoTask}, NEW pol \in Policy,
         NEW drain \in BOOLEAN
  PROVE  NewEntry(t, p, pol, drain) \in Entry
<1>1. CASE p # NoTask /\ pol = "attached"
  <2>1. entry[p] \in Entry
    BY <1>1 DEF TypeOK
  <2>2. QED
    BY <1>1, <2>1 DEF NewEntry, Entry
<1>2. CASE ~(p # NoTask /\ pol = "attached")
  BY <1>2 DEF NewEntry, Entry
<1>3. QED
  BY <1>1, <1>2

\* register() writes every column within its type.
LEMMA RegisterType ==
  ASSUME TypeOK, NEW t \in Task, NEW p \in Task \cup {NoTask}, NEW pol \in Policy,
         NEW drain \in BOOLEAN, NEW e \in Attempt \cup {NoAttempt},
         Register(t, p, pol, drain, e)
  PROVE  /\ entry' \in [Task -> Entry] /\ desired' \in [Task -> Intent]
         /\ state' \in [Task -> State] /\ claim' \in [Task -> Token \cup {NoToken}]
         /\ outcome' \in [Task -> Outcome] /\ admitted' \subseteq Task
         /\ current' \in [Task -> Attempt \cup {NoAttempt}]
         /\ attempts' \in [Task -> SUBSET Attempt]
<1>1. entry' \in [Task -> Entry]
  BY NewEntryType DEF Register, TypeOK
<1>2. attempts' \in [Task -> SUBSET Attempt]
  <2>1. (IF e = NoAttempt THEN {} ELSE {e}) \in SUBSET Attempt
    OBVIOUS
  <2>2. QED
    BY <2>1 DEF Register, TypeOK
<1>3. QED
  BY <1>1, <1>2 DEF Register, TypeOK, State

\* Every store method keeps the types.
LEMMA TypeStep ==
  ASSUME TypeOK, [TaskNext]_taskVars
  PROVE  TypeOK'
<1>1. ASSUME NEW t \in Task, NEW p \in Task \cup {NoTask}, NEW pol \in Policy,
             NEW drain \in BOOLEAN, NEW e \in Attempt \cup {NoAttempt},
             Register(t, p, pol, drain, e), UNCHANGED mailVars
      PROVE  TypeOK'
  BY <1>1, RegisterType DEF TypeOK, mailVars
<1>2. ASSUME NEW t \in Task, NEW p \in Task \cup {NoTask}, NEW pol \in Policy,
             NEW drain \in BOOLEAN, Publish(t, p, pol, drain)
      PROVE  TypeOK'
  <2>1. outbox' \in [Task -> {"none", "due", "published"}]
    BY <1>2 DEF Publish, TypeOK
  <2>2. CASE Register(t, p, pol, drain, NoAttempt)
    <3>1. NoAttempt \in Attempt \cup {NoAttempt}
      OBVIOUS
    <3>2. /\ entry' \in [Task -> Entry] /\ desired' \in [Task -> Intent]
          /\ state' \in [Task -> State] /\ claim' \in [Task -> Token \cup {NoToken}]
          /\ outcome' \in [Task -> Outcome] /\ admitted' \subseteq Task
          /\ current' \in [Task -> Attempt \cup {NoAttempt}]
          /\ attempts' \in [Task -> SUBSET Attempt]
      BY <2>2, <3>1, RegisterType
    <3>3. result' = result
      BY <1>2 DEF Publish
    <3>4. QED
      BY <2>1, <3>2, <3>3 DEF TypeOK
  <2>3. CASE UNCHANGED <<treeVars, runVars, execVars>>
    BY <1>2, <2>1, <2>3 DEF TypeOK, Publish, treeVars, runVars, execVars
  <2>4. QED
    BY <1>2, <2>2, <2>3 DEF Publish
<1>3. ASSUME NEW t \in Task, Published(t) \/ PublicationResult(t) \/ SettleUnstarted(t) \/ Retire(t)
      PROVE  TypeOK'
  <2>1. CASE Published(t)
    BY <2>1 DEF TypeOK, Published, treeVars, runVars, execVars
  <2>2. CASE PublicationResult(t)
    BY <2>2 DEF TypeOK, PublicationResult, treeVars, runVars, execVars, Answer
  <2>3. CASE SettleUnstarted(t)
    BY <2>3 DEF TypeOK, SettleUnstarted, PutReceipt, treeVars, execVars, Answer, State, Receipts
  <2>4. CASE Retire(t)
    BY <2>4 DEF TypeOK, Retire, PutReceipt, execVars, mailVars, State, Receipts, Intent
  <2>5. QED
    BY <1>3, <2>1, <2>2, <2>3, <2>4
<1>4. ASSUME NEW t \in Task, NEW d \in Intent, Change(t, d)
      PROVE  TypeOK'
  BY <1>4 DEF TypeOK, Change, runVars, execVars, mailVars
<1>5. ASSUME NEW t \in Task, NEW k \in Token, Claim(t, k)
      PROVE  TypeOK'
  BY <1>5 DEF TypeOK, Claim, treeVars, execVars, mailVars, State, Receipts
<1>6. ASSUME NEW t \in Task, NEW k \in Token, NEW how \in {"succeeded", "failed"},
             FinishClaim(t, k, how)
      PROVE  TypeOK'
  BY <1>6 DEF TypeOK, FinishClaim, treeVars, execVars, mailVars, State, Receipts, Outcome
<1>7. ASSUME NEW t \in Task, NEW s \in Receipts, NEW k \in Token \cup {NoToken}, Receipt(t, s, k)
      PROVE  TypeOK'
  BY <1>7 DEF TypeOK, Receipt, PutReceipt, treeVars, execVars, mailVars, State
<1>8. ASSUME NEW t \in Task, NEW e \in Attempt, Open(t, e)
      PROVE  TypeOK'
  <2>1. NewEntry(t, NoTask, "attached", FALSE) \in Entry
    BY NewEntryType DEF Policy
  <2>2. QED
    BY <1>8, <2>1 DEF TypeOK, Open, mailVars, State, Receipts
<1>9. ASSUME NEW t \in Task, NEW e \in Attempt, NEW f \in Attempt, Bind(t, e, f)
      PROVE  TypeOK'
  BY <1>9 DEF TypeOK, Bind, treeVars, mailVars, State, Receipts
<1>10. ASSUME NEW t \in Task, NEW e \in Attempt, NEW f \in Attempt, RestoreAttempt(t, e, f)
       PROVE  TypeOK'
  BY <1>10 DEF TypeOK, RestoreAttempt, mailVars, State, Receipts, Intent
<1>11. CASE UNCHANGED taskVars
  BY <1>11 DEF TypeOK, taskVars
<1>12. QED
  BY <1>1, <1>2, <1>3, <1>4, <1>5, <1>6, <1>7, <1>8, <1>9, <1>10, <1>11 DEF TaskNext

\* An empty ledger is well typed.
LEMMA TypeInit == TaskInit => TypeOK
  BY DEF TaskInit, TypeOK, NoEntry, Entry, Policy, Intent, State, Outcome

(***************************************************************************)
(* A row that does not exist holds nothing                                 *)
(***************************************************************************)
Blank ==
  \A t \in Task : ~Registered(t) =>
    claim[t] = NoToken /\ current[t] = NoAttempt /\ t \notin admitted

\* Every store method leaves absent rows blank.
LEMMA BlankStep ==
  ASSUME TypeOK, Blank, [TaskNext]_taskVars
  PROVE  Blank'
<1>0. SUFFICES ASSUME NEW u \in Task, state'[u] = "absent"
               PROVE  claim'[u] = NoToken /\ current'[u] = NoAttempt /\ u \notin admitted'
  BY DEF Blank
<1>1. ASSUME NEW t \in Task, NEW p \in Task \cup {NoTask}, NEW pol \in Policy,
             NEW drain \in BOOLEAN, NEW e \in Attempt \cup {NoAttempt},
             Register(t, p, pol, drain, e)
      PROVE  claim'[u] = NoToken /\ current'[u] = NoAttempt /\ u \notin admitted'
  BY <1>0, <1>1 DEF Register, Blank, TypeOK
<1>2. ASSUME NEW t \in Task, NEW p \in Task \cup {NoTask}, NEW pol \in Policy,
             NEW drain \in BOOLEAN, Publish(t, p, pol, drain)
      PROVE  claim'[u] = NoToken /\ current'[u] = NoAttempt /\ u \notin admitted'
  <2>1. CASE Register(t, p, pol, drain, NoAttempt)
    BY <1>1, <2>1
  <2>2. CASE UNCHANGED <<treeVars, runVars, execVars>>
    BY <1>0, <2>2 DEF Blank, runVars, execVars
  <2>3. QED
    BY <1>2, <2>1, <2>2 DEF Publish
<1>3. ASSUME NEW t \in Task, Published(t) \/ PublicationResult(t) \/ SettleUnstarted(t) \/ Retire(t)
      PROVE  claim'[u] = NoToken /\ current'[u] = NoAttempt /\ u \notin admitted'
  <2>1. CASE Published(t) \/ PublicationResult(t)
    BY <1>0, <2>1 DEF Blank, Published, PublicationResult, runVars, execVars
  <2>2. CASE SettleUnstarted(t) \/ Retire(t)
    BY <1>0, <2>2 DEF Blank, SettleUnstarted, Retire, PutReceipt, execVars, TypeOK
  <2>3. QED
    BY <1>3, <2>1, <2>2
<1>4. ASSUME NEW t \in Task, NEW d \in Intent, Change(t, d)
      PROVE  claim'[u] = NoToken /\ current'[u] = NoAttempt /\ u \notin admitted'
  BY <1>0, <1>4 DEF Blank, Change, runVars, execVars
<1>5. ASSUME NEW t \in Task, NEW k \in Token, Claim(t, k)
      PROVE  claim'[u] = NoToken /\ current'[u] = NoAttempt /\ u \notin admitted'
  BY <1>0, <1>5 DEF Blank, Claim, execVars, TypeOK
<1>6. ASSUME NEW t \in Task, NEW k \in Token, NEW how \in {"succeeded", "failed"},
             FinishClaim(t, k, how)
      PROVE  claim'[u] = NoToken /\ current'[u] = NoAttempt /\ u \notin admitted'
  BY <1>0, <1>6 DEF Blank, FinishClaim, execVars, TypeOK
<1>7. ASSUME NEW t \in Task, NEW s \in Receipts, NEW k \in Token \cup {NoToken}, Receipt(t, s, k)
      PROVE  claim'[u] = NoToken /\ current'[u] = NoAttempt /\ u \notin admitted'
  BY <1>0, <1>7 DEF Blank, Receipt, ReceiptAccepted, PutReceipt, execVars, TypeOK, Receipts
<1>8. ASSUME NEW t \in Task, NEW e \in Attempt, Open(t, e)
      PROVE  claim'[u] = NoToken /\ current'[u] = NoAttempt /\ u \notin admitted'
  BY <1>0, <1>8 DEF Blank, Open, TypeOK
<1>9. ASSUME NEW t \in Task, NEW e \in Attempt, NEW f \in Attempt,
             Bind(t, e, f) \/ RestoreAttempt(t, e, f)
      PROVE  claim'[u] = NoToken /\ current'[u] = NoAttempt /\ u \notin admitted'
  BY <1>0, <1>9 DEF Blank, Bind, RestoreAttempt, TypeOK
<1>10. CASE UNCHANGED taskVars
  BY <1>0, <1>10 DEF Blank, taskVars
<1>11. QED
  BY <1>1, <1>2, <1>3, <1>4, <1>5, <1>6, <1>7, <1>8, <1>9, <1>10 DEF TaskNext

\* An empty ledger is blank.
LEMMA BlankInit == TaskInit => Blank
  BY DEF TaskInit, Blank

(***************************************************************************)
(* Growth: how a step can change the ancestry                              *)
(***************************************************************************)
\* Either nobody's ancestry changes and no row appears, or one row appears below
\* an open parent and nothing else happens.
Appears(t, p, pol, drain) ==
  /\ ~Registered(t) /\ ParentOpen(p)
  /\ entry' = [entry EXCEPT ![t] = NewEntry(t, p, pol, drain)]
  /\ \E s \in {"queued", "running"} : state' = [state EXCEPT ![t] = s]
  /\ UNCHANGED <<desired, claim, outcome, admitted, result>>

Grows ==
  \/ UNCHANGED entry /\ \A u \in Task : Registered(u)' = Registered(u)
  \/ \E t \in Task, p \in Task \cup {NoTask}, pol \in Policy, drain \in BOOLEAN :
       Appears(t, p, pol, drain)

\* A step changes the ancestry only by inserting one row below an open parent.
LEMMA Growth ==
  ASSUME TypeOK, Blank, [TaskNext]_taskVars
  PROVE  Grows
<1>1. ASSUME NEW t \in Task, NEW p \in Task \cup {NoTask}, NEW pol \in Policy,
             NEW drain \in BOOLEAN, NEW e \in Attempt \cup {NoAttempt},
             Register(t, p, pol, drain, e), UNCHANGED result
      PROVE  Grows
  <2>1. Appears(t, p, pol, drain)
    BY <1>1 DEF Appears, Register
  <2>2. QED
    BY <2>1 DEF Grows
<1>2. ASSUME NEW t \in Task, NEW p \in Task \cup {NoTask}, NEW pol \in Policy,
             NEW drain \in BOOLEAN, Publish(t, p, pol, drain)
      PROVE  Grows
  <2>1. CASE Register(t, p, pol, drain, NoAttempt)
    <3>1. NoAttempt \in Attempt \cup {NoAttempt} /\ UNCHANGED result
      BY <1>2 DEF Publish
    <3>2. QED
      BY <1>1, <2>1, <3>1
  <2>2. CASE UNCHANGED <<treeVars, runVars, execVars>>
    BY <2>2 DEF Grows, treeVars, runVars
  <2>3. QED
    BY <1>2, <2>1, <2>2 DEF Publish
<1>3. ASSUME NEW t \in Task, Published(t) \/ PublicationResult(t) \/ SettleUnstarted(t) \/ Retire(t)
      PROVE  Grows
  <2>1. CASE Published(t) \/ PublicationResult(t)
    BY <2>1 DEF Grows, Published, PublicationResult, treeVars, runVars
  <2>2. CASE SettleUnstarted(t) \/ Retire(t)
    BY <2>2 DEF Grows, SettleUnstarted, Unstarted, Retire, PutReceipt, treeVars, TypeOK
  <2>3. QED
    BY <1>3, <2>1, <2>2
<1>4. ASSUME NEW t \in Task, NEW d \in Intent, Change(t, d)
      PROVE  Grows
  BY <1>4 DEF Grows, Change, runVars
<1>5. ASSUME NEW t \in Task, NEW k \in Token, Claim(t, k)
      PROVE  Grows
  BY <1>5 DEF Grows, Claim, treeVars, TypeOK
<1>6. ASSUME NEW t \in Task, NEW k \in Token, NEW how \in {"succeeded", "failed"},
             FinishClaim(t, k, how)
      PROVE  Grows
  <2>1. Registered(t)
    BY <1>6, NoTokenAssumption DEF FinishClaim, Blank
  <2>2. QED
    BY <1>6, <2>1 DEF Grows, FinishClaim, treeVars, TypeOK
<1>7. ASSUME NEW t \in Task, NEW s \in Receipts, NEW k \in Token \cup {NoToken}, Receipt(t, s, k)
      PROVE  Grows
  BY <1>7 DEF Grows, Receipt, ReceiptAccepted, PutReceipt, treeVars, TypeOK, Receipts
<1>8. ASSUME NEW t \in Task, NEW e \in Attempt, Open(t, e)
      PROVE  Grows
  <2>1. Appears(t, NoTask, "attached", FALSE)
    BY <1>8 DEF Appears, Open, ParentOpen, mailVars
  <2>2. QED
    BY <2>1 DEF Grows, Policy
<1>9. ASSUME NEW t \in Task, NEW e \in Attempt, NEW f \in Attempt,
             Bind(t, e, f) \/ RestoreAttempt(t, e, f)
      PROVE  Grows
  <2>1. Registered(t)
    BY <1>9, NoAttemptAssumption DEF Bind, RestoreAttempt, Blank
  <2>2. QED
    BY <1>9, <2>1 DEF Grows, Bind, RestoreAttempt, treeVars, TypeOK
<1>10. CASE UNCHANGED taskVars
  BY <1>10 DEF Grows, taskVars
<1>11. QED
  BY <1>1, <1>2, <1>3, <1>4, <1>5, <1>6, <1>7, <1>8, <1>9, <1>10 DEF TaskNext, mailVars

(***************************************************************************)
(* The ancestry                                                            *)
(***************************************************************************)
\* Appending to an open parent's ancestry keeps it closed and its root unique.
LEMMA LineageStep ==
  ASSUME TypeOK, LineageClosed, Grows
  PROVE  LineageClosed'
<1>1. CASE UNCHANGED entry /\ \A u \in Task : Registered(u)' = Registered(u)
  <2>1. \A u \in Task : entry[u].lineage \subseteq Task
    BY DEF TypeOK, Entry
  <2>2. QED
    BY <1>1, <2>1 DEF LineageClosed
<1>2. ASSUME NEW t \in Task, NEW p \in Task \cup {NoTask}, NEW pol \in Policy,
             NEW drain \in BOOLEAN, Appears(t, p, pol, drain)
      PROVE  LineageClosed'
  <2> DEFINE new == NewEntry(t, p, pol, drain)
  <2>1. entry' = [entry EXCEPT ![t] = new] /\ ~Registered(t)
    BY <1>2 DEF Appears
  <2>2. entry'[t] = new /\ \A u \in Task : u # t => entry'[u] = entry[u]
    BY <2>1 DEF TypeOK
  <2>3. Registered(t)' /\ \A u \in Task : u # t => Registered(u)' = Registered(u)
    BY <1>2 DEF Appears, TypeOK
  <2>4. ASSUME NEW u \in Task, Registered(u)', u # t
        PROVE  /\ u \in entry'[u].lineage
               /\ entry'[u].root \in entry'[u].lineage
               /\ \A a \in entry'[u].lineage :
                    /\ Registered(a)'
                    /\ entry'[a].lineage \subseteq entry'[u].lineage
                    /\ entry'[a].root = entry'[u].root
    <3>1. Registered(u) /\ entry'[u] = entry[u]
      BY <2>2, <2>3, <2>4
    <3>2. entry[u].lineage \subseteq Task
      BY DEF TypeOK, Entry
    <3>3. \A a \in entry[u].lineage : a # t /\ Registered(a)
      BY <2>1, <3>1 DEF LineageClosed
    <3>4. QED
      BY <2>2, <2>3, <3>1, <3>2, <3>3 DEF LineageClosed
  <2>5. /\ t \in new.lineage
        /\ new.root \in new.lineage
        /\ \A a \in new.lineage :
             /\ Registered(a)'
             /\ entry'[a].lineage \subseteq new.lineage
             /\ entry'[a].root = new.root
    <3>1. CASE p # NoTask /\ pol = "attached"
      <4>1. /\ new.root = entry[p].root
            /\ new.lineage = entry[p].lineage \cup {t}
        BY <3>1 DEF NewEntry
      <4>2. p \in Task /\ Registered(p) /\ p # t
        BY <1>2, <2>1, <3>1 DEF Appears, ParentOpen
      <4>3. entry[p].lineage \subseteq Task
        BY <4>2 DEF TypeOK, Entry
      <4>4. \A a \in entry[p].lineage :
              /\ a # t /\ Registered(a)
              /\ entry[a].lineage \subseteq entry[p].lineage
              /\ entry[a].root = entry[p].root
        BY <2>1, <4>2 DEF LineageClosed
      <4>5. entry[p].root \in entry[p].lineage
        BY <4>2 DEF LineageClosed
      <4>6. QED
        BY <2>2, <2>3, <4>1, <4>3, <4>4, <4>5
    <3>2. CASE ~(p # NoTask /\ pol = "attached")
      <4>1. new.root = t /\ new.lineage = {t}
        BY <3>2 DEF NewEntry
      <4>2. QED
        BY <2>2, <2>3, <4>1
    <3>3. QED
      BY <3>1, <3>2
  <2>6. QED
    BY <2>2, <2>4, <2>5 DEF LineageClosed
<1>3. QED
  BY <1>1, <1>2 DEF Grows

\* An empty ledger has no ancestry to close.
LEMMA LineageInit == TaskInit => LineageClosed
  BY DEF TaskInit, LineageClosed

(***************************************************************************)
(* Progress: what a step can do to one row                                 *)
(***************************************************************************)
\* A completed task holds no claim.
Unheld == \A t \in Task : state[t] = "completed" => claim[t] = NoToken

Advances(u) ==
  /\ state[u] = "completed" => state'[u] = "completed" /\ outcome'[u] = outcome[u]
  /\ state'[u] = "completed" => claim'[u] = NoToken
  /\ Registered(u) /\ desired[u] = "terminated" => desired'[u] = "terminated"
  /\ outcome'[u] # outcome[u] =>
       state[u] # "completed" /\ state'[u] = "completed" /\ result'[u] = result[u]
  /\ u \in admitted' => u \in admitted \/ (state[u] # "completed" /\ state'[u] = "running")
  /\ state'[u] = "queued" => state[u] \in {"absent", "queued"}
  /\ result'[u] = "canceled" /\ result[u] # "canceled" =>
       Unstarted(u) /\ state'[u] = "completed" /\ outcome'[u] = outcome[u]

\* intentOf() answers terminated exactly when a member of the ancestry is.
LEMMA IntentTerminated ==
  ASSUME NEW t \in Task
  PROVE  IntentOf(t) = "terminated" <=> \E a \in entry[t].lineage : desired[a] = "terminated"
  BY DEF IntentOf

\* What one step can do to one row that exists: tombstones, completed states,
\* reported outcomes and the canceled answer each move one way only.
LEMMA Progress ==
  ASSUME TypeOK, Blank, Unheld, LineageClosed, [TaskNext]_taskVars, NEW u \in Task
  PROVE  Advances(u)
<1>1. ASSUME NEW t \in Task, NEW p \in Task \cup {NoTask}, NEW pol \in Policy,
             NEW drain \in BOOLEAN, NEW e \in Attempt \cup {NoAttempt},
             Register(t, p, pol, drain, e), UNCHANGED result
      PROVE  Advances(u)
  BY <1>1 DEF Register, Advances, Unheld, TypeOK
<1>2. ASSUME NEW t \in Task, NEW p \in Task \cup {NoTask}, NEW pol \in Policy,
             NEW drain \in BOOLEAN, Publish(t, p, pol, drain)
      PROVE  Advances(u)
  <2>1. NoAttempt \in Attempt \cup {NoAttempt} /\ UNCHANGED result
    BY <1>2 DEF Publish
  <2>2. CASE Register(t, p, pol, drain, NoAttempt)
    BY <1>1, <2>1, <2>2
  <2>3. CASE UNCHANGED <<treeVars, runVars, execVars>>
    BY <2>1, <2>3 DEF Advances, Unheld, treeVars, runVars
  <2>4. QED
    BY <1>2, <2>2, <2>3 DEF Publish
<1>3. ASSUME NEW t \in Task, Published(t) \/ PublicationResult(t)
      PROVE  Advances(u)
  BY <1>3 DEF Published, PublicationResult, Advances, Unheld, treeVars, runVars, TypeOK, Answer
<1>4. ASSUME NEW t \in Task, SettleUnstarted(t)
      PROVE  Advances(u)
  BY <1>4 DEF SettleUnstarted, Unstarted, PutReceipt, Advances, Unheld, treeVars, TypeOK
<1>5. ASSUME NEW t \in Task, Retire(t)
      PROVE  Advances(u)
  BY <1>5 DEF Retire, PutReceipt, Advances, Unheld, mailVars, TypeOK
<1>6. ASSUME NEW t \in Task, NEW d \in Intent, Change(t, d)
      PROVE  Advances(u)
  BY <1>6 DEF Change, ChangeAllowed, Advances, Unheld, runVars, mailVars, TypeOK
<1>7. ASSUME NEW t \in Task, NEW k \in Token, Claim(t, k)
      PROVE  Advances(u)
  <2>1. state[t] # "completed"
    BY <1>7 DEF Claim, ClaimRefusal
  <2>2. QED
    BY <1>7, <2>1 DEF Claim, Advances, Unheld, treeVars, mailVars, TypeOK
<1>8. ASSUME NEW t \in Task, NEW k \in Token, NEW how \in {"succeeded", "failed"},
             FinishClaim(t, k, how)
      PROVE  Advances(u)
  BY <1>8 DEF FinishClaim, Advances, Unheld, treeVars, mailVars, TypeOK
<1>9. ASSUME NEW t \in Task, NEW s \in Receipts, NEW k \in Token \cup {NoToken}, Receipt(t, s, k)
      PROVE  Advances(u)
  BY <1>9 DEF Receipt, ReceiptAccepted, PutReceipt, Receipts, Advances, Unheld, treeVars, mailVars, TypeOK
<1>10. ASSUME NEW t \in Task, NEW e \in Attempt, Open(t, e)
       PROVE  Advances(u)
  BY <1>10 DEF Open, Advances, Unheld, mailVars, TypeOK
<1>11. ASSUME NEW t \in Task, NEW e \in Attempt, NEW f \in Attempt,
              state[t] # "completed", Bind(t, e, f)
       PROVE  Advances(u)
  BY <1>11 DEF Bind, Advances, Unheld, treeVars, mailVars, TypeOK
<1>12. ASSUME NEW t \in Task, NEW e \in Attempt, NEW f \in Attempt,
              state[t] # "completed", RestoreAttempt(t, e, f)
       PROVE  Advances(u)
  <2>1. Registered(t)
    BY <1>12, NoAttemptAssumption DEF RestoreAttempt, Blank
  <2>2. desired[t] # "terminated"
    <3>1. t \in entry[t].lineage
      BY <2>1 DEF LineageClosed
    <3>2. QED
      BY <1>12, <3>1, IntentTerminated DEF RestoreAttempt
  <2>3. QED
    BY <1>12, <2>2 DEF RestoreAttempt, Advances, Unheld, mailVars, TypeOK
<1>13. CASE UNCHANGED taskVars
  BY <1>13 DEF taskVars, Advances, Unheld
<1>14. QED
  BY <1>1, <1>2, <1>3, <1>4, <1>5, <1>6, <1>7, <1>8, <1>9, <1>10, <1>11, <1>12, <1>13
     DEF TaskNext, mailVars

(***************************************************************************)
(* The inductive invariant                                                 *)
(***************************************************************************)
\* Blank and Unheld are what LineageClosed and the step lemmas need besides types:
\* an absent row cannot be claimed, bound or finished, a completed one not claimed.
LedgerInv == TypeOK /\ Blank /\ Unheld /\ LineageClosed

\* The inductive invariant holds of an empty ledger.
LEMMA LedgerInvInit == TaskInit => LedgerInv
  BY TypeInit, BlankInit, LineageInit DEF LedgerInv, Unheld, TaskInit

\* Every store method preserves the inductive invariant.
LEMMA LedgerInvStep ==
  ASSUME LedgerInv, [TaskNext]_taskVars
  PROVE  LedgerInv'
<1>1. TypeOK' /\ Blank'
  BY TypeStep, BlankStep DEF LedgerInv
<1>2. Unheld'
  BY Progress DEF LedgerInv, Unheld, Advances
<1>3. LineageClosed'
  BY Growth, LineageStep DEF LedgerInv
<1>4. QED
  BY <1>1, <1>2, <1>3 DEF LedgerInv

\* The inductive invariant holds in every reachable state.
LEMMA LedgerInvariant == TaskSpec => []LedgerInv
  BY LedgerInvInit, LedgerInvStep, PTL DEF TaskSpec

(***************************************************************************)
(* The theorems                                                            *)
(***************************************************************************)
\* Every row keeps values of its columns' types.
THEOREM TypeCorrect == TaskSpec => []TypeOK
<1>1. LedgerInv => TypeOK
  BY DEF LedgerInv
<1>2. QED
  BY <1>1, LedgerInvariant, PTL

\* register() builds a closed ancestry with one root per family, for any number of
\* tasks, depths and policies.
THEOREM AncestryClosed == TaskSpec => []LineageClosed
<1>1. LedgerInv => LineageClosed
  BY DEF LedgerInv
<1>2. QED
  BY <1>1, LedgerInvariant, PTL

\* One step never weakens an effective termination.
LEMMA TombstoneStep ==
  ASSUME LedgerInv, [TaskNext]_taskVars, NEW t \in Task,
         Registered(t), IntentOf(t) = "terminated"
  PROVE  Registered(t)' /\ IntentOf(t)' = "terminated"
<1>1. PICK a \in entry[t].lineage : desired[a] = "terminated"
  BY IntentTerminated
<1>2. a \in Task /\ Registered(a)
  BY <1>1 DEF LedgerInv, LineageClosed, TypeOK, Entry
<1>3. desired'[a] = "terminated"
  BY <1>1, <1>2, Progress DEF LedgerInv, Advances
<1>4. entry'[t] = entry[t] /\ Registered(t)'
  <2>1. Grows
    BY Growth DEF LedgerInv
  <2>2. QED
    BY <2>1 DEF Grows, Appears, LedgerInv, TypeOK
<1>5. QED
  BY <1>1, <1>3, <1>4 DEF IntentOf

\* Termination outlives every change, resume and failed resume, on the task and on
\* every ancestor it is inherited from.
THEOREM TombstoneHolds == TaskSpec => TerminationIsTombstone
<1>1. LedgerInv /\ [TaskNext]_taskVars =>
        [\A t \in Task :
           Registered(t) /\ IntentOf(t) = "terminated" => IntentOf(t)' = "terminated"]_taskVars
  BY TombstoneStep
<1>2. QED
  BY <1>1, LedgerInvariant, PTL DEF TaskSpec, TerminationIsTombstone

\* No receipt, claim, registration, binding or rollback touches a completed task.
THEOREM CompletionHolds == TaskSpec => CompletionIsFinal
<1>1. LedgerInv /\ [TaskNext]_taskVars =>
        [\A t \in Task : state[t] = "completed" =>
           /\ state'[t] = state[t]
           /\ outcome'[t] = outcome[t]
           /\ claim'[t] = NoToken]_taskVars
  BY Progress DEF LedgerInv, Advances
<1>2. QED
  BY <1>1, LedgerInvariant, PTL DEF TaskSpec, CompletionIsFinal

\* One step never opens a completed family.
LEMMA SealedStep ==
  ASSUME LedgerInv, [TaskNext]_taskVars, NEW t \in Task, Sealed(t)
  PROVE  Sealed(t)'
<1>1. \A d \in Task : state[d] = "completed" => state'[d] = "completed"
  BY Progress DEF LedgerInv, Advances
<1>2. \A d \in Task : t \in entry[d].lineage => state[d] = "completed"
  BY DEF Sealed, Settled, Descendants
<1>3. SUFFICES ASSUME NEW d \in Task, t \in entry'[d].lineage, d # t
               PROVE  state'[d] = "completed"
  BY <1>1 DEF Sealed, Settled, Descendants
<1>4. CASE entry'[d] = entry[d]
  BY <1>1, <1>2, <1>3, <1>4
<1>5. ASSUME NEW p \in Task \cup {NoTask}, NEW pol \in Policy, NEW drain \in BOOLEAN,
             ParentOpen(p), entry'[d] = NewEntry(d, p, pol, drain)
      PROVE  FALSE
  <2>1. p # NoTask /\ t \in entry[p].lineage
    BY <1>3, <1>5 DEF NewEntry
  <2>2. QED
    BY <1>2, <1>5, <2>1 DEF ParentOpen
<1>6. QED
  <2>1. Grows
    BY Growth DEF LedgerInv
  <2>2. QED
    BY <1>4, <1>5, <2>1 DEF Grows, Appears, LedgerInv, TypeOK

\* Work can never be hung below a family that is completed, however late its
\* publisher is and however deep the family.
THEOREM FamilyStaysSealed == TaskSpec => FamilySealed
<1>1. LedgerInv /\ [TaskNext]_taskVars => [\A t \in Task : Sealed(t) => Sealed(t)']_taskVars
  BY SealedStep
<1>2. QED
  BY <1>1, LedgerInvariant, PTL DEF TaskSpec, FamilySealed

\* What CanceledNeverRan needs to be inductive: a row that a claim has left never
\* returns to queued, and an outcome is only ever stored together with the completion.
CancelInv ==
  /\ CanceledNeverRan
  /\ \A t \in Task :
       /\ state[t] = "queued" => t \notin admitted
       /\ outcome[t] # "none" => state[t] = "completed"

\* One step keeps the canceled answer truthful.
LEMMA CancelStep ==
  ASSUME LedgerInv, CancelInv, [TaskNext]_taskVars
  PROVE  CancelInv'
<1>1. ASSUME NEW t \in Task
      PROVE  Advances(t)
  BY Progress DEF LedgerInv
<1>2. ASSUME NEW t \in Task
      PROVE  /\ state'[t] = "queued" => t \notin admitted'
             /\ outcome'[t] # "none" => state'[t] = "completed"
  BY <1>1 DEF CancelInv, Advances, LedgerInv, Blank
<1>3. ASSUME NEW t \in Task, result'[t] = "canceled"
      PROVE  /\ state'[t] = "completed" /\ IntentOf(t)' = "terminated"
             /\ t \notin admitted' /\ outcome'[t] = "none"
  <2>1. CASE result[t] = "canceled"
    <3>1. /\ state[t] = "completed" /\ IntentOf(t) = "terminated"
          /\ t \notin admitted /\ outcome[t] = "none"
      BY <2>1 DEF CancelInv, CanceledNeverRan
    <3>2. IntentOf(t)' = "terminated"
      BY <3>1, TombstoneStep
    <3>3. QED
      BY <1>1, <3>1, <3>2 DEF Advances
  <2>2. CASE result[t] # "canceled"
    <3>1. Unstarted(t) /\ state'[t] = "completed" /\ outcome'[t] = outcome[t]
      BY <1>1, <1>3, <2>2 DEF Advances
    <3>2. t \notin admitted /\ outcome[t] = "none" /\ Registered(t) /\ IntentOf(t) = "terminated"
      BY <3>1 DEF CancelInv, Unstarted
    <3>3. t \notin admitted'
      BY <1>1, <3>1, <3>2 DEF Advances
    <3>4. QED
      BY <3>1, <3>2, <3>3, TombstoneStep
  <2>3. QED
    BY <2>1, <2>2
<1>4. QED
  BY <1>2, <1>3 DEF CancelInv, CanceledNeverRan

\* 'Canceled before dispatch' is never written for a task that a claim ever admitted:
\* its handler never ran, and never will, because the task is completed.
THEOREM CancellationIsTruthful == TaskSpec => []CanceledNeverRan
<1>1. TaskInit => CancelInv
  BY DEF TaskInit, CancelInv, CanceledNeverRan
<1>2. LedgerInv /\ CancelInv /\ [TaskNext]_taskVars => CancelInv'
  BY CancelStep
<1>3. CancelInv => CanceledNeverRan
  BY DEF CancelInv
<1>4. QED
  BY <1>1, <1>2, <1>3, LedgerInvariant, PTL DEF TaskSpec
=============================================================================
