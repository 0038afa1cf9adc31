----------------------- MODULE ProviderAction_proofs -----------------------
(***************************************************************************)
(* Proofs, for any set of actions and workers and any number of failures,  *)
(* of the safety properties of provider actions.                           *)
(***************************************************************************)
EXTENDS ProviderAction, TLAPS

(***************************************************************************)
(* Type correctness                                                        *)
(***************************************************************************)
\* An instance starts with values of the types.
LEMMA TypeInit == ActionInit => ActionTypeOK
  BY ActionAssumption DEF ActionInit, ActionTypeOK, Idle, RowState, Status, Place, Granted

\* A worker that works on an action has one.
Busy == \A w \in Worker : slot[w].at # "idle" => slot[w].on \in Action

\* A worker's step keeps the types.
LEMMA WorkerType ==
  ASSUME ActionTypeOK, Busy, NEW w \in Worker,
         WorkerStep(w) \/ Lose(w) \/ \E a \in Action : Claim(w, a)
  PROVE  ActionTypeOK' /\ Busy'
<1> USE DEF ActionTypeOK, Busy, rowVars, sourceVars, history, Status, RowState, Place, Final, Idle
<1>1. slot[w].at # "idle" => slot[w].on \in Action
  OBVIOUS
<1> DEFINE Slots == [Worker -> [at : Place, on : Action \cup {NoWorker}, got : Status]]
<1>2. CASE Begin(w)
  <2>1. slot' \in Slots /\ Busy'
    BY <1>1, <1>2 DEF Begin, Set
  <2>2. source' \in [Action -> Worker \cup {NoWorker}] /\ said' \in [Action -> SUBSET Final]
    BY <1>1, <1>2 DEF Begin
  <2>3. QED
    BY <1>2, <2>1, <2>2 DEF Begin
<1>3. CASE BeginRefused(w)
  <2>1. row' \in [Action -> RowState \cup {"absent"}] /\ lease' \in [Action -> Worker \cup {NoWorker}]
    BY <1>1, <1>3 DEF BeginRefused
  <2>2. QED
    BY <1>1, <1>3, <2>1 DEF BeginRefused, Leave
<1>4. CASE NotOffered(w, "unknown") \/ NotOffered(w, "failed")
  <2>1. slot[w].on \in Action /\ slot[w].got \in Status
    BY <1>1, <1>4 DEF NotOffered
  <2>2. PICK reply \in Status : slot' = [slot EXCEPT ![w] = [at |-> "told", on |-> @.on, got |-> reply]]
    BY <1>4 DEF NotOffered, Told
  <2>3. slot' \in Slots /\ Busy'
    BY <2>1, <2>2
  <2>4. QED
    BY <1>4, <2>3 DEF NotOffered
<1>5. ASSUME NEW reply \in Status, Answer(w, reply)
      PROVE  ActionTypeOK' /\ Busy'
  <2> slot[w].on \in Action
    BY <1>1, <1>5 DEF Answer
  <2>1. slot' \in Slots /\ Busy'
    <3>1. slot' = [slot EXCEPT ![w] = [at |-> "told", on |-> @.on, got |-> reply]]
      BY <1>5 DEF Answer, Told
    <3>2. QED
      BY <1>5, <3>1
  <2>2. said' \in [Action -> SUBSET Final]
    BY <1>1, <1>5 DEF Answer
  <2>3. QED
    BY <1>5, <2>1, <2>2 DEF Answer
<1>6. CASE Settle(w)
  <2>1. slot[w].on \in Action /\ slot[w].got \in Status
    BY <1>1, <1>6 DEF Settle
  <2>2. slot' = [slot EXCEPT ![w] = Idle]
    BY <1>6 DEF Settle, Leave
  <2>3. CASE Owns(w) /\ row[slot[w].on] \in Active
    <3>1. row' \in [Action -> RowState \cup {"absent"}] /\ receipt' \in [Action -> Status \cup {"none"}]
      BY <1>6, <2>1, <2>3 DEF Settle
    <3>2. shown' \in [Action -> {"no", "missing", "yes"}] /\ lease' \in [Action -> Worker \cup {NoWorker}]
      BY <1>6, <2>1, <2>3 DEF Settle
    <3>3. QED
      BY <1>6, <2>1, <2>2, <2>3, <3>1, <3>2 DEF Settle
  <2>4. CASE ~(Owns(w) /\ row[slot[w].on] \in Active)
    BY <1>6, <2>2, <2>4 DEF Settle
  <2>5. QED
    BY <2>3, <2>4
<1>7. CASE Synchronize(w)
  BY <1>1, <1>7 DEF Synchronize, Set
<1>8. CASE NotFound(w)
  BY <1>1, <1>8 DEF NotFound, Set
<1>9. CASE Projected(w)
  BY <1>1, <1>9 DEF Projected, Leave
<1>10. CASE Lose(w)
  BY <1>1, <1>10, ActionAssumption DEF Lose, Leave, Fail
<1>11. ASSUME NEW a \in Action, Claim(w, a)
       PROVE  ActionTypeOK' /\ Busy'
  BY <1>1, <1>11 DEF Claim, ClaimMode
<1>12. QED
  BY <1>2, <1>3, <1>4, <1>5, <1>6, <1>7, <1>8, <1>9, <1>10, <1>11 DEF WorkerStep

\* What a native step changes: one grant, and nothing else.
LEMMA NativeFrame ==
  ASSUME ActionTypeOK, NEW a \in Action, NEW k \in Call, NativeStep(a, k)
  PROVE  /\ native' \in [Action -> [Call -> Granted]]
         /\ \A b \in Action, c \in Call : native'[b][c] # "none" => native[b][c] # "none" \/ Begun(b)
         /\ UNCHANGED <<rowVars, sourceVars, slot, history, faults>>
<1>1. PICK to \in Granted : Grant(a, k, to)
  BY DEF NativeStep, Prepare, Consume, StartExecution, ExecutionEnds, Granted
<1>2. native[a][k] # "none" \/ Begun(a)
  BY DEF NativeStep, Prepare, Consume, StartExecution, ExecutionEnds, GrantTarget
<1>3. QED
  BY <1>1, <1>2 DEF Grant, ActionTypeOK

\* Every step keeps the types.
LEMMA TypeStep ==
  ASSUME ActionTypeOK, Busy, [ActionNext]_actionVars
  PROVE  ActionTypeOK' /\ Busy'
<1> USE DEF ActionTypeOK, Busy, rowVars, sourceVars, history, Status, RowState
<1>1. ASSUME NEW a \in Action, Reserve(a) \/ Supersede(a)
      PROVE  ActionTypeOK' /\ Busy'
  BY <1>1 DEF Reserve, Supersede
<1>2. ASSUME NEW a \in Action, Expire(a)
      PROVE  ActionTypeOK' /\ Busy'
  BY <1>2, ActionAssumption DEF Expire, Fail
<1>3. ASSUME NEW a \in Action, NEW k \in Call, NativeStep(a, k)
      PROVE  ActionTypeOK' /\ Busy'
  BY <1>3, NativeFrame
<1>4. CASE CloseRound
  BY <1>4 DEF CloseRound
<1>5. CASE UNCHANGED actionVars
  BY <1>5 DEF actionVars
<1>6. QED
  BY <1>1, <1>2, <1>3, <1>4, <1>5, WorkerType DEF ActionNext

(***************************************************************************)
(* The inductive invariant                                                 *)
(***************************************************************************)
\* How a row, its dispatch mark and its grants belong together: a row that was never
\* sent has no mark, a grant needs the mark, and an end is founded.
RowInv(a) ==
  /\ row[a] \in {"absent", "queued", "superseded"} => ~Begun(a)
  /\ \A k \in Call : native[a][k] # "none" => Begun(a)
  /\ row[a] \in Final => row[a] \in said[a] \/ (row[a] = "failed" /\ ~Begun(a))

\* What a worker that still holds its lease may rely on: the call it was admitted to
\* has not begun, and the end it was told is the provider's word or needs none.
HeldInv(w) ==
  slot[w].at # "idle" /\ lease[slot[w].on] = w =>
    /\ slot[w].at = "execute" => ~Begun(slot[w].on)
    /\ slot[w].at = "told" /\ slot[w].got \in Final =>
         \/ slot[w].got \in said[slot[w].on]
         \/ slot[w].got = "failed" /\ ~Begun(slot[w].on)

OneActive == \A a, b \in Action : row[a] \in Active /\ row[b] \in Active => a = b

VerdictInv ==
  /\ ActionTypeOK /\ Busy /\ OneActive
  /\ \A a \in Action : RowInv(a)
  /\ \A w \in Worker : HeldInv(w)

\* What every step must keep of it besides the types.
Kept == OneActive /\ (\A a \in Action : RowInv(a)) /\ (\A w \in Worker : HeldInv(w))

\* An instance starts with no rows.
LEMMA VerdictInit == ActionInit => VerdictInv
  BY TypeInit DEF ActionInit, VerdictInv, Busy, OneActive, RowInv, HeldInv, Active, Begun, Final, Idle

\* Reservation, supersession, expiry, the end of a round, and the provider's own steps.
LEMMA RowSteps ==
  ASSUME VerdictInv, NEW a \in Action,
         Reserve(a) \/ Supersede(a) \/ Expire(a) \/ CloseRound \/ \E k \in Call : NativeStep(a, k)
  PROVE  Kept'
<1> USE DEF VerdictInv, ActionTypeOK, Busy, OneActive, RowInv, HeldInv, Begun, Kept, rowVars, sourceVars, history
<1>1. CASE Reserve(a)
  BY <1>1 DEF Reserve, Active, Final
<1>2. CASE Supersede(a)
  BY <1>2 DEF Supersede, Active, Final
<1>3. CASE Expire(a)
  BY <1>3, ActionAssumption DEF Expire
<1>4. CASE CloseRound
  BY <1>4 DEF CloseRound
<1>5. ASSUME NEW k \in Call, NativeStep(a, k)
      PROVE  Kept'
  <2>1. /\ \A b \in Action, c \in Call : native'[b][c] # "none" => native[b][c] # "none" \/ Begun(b)
        /\ UNCHANGED <<row, source, said, slot, lease>>
    BY <1>5, NativeFrame
  <2>2. \A b \in Action : RowInv(b)'
    BY <2>1
  <2>3. OneActive' /\ \A w \in Worker : HeldInv(w)'
    BY <2>1
  <2>4. QED
    BY <2>2, <2>3
<1>6. QED
  BY <1>1, <1>2, <1>3, <1>4, <1>5

\* A worker that claims: only the first claim of an action may execute it.
LEMMA ClaimStep ==
  ASSUME VerdictInv, NEW w \in Worker, NEW a \in Action, Claim(w, a)
  PROVE  Kept'
<1> USE DEF VerdictInv, ActionTypeOK
<1>1. /\ slot' = [slot EXCEPT ![w] = [at |-> ClaimMode(a), on |-> a, got |-> "unknown"]]
      /\ lease' = [lease EXCEPT ![a] = w]
      /\ UNCHANGED <<source, native, said>>
      /\ \A b \in Action : b # a => row'[b] = row[b]
  BY DEF Claim, history
<1>2. \/ row[a] = "queued" /\ row'[a] = "dispatching" /\ ClaimMode(a) = "execute"
      \/ row[a] = "dispatching" /\ row'[a] = "unknown" /\ ClaimMode(a) = "inspect"
      \/ row'[a] = row[a] /\ ClaimMode(a) \in {"project", "inspect"}
  BY DEF Claim, ClaimMode
<1>3. row[a] \in Active \/ row'[a] = row[a]
  BY <1>2 DEF Active
<1>4. OneActive'
  BY <1>1, <1>2, <1>3 DEF OneActive, Active
<1>5. \A b \in Action : RowInv(b)'
  BY <1>1, <1>2 DEF RowInv, Begun, Final
<1>6. ASSUME NEW v \in Worker
      PROVE  HeldInv(v)'
  <2>1. CASE v = w
    BY <1>1, <1>2, <2>1 DEF HeldInv, RowInv, Begun
  <2>2. CASE v # w
    BY <1>1, <2>2 DEF HeldInv, Begun, Busy
  <2>3. QED
    BY <2>1, <2>2
<1>7. QED
  BY <1>4, <1>5, <1>6 DEF Kept

\* A worker's other steps.
LEMMA WorkerSteps ==
  ASSUME VerdictInv, NEW w \in Worker, WorkerStep(w) \/ Lose(w)
  PROVE  Kept'
<1> USE DEF VerdictInv, ActionTypeOK, Busy, OneActive, RowInv, HeldInv, Begun, Kept, rowVars, sourceVars, history
<1>1. CASE Begin(w)
  BY <1>1, ActionAssumption DEF Begin, Set, Owns, Final
<1>2. CASE BeginRefused(w)
  BY <1>2, ActionAssumption DEF BeginRefused, Leave, Idle, Owns, Active, Final
<1>3. CASE NotOffered(w, "unknown") \/ NotOffered(w, "failed")
  <2>1. /\ slot[w].at = "execute" /\ slot[w].on \in Action
        /\ slot'[w].on = slot[w].on /\ slot'[w].at = "told" /\ slot'[w].got \in {"unknown", "failed"}
        /\ \A v \in Worker : v # w => slot'[v] = slot[v]
        /\ UNCHANGED <<row, source, said, lease, native>>
    BY <1>3 DEF NotOffered, Told
  <2>2. HeldInv(w)'
    BY <2>1 DEF Final
  <2>3. ASSUME NEW v \in Worker, v # w
        PROVE  HeldInv(v)'
    BY <2>1, <2>3
  <2>4. OneActive' /\ \A b \in Action : RowInv(b)'
    BY <2>1
  <2>5. QED
    BY <2>2, <2>3, <2>4
<1>4. ASSUME NEW reply \in Status, Answer(w, reply)
      PROVE  Kept'
  BY <1>4 DEF Answer, Told
<1>5. CASE Settle(w)
  <2>1. /\ slot'[w].at = "idle" /\ \A v \in Worker : v # w => slot'[v] = slot[v]
        /\ UNCHANGED <<source, said, native>>
    BY <1>5 DEF Settle, Leave, Idle
  <2>2. CASE Owns(w) /\ row[slot[w].on] \in Active
    <3>1. /\ slot[w].on \in Action /\ slot[w].at = "told" /\ lease[slot[w].on] = w
          /\ row' = [row EXCEPT ![slot[w].on] = slot[w].got]
          /\ lease' = [lease EXCEPT ![slot[w].on] = NoWorker]
      BY <1>5, <2>2 DEF Settle, Owns
    <3>2. slot[w].got \in Status
      OBVIOUS
    <3>3. OneActive'
      BY <2>2, <3>1
    <3>4. \A b \in Action : RowInv(b)'
      <4>1. slot[w].got \in Final =>
              slot[w].got \in said[slot[w].on] \/ (slot[w].got = "failed" /\ ~Begun(slot[w].on))
        BY <3>1
      <4>2. slot[w].got \notin {"absent", "queued", "superseded"}
        BY <3>2 DEF Status, Final
      <4>3. ASSUME NEW b \in Action
            PROVE  RowInv(b)'
        <5>1. CASE b = slot[w].on
          BY <2>1, <3>1, <4>1, <4>2, <5>1
        <5>2. CASE b # slot[w].on
          BY <2>1, <3>1, <5>2
        <5>3. QED
          BY <5>1, <5>2
      <4>4. QED
        BY <4>3
    <3>5. \A v \in Worker : HeldInv(v)'
      <4>1. \A v \in Worker : lease'[slot'[v].on] = v => lease[slot'[v].on] = v
        BY <2>1, <3>1, ActionAssumption
      <4>2. QED
        BY <2>1, <4>1
    <3>6. QED
      BY <3>3, <3>4, <3>5
  <2>3. CASE ~(Owns(w) /\ row[slot[w].on] \in Active)
    <3>1. UNCHANGED <<row, lease>>
      BY <1>5, <2>3 DEF Settle
    <3>2. QED
      BY <2>1, <3>1
  <2>4. QED
    BY <2>2, <2>3
<1>6. CASE Synchronize(w) \/ NotFound(w)
  <2>1. /\ slot'[w].at = "projected" /\ \A v \in Worker : v # w => slot'[v] = slot[v]
        /\ UNCHANGED <<row, source, said, lease, native>>
    BY <1>6 DEF Synchronize, NotFound, Set
  <2>2. QED
    BY <2>1
<1>7. CASE Projected(w)
  BY <1>7, ActionAssumption DEF Projected, Leave, Idle
<1>8. CASE Lose(w)
  BY <1>8 DEF Lose, Leave, Idle
<1>9. QED
  BY <1>1, <1>2, <1>3, <1>4, <1>5, <1>6, <1>7, <1>8 DEF WorkerStep

\* Every step keeps the inductive invariant.
LEMMA VerdictStep ==
  ASSUME VerdictInv, [ActionNext]_actionVars
  PROVE  VerdictInv'
<1>1. ActionTypeOK' /\ Busy'
  BY TypeStep DEF VerdictInv
<1>2. Kept'
  <2>1. CASE ActionNext
    <3>1. CASE CloseRound
      BY <3>1 DEF CloseRound, VerdictInv, Kept, OneActive, RowInv, HeldInv, Begun, rowVars, history
    <3>2. QED
      BY <2>1, <3>1, RowSteps, WorkerSteps, ClaimStep DEF ActionNext
  <2>2. CASE UNCHANGED actionVars
    BY <2>2 DEF VerdictInv, Kept, OneActive, RowInv, HeldInv, Begun, actionVars, rowVars, history
  <2>3. QED
    BY <2>1, <2>2
<1>3. QED
  BY <1>1, <1>2 DEF VerdictInv, Kept

\* The inductive invariant holds in every reachable state.
LEMMA VerdictInvariant == ActionSpec => []VerdictInv
  BY VerdictInit, VerdictStep, PTL DEF ActionSpec

(***************************************************************************)
(* The theorems                                                            *)
(***************************************************************************)
\* The action rows, the workers and the grants keep their types.
THEOREM ActionTypeCorrect == ActionSpec => []ActionTypeOK
<1>1. VerdictInv => ActionTypeOK
  BY DEF VerdictInv
<1>2. QED
  BY <1>1, VerdictInvariant, PTL

\* For any number of actions, call keys, workers and failures, and whatever the
\* provider answers: two actions of a node are at work together only after its word
\* that one of them is over.
THEOREM OverlapDeclared == ActionSpec => []OverlapIsDeclared
<1>1. VerdictInv => OverlapIsDeclared
  <2> SUFFICES ASSUME VerdictInv, NEW a \in Action, NEW b \in Action,
                      a # b, Working(a), Working(b)
               PROVE  \E c \in {a, b} : row[c] \in Final /\ row[c] \in said[c]
    BY DEF OverlapIsDeclared
  <2>1. Begun(a) /\ Begun(b)
    BY DEF VerdictInv, RowInv, Working
  <2>2. ASSUME NEW c \in Action, Begun(c)
        PROVE  row[c] \in Active \/ (row[c] \in Final /\ row[c] \in said[c])
    BY <2>2 DEF VerdictInv, ActionTypeOK, RowInv, RowState, Status, Active, Final
  <2>3. QED
    BY <2>1, <2>2 DEF VerdictInv, OneActive
<1>2. QED
  BY <1>1, VerdictInvariant, PTL

\* No end is invented, and what was superseded was never sent.
THEOREM VerdictFounded == ActionSpec => []VerdictIsFounded
<1>1. VerdictInv => VerdictIsFounded
  BY DEF VerdictInv, RowInv, VerdictIsFounded
<1>2. QED
  BY <1>1, VerdictInvariant, PTL

(***************************************************************************)
(* Receipts and their projection                                           *)
(***************************************************************************)
\* A worker that was given the node's snapshot, or was told that there is none, and
\* still owns the lease clears only the duty of a receipt it was asked for: nobody
\* else stored a newer one meanwhile.
ShownInv ==
  /\ ReceiptNotForgotten
  /\ \A w \in Worker : slot[w].at = "projected" /\ lease[slot[w].on] = w => shown[slot[w].on] # "no"

\* Every step keeps the duty to show a receipt.
LEMMA ShownStep ==
  ASSUME ActionTypeOK, Busy, ShownInv, [ActionNext]_actionVars
  PROVE  ShownInv'
<1> USE DEF ActionTypeOK, Busy, ShownInv, ReceiptNotForgotten, rowVars, sourceVars, history
<1>1. ASSUME NEW a \in Action, Reserve(a) \/ Supersede(a)
      PROVE  ShownInv'
  BY <1>1 DEF Reserve, Supersede
<1>2. ASSUME NEW a \in Action, Expire(a)
      PROVE  ShownInv'
  BY <1>2, ActionAssumption DEF Expire
<1>3. ASSUME NEW a \in Action, NEW k \in Call, NativeStep(a, k)
      PROVE  ShownInv'
  BY <1>3, NativeFrame
<1>4. ASSUME NEW w \in Worker, NEW a \in Action, Claim(w, a)
      PROVE  ShownInv'
  BY <1>4 DEF Claim, ClaimMode
<1>5. ASSUME NEW w \in Worker, Begin(w) \/ NotOffered(w, "unknown") \/ NotOffered(w, "failed")
      PROVE  ShownInv'
  BY <1>5 DEF Begin, NotOffered, Set, Told
<1>6. ASSUME NEW w \in Worker, BeginRefused(w) \/ Lose(w)
      PROVE  ShownInv'
  <2>1. /\ slot'[w].at = "idle" /\ \A v \in Worker : v # w => slot'[v] = slot[v]
        /\ UNCHANGED <<receipt, pending, shown>>
    BY <1>6 DEF BeginRefused, Lose, Leave, Idle
  <2>2. slot[w].on \in Action /\ lease' \in {lease, [lease EXCEPT ![slot[w].on] = NoWorker]}
    BY <1>6 DEF BeginRefused, Lose
  <2>3. QED
    BY <2>1, <2>2, ActionAssumption
<1>7. ASSUME NEW w \in Worker, NEW reply \in Status, Answer(w, reply)
      PROVE  ShownInv'
  BY <1>7 DEF Answer, Told
<1>8. ASSUME NEW w \in Worker, Settle(w)
      PROVE  ShownInv'
  <2>1. slot'[w].at = "idle" /\ \A v \in Worker : v # w => slot'[v] = slot[v]
    BY <1>8 DEF Settle, Leave, Idle
  <2>2. CASE Owns(w) /\ row[slot[w].on] \in Active
    <3>1. /\ slot[w].on \in Action
          /\ \A b \in Action : b # slot[w].on => shown'[b] = shown[b] /\ receipt'[b] = receipt[b] /\ lease'[b] = lease[b]
          /\ lease'[slot[w].on] = NoWorker /\ pending \subseteq pending'
          /\ slot[w].on \notin pending' => receipt[slot[w].on] = receipt'[slot[w].on]
          /\ receipt[slot[w].on] = receipt'[slot[w].on] => shown'[slot[w].on] = shown[slot[w].on]
      BY <1>8, <2>2 DEF Settle
    <3>2. ReceiptNotForgotten'
      BY <3>1
    <3>3. QED
      BY <2>1, <3>1, <3>2, ActionAssumption
  <2>3. CASE ~(Owns(w) /\ row[slot[w].on] \in Active)
    BY <1>8, <2>1, <2>3 DEF Settle
  <2>4. QED
    BY <2>2, <2>3
<1>9. ASSUME NEW w \in Worker, Synchronize(w) \/ NotFound(w)
      PROVE  ShownInv'
  <2>1. /\ slot'[w].on = slot[w].on /\ \A v \in Worker : v # w => slot'[v] = slot[v]
        /\ UNCHANGED <<receipt, pending, lease>>
    BY <1>9 DEF Synchronize, NotFound, Set
  <2>2. slot[w].on \in Action /\ shown'[slot[w].on] # "no" /\ \A b \in Action : shown[b] # "no" => shown'[b] # "no"
    BY <1>9 DEF Synchronize, NotFound
  <2>3. QED
    BY <2>1, <2>2
<1>10. ASSUME NEW w \in Worker, Projected(w)
      PROVE  ShownInv'
  BY <1>10, ActionAssumption DEF Projected, Leave, Idle, Owns
<1>11. CASE CloseRound \/ UNCHANGED actionVars
  BY <1>11 DEF CloseRound, actionVars
<1>12. QED
  BY <1>1, <1>2, <1>3, <1>4, <1>5, <1>6, <1>7, <1>8, <1>9, <1>10, <1>11 DEF ActionNext, WorkerStep

\* For an action that owes no projection the provider's snapshot was fetched since its
\* last new receipt, whatever overlaps.
THEOREM ReceiptsShown == ActionSpec => []ReceiptNotForgotten
<1>1. ActionInit => ShownInv
  BY DEF ActionInit, ShownInv, ReceiptNotForgotten, Idle
<1>2. VerdictInv /\ ShownInv /\ [ActionNext]_actionVars => ShownInv'
  BY ShownStep DEF VerdictInv
<1>3. ShownInv => ReceiptNotForgotten
  BY DEF ShownInv
<1>4. QED
  BY <1>1, <1>2, <1>3, VerdictInvariant, PTL DEF ActionSpec
=============================================================================
