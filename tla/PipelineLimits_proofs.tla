------------------------- MODULE PipelineLimits_proofs -------------------------
(***************************************************************************)
(* Proofs, for any template, any limits and any number of workers and      *)
(* faults, that the limits of a run hold of the effects that really run    *)
(* (the capacity, and the exclusive claim of a resource), and that no work *)
(* waits which they leave room for.                                        *)
(***************************************************************************)
EXTENDS PipelineRun_proofs

(***************************************************************************)
(* The inductive invariant                                                 *)
(***************************************************************************)
\* A row that counts against the capacity when rows are reserved.
Occupies(r) == r.state \in InFlight \cup {"queued"}
Occupied(rows) == {o \in Op : Occupies(rows[o])}

\* A row that holds the resource its node claims.
Holds(r) == r.claimed /\ ~r.ended

\* A stored success has its receipt, and whatever left the queue was claimed.
LimitRow(r) ==
  /\ r.state = "succeeded" => r.receipt = "succeeded"
  /\ r.started => r.claimed
  /\ r.state \in Runnable \ {"queued"} => r.claimed

HeldAlone ==
  \A o, p \in Op : /\ NodeOf(o) \in Exclusive /\ NodeOf(p) \in Exclusive
                   /\ Holds(op[o]) /\ Holds(op[p])
                   => o = p

WithinCapacity == IsFiniteSet(Occupied(op)) /\ Cardinality(Occupied(op)) <= Capacity

LimitInv == (\A o \in Op : LimitRow(op[o])) /\ HeldAlone /\ WithinCapacity

\* Rows of which none occupies or holds more than it does now.
Narrower(rows) ==
  \A o \in Op : /\ LimitRow(rows[o])
                /\ Holds(rows[o]) => Holds(op[o])
                /\ Occupies(rows[o]) => Occupies(op[o])

(***************************************************************************)
(* What steps have in common                                               *)
(***************************************************************************)
\* Rows that occupy no more stay within the capacity.
LEMMA NarrowCount ==
  ASSUME LimitInv, NEW rows, \A o \in Op : Occupies(rows[o]) => Occupies(op[o])
  PROVE  /\ IsFiniteSet(Occupied(rows)) /\ Cardinality(Occupied(rows)) \in Nat
         /\ Cardinality(Occupied(rows)) <= Capacity
<1>1. IsFiniteSet(Occupied(op)) /\ Cardinality(Occupied(op)) <= Capacity /\ Capacity \in Nat
  BY PipelineAssumption DEF LimitInv, WithinCapacity
<1>2. Occupied(rows) \in SUBSET Occupied(op)
  BY DEF Occupied
<1>3. /\ IsFiniteSet(Occupied(rows)) /\ Cardinality(Occupied(rows)) <= Cardinality(Occupied(op))
  BY <1>1, <1>2, FS_Subset
<1>4. Cardinality(Occupied(rows)) \in Nat /\ Cardinality(Occupied(op)) \in Nat
  BY <1>1, <1>3, FS_CardinalityType
<1>5. QED
  BY <1>1, <1>3, <1>4

\* A step that leaves narrower rows keeps the limits.
LEMMA NarrowLimits ==
  ASSUME LimitInv, Narrower(op')
  PROVE  LimitInv'
<1>1. WithinCapacity'
  BY NarrowCount DEF Narrower, WithinCapacity
<1>2. HeldAlone'
  BY DEF Narrower, HeldAlone, LimitInv
<1>3. QED
  BY <1>1, <1>2 DEF Narrower, LimitInv

\* A row that was just reserved holds nothing.
LEMMA QueuedHoldsNothing == LimitRow(Queued) /\ ~Holds(Queued)
  BY DEF LimitRow, Holds, Queued, NoRow, Runnable

\* The operations that are reserved for some nodes are no more than the nodes.
LEMMA ReservedCount ==
  ASSUME NEW S, NEW T, IsFiniteSet(S), NEW f \in [S -> T], T = {f[n] : n \in S}
  PROVE  IsFiniteSet(T) /\ Cardinality(T) \in Nat /\ Cardinality(S) \in Nat
         /\ Cardinality(T) <= Cardinality(S)
<1>1. f \in Surjection(S, T)
  BY DEF Surjection
<1>2. QED
  BY <1>1, FS_Surjection, FS_CardinalityType

\* Adding the rows of some nodes to occupied ones adds no more than the nodes.
LEMMA AddedCount ==
  ASSUME NEW A, IsFiniteSet(A), NEW S, IsFiniteSet(S), NEW f, f = [n \in S |-> f[n]],
         NEW B, B \subseteq A \cup {f[n] : n \in S}
  PROVE  IsFiniteSet(B) /\ Cardinality(B) \in Nat /\ Cardinality(A) \in Nat /\ Cardinality(S) \in Nat
         /\ Cardinality(B) <= Cardinality(A) + Cardinality(S)
<1> DEFINE T == {f[n] : n \in S}
<1>1. f \in [S -> T]
  OBVIOUS
<1>2. IsFiniteSet(T) /\ Cardinality(T) \in Nat /\ Cardinality(S) \in Nat /\ Cardinality(T) <= Cardinality(S)
  BY <1>1, ReservedCount
<1> HIDE DEF T
<1>3. /\ IsFiniteSet(A \cup T)
      /\ Cardinality(A \cup T) = Cardinality(A) + Cardinality(T) - Cardinality(A \cap T)
      /\ IsFiniteSet(A \cap T)
  BY <1>2, FS_Union, FS_Intersection
<1>4. Cardinality(A) \in Nat /\ Cardinality(A \cap T) \in Nat /\ Cardinality(A \cup T) \in Nat
  BY <1>3, FS_CardinalityType
<1>5. IsFiniteSet(B) /\ Cardinality(B) <= Cardinality(A \cup T)
  BY <1>3, FS_Subset DEF T
<1>6. Cardinality(B) \in Nat
  BY <1>5, FS_CardinalityType
<1>7. QED
  BY <1>2, <1>3, <1>4, <1>5, <1>6

\* One pass of the coordinator reserves no more rows than the capacity has left.
LEMMA AdvanceLimits ==
  ASSUME LimitInv, NEW rn, NEW rd, NEW st, NEW nd, NEW rows, Narrower(rows),
         AdvanceWithinTransaction(rn, rd, st, nd, rows)
  PROVE  LimitInv'
<1>1. CASE op' = rows
  BY <1>1, NarrowLimits
<1>2. CASE op' # rows
  <2>1. PICK S \in Plans(rows, rd, nd) :
          /\ Reservable(rows, S)
          /\ op' = [o \in Op |-> IF \E n \in S : o = NextOp(rows, rd, n) THEN Queued ELSE rows[o]]
    BY <1>2 DEF AdvanceWithinTransaction
  <2>2. \A o \in Op : op'[o] = Queued \/ op'[o] = rows[o]
    BY <2>1
  <2>3. \A o \in Op : LimitRow(op'[o]) /\ (Holds(op'[o]) => Holds(op[o]))
    BY <2>2, QueuedHoldsNothing DEF Narrower
  <2>4. HeldAlone'
    BY <2>3 DEF HeldAlone, LimitInv
  <2>5. /\ IsFiniteSet(Occupied(rows)) /\ Cardinality(Occupied(rows)) \in Nat
        /\ Cardinality(Occupied(rows)) <= Capacity /\ Capacity \in Nat
    BY NarrowCount, PipelineAssumption DEF Narrower
  <2>6. S \in SUBSET Node /\ IsFiniteSet(S)
    BY <2>1, PipelineAssumption, FS_Subset DEF Plans, Ready
  <2> DEFINE f == [n \in S |-> NextOp(rows, rd, n)]
  <2>7. Occupied(op)' \subseteq Occupied(rows) \cup {f[n] : n \in S}
    BY <2>1 DEF Occupied
  <2>8. CASE S = {}
    <3>1. \A o \in Op : op'[o] = rows[o]
      BY <2>1, <2>8
    <3>2. QED
      BY <3>1, NarrowLimits DEF Narrower
  <2>9. CASE S # {}
    <3>1. Cardinality(Occupied(rows)) + Cardinality(S) <= Capacity
      BY <2>1, <2>9 DEF Reservable, Occupied, Occupies
    <3>2. f = [n \in S |-> f[n]]
      OBVIOUS
    <3> HIDE DEF f
    <3>3. /\ IsFiniteSet(Occupied(op)') /\ Cardinality(Occupied(op)') \in Nat /\ Cardinality(S) \in Nat
          /\ Cardinality(Occupied(op)') <= Cardinality(Occupied(rows)) + Cardinality(S)
      BY <2>5, <2>6, <2>7, <3>2, AddedCount
    <3>4. WithinCapacity'
      BY <2>5, <3>1, <3>3 DEF WithinCapacity
    <3>5. QED
      BY <2>3, <2>4, <3>4 DEF LimitInv
  <2>10. QED
    BY <2>8, <2>9
<1>3. QED
  BY <1>1, <1>2

(***************************************************************************)
(* The steps                                                               *)
(***************************************************************************)
\* One row that is replaced by one that occupies and holds no more.
LEMMA OneNarrower ==
  ASSUME LimitInv, RunInv, NEW o \in Op, NEW r, op' = [op EXCEPT ![o] = r], LimitRow(r),
         Holds(r) => Holds(op[o]), Occupies(r) => Occupies(op[o])
  PROVE  LimitInv'
<1>1. \A p \in Op : op'[p] = IF p = o THEN r ELSE op[p]
  BY DEF RunInv, TypesInv
<1>2. Narrower(op')
  BY <1>1 DEF Narrower, LimitInv
<1>3. QED
  BY <1>2, NarrowLimits

\* claim() takes an exclusive resource only when no other operation holds it; every other
\* lease is of an operation that was claimed before.
LEMMA ClaimLimits ==
  ASSUME LimitInv, RunInv, NEW w \in Worker, NEW o \in Op, Claim(w, o)
  PROVE  LimitInv'
<1> DEFINE s == IF Mode(o) = "claimed" THEN "dispatching"
                ELSE IF Mode(o) = "look" /\ op[o].state = "dispatching" THEN "unknown"
                ELSE op[o].state
           r == [op[o] EXCEPT !.claimed = TRUE, !.state = s]
<1>1. /\ op[o] \in RowType /\ RowTrue(op[o], effect[o]) /\ LimitRow(op[o])
      /\ op[o].state \in Runnable /\ op' = [op EXCEPT ![o] = r]
      /\ Mode(o) = "claimed" => ~ResourcesBlock(o)
  BY DEF RunInv, TypesInv, RowsInv, LimitInv, Claim, Row
<1>2. /\ r.state = s /\ r.claimed /\ r.ended = op[o].ended /\ r.receipt = op[o].receipt
      /\ r.started = op[o].started
  BY <1>1 DEF RowType
<1>3. \/ s = op[o].state
      \/ s \in {"dispatching", "unknown"} /\ op[o].state \in {"queued", "dispatching"}
  BY DEF Mode
<1>4. LimitRow(r) /\ (Occupies(r) => Occupies(op[o]))
  BY <1>1, <1>2, <1>3 DEF LimitRow, Occupies, InFlight
<1>5. CASE op[o].claimed
  <2>1. Holds(r) => Holds(op[o])
    BY <1>2, <1>5 DEF Holds
  <2> HIDE DEF r
  <2>2. QED
    BY <1>1, <1>4, <2>1, OneNarrower
<1>6. CASE ~op[o].claimed
  <2>1. op[o].state = "queued" /\ ~op[o].started /\ op[o].cancel = "no"
    BY <1>1, <1>6 DEF LimitRow, RowTrue
  <2>2. ~ResourcesBlock(o)
    BY <1>1, <2>1 DEF Mode
  <2>3. \A p \in Op : p # o /\ NodeOf(p) \in Exclusive /\ NodeOf(o) \in Exclusive => ~Holds(op[p])
    BY <2>2 DEF ResourcesBlock, Holds
  <2> HIDE DEF r
  <2>4. \A p \in Op : op'[p] = IF p = o THEN r ELSE op[p]
    BY <1>1 DEF RunInv, TypesInv
  <2>5. HeldAlone'
    BY <2>3, <2>4 DEF HeldAlone, LimitInv
  <2>6. WithinCapacity'
    BY <1>4, <2>4, NarrowCount DEF WithinCapacity
  <2>7. QED
    BY <1>4, <2>4, <2>5, <2>6 DEF LimitInv
<1>7. QED
  BY <1>5, <1>6

\* The marks of a dispatch and of a cancellation change neither what a row occupies nor
\* what it holds.
LEMMA MarkLimits ==
  ASSUME LimitInv, RunInv, NEW w \in Worker, BeginDispatch(w) \/ BeginCancel(w)
  PROVE  LimitInv'
<1> DEFINE o == job[w].op
<1>1. CASE op' = op
  BY <1>1, NarrowLimits DEF Narrower, LimitInv
<1>2. CASE op' # op
  <2>1. /\ o \in Op /\ op[o] \in RowType /\ LimitRow(op[o])
    BY <1>2 DEF BeginDispatch, MayDispatch, BeginCancel, MayCancel, Owns, RunInv, TypesInv, LimitInv
  <2>2. PICK r : /\ op' = [op EXCEPT ![o] = r]
                 /\ \/ op[o].state = "dispatching" /\ r = [op[o] EXCEPT !.started = TRUE]
                    \/ r = [op[o] EXCEPT !.cancel = "sent"]
    BY <1>2 DEF BeginDispatch, MayDispatch, BeginCancel, Row
  <2>3. /\ r.state = op[o].state /\ r.claimed = op[o].claimed /\ r.ended = op[o].ended
        /\ r.receipt = op[o].receipt
        /\ r.started = op[o].started \/ op[o].state = "dispatching"
    BY <2>1, <2>2 DEF RowType
  <2>4. /\ LimitRow(r) /\ (Holds(r) => Holds(op[o])) /\ (Occupies(r) => Occupies(op[o]))
    BY <2>1, <2>3 DEF LimitRow, Holds, Occupies, Runnable
  <2>5. QED
    BY <2>1, <2>2, <2>4, OneNarrower
<1>3. QED
  BY <1>1, <1>2

\* What settle() writes occupies no more and holds no more than the row it settles.
LEMMA ObservedIsNarrower ==
  ASSUME NEW o \in Op, op[o] \in RowType, LimitRow(op[o]), NEW a \in Answer, a # "none",
         op[o].state \in Runnable \ {"queued"}, ~Immutable(o, a)
  PROVE  LET r == Observed(o, a) IN
         LimitRow(r) /\ (Holds(r) => Holds(op[o])) /\ (Occupies(r) => Occupies(op[o]))
<1> DEFINE ended == op[o].ended \/ ConfirmsEnd(a)
           s == IF IsCurrent(o) THEN IF a \in {"accepted", "rejected"} THEN a ELSE ReceiptOf(a)
                ELSE IF ~ended /\ ReceiptOf(a) \in {"pending", "unknown"} THEN ReceiptOf(a)
                ELSE "superseded"
           r == Observed(o, a)
<1>1. /\ r.state = s /\ r.receipt = ReceiptOf(a) /\ r.ended = ended
      /\ r.claimed = op[o].claimed /\ r.started = op[o].started
  BY DEF Observed, RowType
<1>2. s = "succeeded" => ReceiptOf(a) = "succeeded"
  BY DEF ReceiptOf
<1>3. op[o].claimed
  BY DEF LimitRow
<1>4. LimitRow(r)
  BY <1>1, <1>2, <1>3 DEF LimitRow
<1>5. Holds(r) => Holds(op[o])
  BY <1>1 DEF Holds
<1>6. Occupies(r) => Occupies(op[o])
  <2>1. CASE op[o].state = "succeeded"
    <3>1. ReceiptOf(a) = "succeeded"
      BY <2>1 DEF LimitRow, Immutable
    <3>2. s \in {"accepted", "rejected", "succeeded", "superseded"}
      BY <3>1
    <3>3. QED
      BY <1>1, <3>2 DEF Occupies, InFlight
  <2>2. CASE op[o].state # "succeeded"
    BY <2>2 DEF Occupies, InFlight, Runnable
  <2>3. QED
    BY <2>1, <2>2
<1>7. QED
  BY <1>4, <1>5, <1>6

\* A settlement keeps the limits, and so does the pass that may follow it.
LEMMA SettleLimits ==
  ASSUME LimitInv, RunInv, NEW w \in Worker, Settle(w)
  PROVE  LimitInv'
<1> DEFINE o == job[w].op
           a == job[w].got
           r == Observed(o, a)
           rows == [op EXCEPT ![o] = r]
<1>1. /\ o \in Op /\ op[o] \in RowType /\ LimitRow(op[o]) /\ a \in Answer /\ a # "none"
      /\ op[o].state \in Runnable \ {"queued"} /\ ~Immutable(o, a) /\ op \in [Op -> RowType]
  BY DEF Settle, MaySettle, Owns, RunInv, TypesInv, RowsInv, WorkersInv, WorkerTrue, AnswerTrue,
         JobType, LimitInv
<1>2. LimitRow(r) /\ (Holds(r) => Holds(op[o])) /\ (Occupies(r) => Occupies(op[o]))
  BY <1>1, ObservedIsNarrower
<1>3. \A p \in Op : rows[p] = IF p = o THEN r ELSE op[p]
  BY <1>1
<1>4. Narrower(rows)
  <2> HIDE DEF rows, r
  <2>1. QED
    BY <1>2, <1>3 DEF Narrower, LimitInv
<1>5. \/ op' = rows
      \/ \E nd : AdvanceWithinTransaction(run, round, rs, nd, rows)
  BY DEF Settle, FinishOrAdvance
<1> HIDE DEF rows
<1>6. QED
  BY <1>4, <1>5, NarrowLimits, AdvanceLimits

\* A retry leaves the rows to the pass that follows it.
LEMMA RetryLimits ==
  ASSUME LimitInv, NEW n \in Node, Retry(n)
  PROVE  LimitInv'
<1>1. Narrower(op)
  BY DEF Narrower, LimitInv
<1>2. QED
  BY <1>1, AdvanceLimits DEF Retry

\* A new round drops queued rows and keeps what may still run.
LEMMA NextRoundLimits ==
  ASSUME LimitInv, RunInv, NextRound
  PROVE  LimitInv'
<1> DEFINE rows == [o \in Op |-> IF RoundOf(o) = round /\ op[o].state = "queued"
                                 THEN [op[o] EXCEPT !.state = "superseded"] ELSE op[o]]
<1>1. AdvanceWithinTransaction("active", round + 1, "active", [n \in Node |-> NewNode], rows)
  BY DEF NextRound
<1>2. ASSUME NEW o \in Op
      PROVE  /\ LimitRow(rows[o]) /\ (Holds(rows[o]) => Holds(op[o]))
             /\ Occupies(rows[o]) => Occupies(op[o])
  <2>1. op[o] \in RowType /\ LimitRow(op[o])
    BY DEF RunInv, TypesInv, LimitInv
  <2>2. CASE rows[o] = op[o]
    BY <2>1, <2>2
  <2>3. CASE rows[o] # op[o]
    <3>1. op[o].state = "queued" /\ rows[o] = [op[o] EXCEPT !.state = "superseded"]
      BY <2>3
    <3>2. /\ rows[o].state = "superseded" /\ rows[o].claimed = op[o].claimed
          /\ rows[o].ended = op[o].ended /\ rows[o].started = op[o].started
      BY <2>1, <3>1 DEF RowType
    <3>3. QED
      BY <2>1, <3>2 DEF LimitRow, Holds, Occupies, InFlight, Runnable
  <2>4. QED
    BY <2>2, <2>3
<1> HIDE DEF rows
<1>3. Narrower(rows)
  BY <1>2 DEF Narrower
<1>4. QED
  BY <1>1, <1>3, AdvanceLimits

\* The command that cancels gives back what was not sent and nothing else.
LEMMA CancelLimits ==
  ASSUME LimitInv, RunInv, Cancel
  PROVE  LimitInv'
<1>1. op' = [o \in Op |-> CancelledRow(o)]
  BY DEF Cancel
<1>2. ASSUME NEW o \in Op
      PROVE  /\ LimitRow(CancelledRow(o)) /\ (Holds(CancelledRow(o)) => Holds(op[o]))
             /\ Occupies(CancelledRow(o)) => Occupies(op[o])
  <2>1. op[o] \in RowType /\ LimitRow(op[o])
    BY DEF RunInv, TypesInv, LimitInv
  <2>2. CASE op[o].state \notin Runnable
    BY <2>1, <2>2 DEF CancelledRow
  <2>3. CASE op[o].state \in Runnable
    <3>1. /\ CancelledRow(o).state \in {op[o].state, "superseded", "cancelled"}
          /\ CancelledRow(o).started = op[o].started
          /\ CancelledRow(o).claimed = op[o].claimed
          /\ op[o].ended => CancelledRow(o).ended
          /\ CancelledRow(o).state = op[o].state => CancelledRow(o).receipt = op[o].receipt
      <4>1. CASE op[o].started
        BY <2>1, <2>3, <4>1 DEF CancelledRow, RowType
      <4>2. CASE ~op[o].started
        BY <2>1, <2>3, <4>2 DEF CancelledRow, RowType, Runnable
      <4>3. QED
        BY <2>1, <4>1, <4>2
    <3>2. QED
      BY <2>1, <3>1 DEF LimitRow, Holds, Occupies, InFlight, Runnable
  <2>4. QED
    BY <2>2, <2>3
<1>3. Narrower(op')
  BY <1>1, <1>2 DEF Narrower
<1>4. QED
  BY <1>3, NarrowLimits

(***************************************************************************)
(* The theorems                                                            *)
(***************************************************************************)
\* The first pass reserves no more nodes than the capacity.
LEMMA LimitInvInit == PipelineInit => LimitInv
<1> SUFFICES ASSUME PipelineInit PROVE LimitInv
  OBVIOUS
<1> DEFINE none == [o \in Op |-> NoRow]
           fresh == [n \in Node |-> NewNode]
<1>1. PICK S \in SUBSET Node :
        /\ S \in Plans(none, 1, fresh)
        /\ op = [o \in Op |-> IF \E n \in S : o = <<1, n, 1>> THEN Queued ELSE NoRow]
  BY DEF PipelineInit
<1>2. \A o \in Op : LimitRow(op[o]) /\ ~Holds(op[o])
  BY <1>1, QueuedHoldsNothing DEF LimitRow, Holds, NoRow, Runnable
<1>3. IsFiniteSet(S) /\ Cardinality(S) \in Nat /\ Capacity \in Nat
  BY PipelineAssumption, FS_Subset, FS_CardinalityType
<1>4. Cardinality(S) <= Capacity
  <2>1. Free(none, 1, fresh) = Capacity
    <3>1. Reserved(none, 1) = 0
      BY DEF Reserved, NoRow, InFlight
    <3> DEFINE started == {n \in Node : fresh[n].runtime \in {"queued", "running", "cancelling", "unknown"}}
    <3>2. Free(none, 1, fresh) = Capacity - Reserved(none, 1) - Cardinality(started)
      BY DEF Free
    <3>3. started = {}
      BY DEF NewNode
    <3> HIDE DEF started, none, fresh
    <3>4. Cardinality(started) = 0
      BY <3>3, FS_EmptySet
    <3>5. QED
      BY <1>3, <3>1, <3>2, <3>4
  <2>2. CASE S = {}
    BY <1>3, <2>2, FS_EmptySet, PipelineAssumption
  <2>3. CASE S # {}
    BY <1>1, <2>1, <2>3 DEF Plans
  <2>4. QED
    BY <2>2, <2>3
<1>5. WithinCapacity
  <2> DEFINE f == [n \in S |-> <<1, n, 1>>]
  <2>1. Occupied(op) \subseteq {} \cup {f[n] : n \in S}
    BY <1>1 DEF Occupied, Occupies, NoRow, InFlight
  <2>2. f = [n \in S |-> f[n]]
    OBVIOUS
  <2> HIDE DEF f
  <2>3. /\ IsFiniteSet(Occupied(op)) /\ Cardinality(Occupied(op)) \in Nat
        /\ Cardinality(Occupied(op)) <= Cardinality({}) + Cardinality(S)
    BY <1>3, <2>1, <2>2, FS_EmptySet, AddedCount
  <2>4. QED
    BY <1>3, <1>4, <2>3, FS_EmptySet DEF WithinCapacity
<1>6. QED
  BY <1>2, <1>5 DEF LimitInv, HeldAlone

\* Every step keeps it.
LEMMA LimitInvStep ==
  ASSUME LimitInv, RunInv, [PipelineNext]_plVars
  PROVE  LimitInv'
<1>1. CASE op' = op
  BY <1>1, NarrowLimits DEF Narrower, LimitInv
<1>2. CASE op' # op
  <2>1. ASSUME NEW w \in Worker, Work(w) \/ Crash(w)
        PROVE  LimitInv'
    BY <1>2, <2>1, MarkLimits, SettleLimits
    DEF Work, DispatchRefused, SubjectSuperseded, Send, Stop, Look, Evaluate, SettleRefused,
        Crash, runVars
  <2>2. QED
    BY <1>2, <2>1, ClaimLimits, RetryLimits, NextRoundLimits, CancelLimits
    DEF PipelineNext, plVars, Arrive, EndEffect, Expire, Overrun, MoveSubject, runVars
<1>3. QED
  BY <1>1, <1>2

\* Rows stay within the limits in every reachable state.
LEMMA LimitInvariant == PipelineSpec => []LimitInv
  BY LimitInvInit, LimitInvStep, RunInvariant, PTL DEF PipelineSpec

\* For any template and any capacity, the effects that really run, those of superseded
\* rounds and of slow workers included, never exceed maxConcurrentExecutions.
THEOREM CapacityHeld == PipelineSpec => []CapacityRespected
<1>1. RunInv /\ LimitInv => CapacityRespected
  <2> SUFFICES ASSUME RunInv, LimitInv PROVE CapacityRespected
    OBVIOUS
  <2>1. ASSUME NEW o \in Op, effect[o] = "running"
        PROVE  Occupies(op[o])
    <3>1. RowTrue(op[o], effect[o])
      BY DEF RunInv, RowsInv
    <3>2. op[o].started /\ ~op[o].ended /\ op[o].state \in Runnable /\ op[o].state # "succeeded"
      BY <2>1, <3>1 DEF RowTrue, Ended
    <3>3. QED
      BY <3>2 DEF Occupies, InFlight, Runnable
  <2>2. Running \in SUBSET Occupied(op)
    BY <2>1 DEF Running, Occupied
  <2>3. IsFiniteSet(Occupied(op)) /\ Cardinality(Occupied(op)) <= Capacity /\ Capacity \in Nat
    BY PipelineAssumption DEF LimitInv, WithinCapacity
  <2>4. IsFiniteSet(Running) /\ Cardinality(Running) <= Cardinality(Occupied(op))
    BY <2>2, <2>3, FS_Subset
  <2>5. Cardinality(Running) \in Nat /\ Cardinality(Occupied(op)) \in Nat
    BY <2>3, <2>4, FS_CardinalityType
  <2>6. QED
    BY <2>3, <2>4, <2>5 DEF CapacityRespected
<1>2. QED
  BY <1>1, RunInvariant, LimitInvariant, PTL

\* For any template, two effects that claim the same resource exclusively never run at the
\* same time, though the lease of the first may be long gone.
THEOREM ResourceAlone == PipelineSpec => []ResourceHeldOnce
<1>1. RunInv /\ LimitInv => ResourceHeldOnce
  <2> SUFFICES ASSUME RunInv, LimitInv PROVE ResourceHeldOnce
    OBVIOUS
  <2> DEFINE X == {o \in Running : NodeOf(o) \in Exclusive}
  <2>1. ASSUME NEW o \in Op, effect[o] = "running"
        PROVE  Holds(op[o])
    <3>1. RowTrue(op[o], effect[o]) /\ LimitRow(op[o])
      BY DEF RunInv, RowsInv, LimitInv
    <3>2. op[o].started /\ ~op[o].ended
      BY <2>1, <3>1 DEF RowTrue, Ended
    <3>3. QED
      BY <3>1, <3>2 DEF LimitRow, Holds
  <2>2. \A o, p \in X : o = p
    BY <2>1 DEF Running, LimitInv, HeldAlone
  <2>3. X = {} \/ \E o : X = {o}
    BY <2>2
  <2>4. Cardinality(X) \in {0, 1}
    BY <2>3, FS_EmptySet, FS_Singleton
  <2>5. QED
    BY <2>4 DEF ResourceHeldOnce
<1>2. QED
  BY <1>1, RunInvariant, LimitInvariant, PTL

(***************************************************************************)
(* Nothing is left unplanned                                               *)
(***************************************************************************)
\* The coordinator finds no work, or no capacity for it.
Planless(rows, rd, nd) == Ready(nd) = {} \/ Free(rows, rd, nd) <= 0

\* The last pass left nothing to start, or an output was lost since.
Passed ==
  run \in {"active", "waiting"} /\ rs = "active" =>
    (\E o \in Op : LostOutput(o)) \/ Planless(op, round, node)

\* The owner of a lease that read "pending" read it after every recorded end: who records
\* an end gives the lease up.
FreshAnswer(w) ==
  job[w].at = "settle" /\ Owns(w) /\ job[w].got = "pending" => ~op[job[w].op].ended

PlanInv == Passed /\ \A w \in Worker : FreshAnswer(w)

Busy(nd) == {n \in Node : nd[n].runtime \in {"queued", "running", "cancelling", "unknown"}}

\* A pass starts all ready work, or fills the capacity.
LEMMA PassLeavesNothing ==
  ASSUME NEW rows, NEW rd, NEW nd, NEW S \in Plans(rows, rd, nd), NEW rows2, NEW nd2,
         nd2 = [n \in Node |-> IF n \in S THEN [life |-> "active", runtime |-> "queued"] ELSE nd[n]],
         \A o \in Op : RoundOf(o) # rd => rows2[o].state = rows[o].state
  PROVE  Planless(rows2, rd, nd2)
<1>1. /\ IsFiniteSet(Node) /\ Capacity \in Nat /\ S \subseteq Ready(nd) /\ S \subseteq Node
      /\ \A n \in S : nd[n] = NewNode
      /\ \A n \in Node : Needs[n] \subseteq Node
  BY PipelineAssumption DEF Plans, Ready
<1>2. /\ IsFiniteSet(S) /\ Cardinality(S) \in Nat
      /\ IsFiniteSet(Busy(nd)) /\ Cardinality(Busy(nd)) \in Nat
  BY <1>1, FS_Subset, FS_CardinalityType DEF Busy
<1>3. Busy(nd2) = Busy(nd) \cup S /\ Busy(nd) \cap S = {}
  BY <1>1 DEF Busy, NewNode
<1>4. Cardinality(Busy(nd2)) = Cardinality(Busy(nd)) + Cardinality(S)
  <2>1. Cardinality(Busy(nd2)) = Cardinality(Busy(nd)) + Cardinality(S) - Cardinality(Busy(nd) \cap S)
    BY <1>2, <1>3, FS_Union
  <2>2. Cardinality(Busy(nd) \cap S) = 0
    BY <1>3, FS_EmptySet
  <2>3. QED
    BY <1>2, <2>1, <2>2
<1>5. Reserved(rows2, rd) = Reserved(rows, rd) /\ Reserved(rows, rd) \in Nat
  BY <1>1 DEF Reserved
<1>6. Free(rows2, rd, nd2) = Free(rows, rd, nd) - Cardinality(S) /\ Free(rows, rd, nd) \in Int
  BY <1>1, <1>2, <1>4, <1>5 DEF Free, Busy
<1>7. Ready(nd2) \subseteq Ready(nd) \ S
  <2>1. SUFFICES ASSUME NEW n \in Ready(nd2)
                 PROVE  n \in Ready(nd) /\ n \notin S
    OBVIOUS
  <2>2. n \in Node /\ nd2[n].life = "pending" /\ nd2[n] = NewNode
    BY DEF Ready, NewNode
  <2>3. n \notin S /\ nd[n] = NewNode
    BY <2>2
  <2>4. \A m \in Needs[n] : m \in Node /\ nd2[m].life = "completed"
    BY <1>1, <2>2 DEF Ready
  <2>5. \A m \in Needs[n] : nd[m].life = "completed"
    BY <2>4
  <2>6. QED
    BY <2>2, <2>3, <2>5 DEF Ready
<1>8. CASE S = Ready(nd)
  BY <1>7, <1>8 DEF Planless
<1>9. CASE Cardinality(S) >= Free(rows, rd, nd)
  BY <1>2, <1>6, <1>9 DEF Planless
<1>10. QED
  BY <1>8, <1>9 DEF Plans

\* After a pass there is nothing to plan.
LEMMA AdvancePlans ==
  ASSUME NEW rn, NEW rd, NEW st, NEW nd, NEW rows, AdvanceWithinTransaction(rn, rd, st, nd, rows)
  PROVE  Passed'
<1>1. CASE st # "active" \/ rn \notin {"active", "waiting"}
  BY <1>1 DEF AdvanceWithinTransaction, Passed
<1>2. CASE st = "active" /\ rn \in {"active", "waiting"}
  <2>1. PICK S \in Plans(rows, rd, nd) :
          /\ node' = [n \in Node |-> IF n \in S THEN [life |-> "active", runtime |-> "queued"] ELSE nd[n]]
          /\ op' = [o \in Op |-> IF \E n \in S : o = NextOp(rows, rd, n) THEN Queued ELSE rows[o]]
    BY <1>2 DEF AdvanceWithinTransaction
  <2>2. \A o \in Op : RoundOf(o) # rd => op'[o].state = rows[o].state
    BY <2>1 DEF NextOp, RoundOf
  <2>3. round' = rd
    BY DEF AdvanceWithinTransaction
  <2>4. Planless(op', rd, node')
    BY <2>1, <2>2, PassLeavesNothing
  <2>5. QED
    BY <2>3, <2>4 DEF Passed, Planless, Free, Reserved, Ready
<1>3. QED
  BY <1>1, <1>2

\* Without a pass the capacity of an earlier round is freed by a lost output only.
LEMMA SamePlan ==
  ASSUME Passed, UNCHANGED <<run, round, rs, node>>,
         \A o \in Op : LostOutput(o) => op'[o] = op[o],
         \A o \in Op : RoundOf(o) # round /\ op[o].state \in InFlight =>
                         op'[o].state \in InFlight \/ LostOutput(o)'
  PROVE  Passed'
<1>1. SUFFICES ASSUME run \in {"active", "waiting"}, rs = "active", \A o \in Op : ~LostOutput(o)'
               PROVE  Planless(op', round, node)
  BY DEF Passed, Planless, Free, Reserved, Ready
<1>2. \A o \in Op : ~LostOutput(o)
  BY <1>1 DEF LostOutput
<1>3. Planless(op, round, node)
  BY <1>1, <1>2 DEF Passed
<1>4. \A o \in Op : RoundOf(o) # round /\ op[o].state \in InFlight => op'[o].state \in InFlight
  BY <1>1
<1>5. Reserved(op, round) \in Nat /\ Reserved(op', round) \in Nat
      /\ Reserved(op, round) <= Reserved(op', round)
  BY <1>4, PipelineAssumption DEF Reserved
<1>6. IsFiniteSet(Busy(node)) /\ Cardinality(Busy(node)) \in Nat /\ Capacity \in Nat
  BY PipelineAssumption, FS_Subset, FS_CardinalityType DEF Busy
<1>7. Free(op', round, node) <= Free(op, round, node)
      /\ Free(op', round, node) \in Int /\ Free(op, round, node) \in Int
  BY <1>5, <1>6 DEF Free, Busy
<1>8. QED
  BY <1>3, <1>7 DEF Planless

\* A worker that does not move keeps what it knows: ends are recorded with the lease.
LEMMA FreshKept ==
  ASSUME NEW w \in Worker, FreshAnswer(w), job'[w] = job[w],
         \A o \in Op : lease'[o] = w => lease[o] = w /\ (op'[o].ended => op[o].ended)
  PROVE  FreshAnswer(w)'
  BY DEF FreshAnswer, Owns

\* A state of a row that is not final is not superseded.
LEMMA LostIsFinal ==
  ASSUME NEW o \in Op, op[o].state \in Runnable
  PROVE  ~LostOutput(o)
  BY DEF LostOutput, Runnable

\* A worker's own step writes at most its row, and what counts against the capacity stays.
LEMMA WorkPlans ==
  ASSUME PlanInv, RunInv, NEW w \in Worker, Work(w) \/ Crash(w), ~Settle(w)
  PROVE  PlanInv'
<1> DEFINE o == job[w].op
<1>1. /\ UNCHANGED <<run, round, rs, node, lease>>
      /\ \A v \in Worker : v # w => job'[v] = job[v]
      /\ \/ op' = op
         \/ /\ o \in Op /\ op[o].state \in Runnable
            /\ \E r : /\ op' = [op EXCEPT ![o] = r]
                      /\ r.state = op[o].state /\ r.ended = op[o].ended
  <2>1. CASE BeginDispatch(w) \/ BeginCancel(w)
    <3>1. \A v \in Worker : v # w => job'[v] = job[v]
      BY <2>1 DEF BeginDispatch, BeginCancel, Goto, Leave, RunInv, TypesInv
    <3>2. CASE op' = op
      BY <2>1, <3>1, <3>2 DEF BeginDispatch, BeginCancel
    <3>3. CASE op' # op
      <4>1. o \in Op /\ lease[o] \in Worker /\ op[o] \in RowType /\ op[o].state \in Runnable
        BY <2>1, <3>3 DEF BeginDispatch, MayDispatch, BeginCancel, MayCancel, Owns, RunInv, TypesInv,
           RowsInv
      <4>2. PICK r : /\ op' = [op EXCEPT ![o] = r]
                     /\ \/ r = [op[o] EXCEPT !.started = TRUE]
                        \/ r = [op[o] EXCEPT !.cancel = "sent"]
        BY <2>1, <3>3 DEF BeginDispatch, BeginCancel, Row
      <4>3. r.state = op[o].state /\ r.ended = op[o].ended
        BY <4>1, <4>2 DEF RowType
      <4>4. QED
        BY <2>1, <3>1, <4>1, <4>2, <4>3 DEF BeginDispatch, BeginCancel
    <3>4. QED
      BY <3>2, <3>3
  <2>2. CASE ~(BeginDispatch(w) \/ BeginCancel(w))
    <3>1. UNCHANGED <<runVars, lease>>
      BY <2>2 DEF Work, DispatchRefused, SubjectSuperseded, Send, Stop, Look, Evaluate, SettleRefused,
         Crash
    <3>2. \A v \in Worker : v # w => job'[v] = job[v]
      BY <2>2 DEF Work, DispatchRefused, SubjectSuperseded, Send, Stop, Look, Evaluate, SettleRefused,
         Crash, Goto, Told, Leave, RunInv, TypesInv
    <3>3. QED
      BY <3>1, <3>2 DEF runVars
  <2>3. QED
    BY <2>1, <2>2
<1>2. \A p \in Op : op'[p].state = op[p].state /\ (op'[p].ended => op[p].ended)
                    /\ (op[p].state \notin Runnable => op'[p] = op[p])
  BY <1>1 DEF RunInv, TypesInv
<1>3. Passed'
  BY <1>1, <1>2, LostIsFinal, SamePlan DEF PlanInv
<1>4. ASSUME NEW v \in Worker, v # w
      PROVE  FreshAnswer(v)'
  BY <1>1, <1>2, <1>4, FreshKept DEF PlanInv
<1>5. FreshAnswer(w)'
  <2>1. SUFFICES ASSUME job'[w].at = "settle", Owns(w)', job'[w].got = "pending"
                 PROVE  ~op'[job'[w].op].ended
    BY DEF FreshAnswer
  <2>2. CASE job'[w] = job[w]
    BY <1>1, <1>2, <2>1, <2>2 DEF PlanInv, FreshAnswer, Owns
  <2>3. CASE job'[w] # job[w]
    <3>1. Look(w)
      BY <2>1, <2>3 DEF Work, BeginDispatch, DispatchRefused, SubjectSuperseded, Send, BeginCancel,
         Stop, Evaluate, SettleRefused, Crash, Goto, Told, Leave, Idle, RunInv, TypesInv, JobType
    <3>2. PICK a \in Answers(o) : Told(w, a)
      BY <3>1 DEF Look
    <3>3. /\ job[w] \in JobType /\ job'[w].got = a /\ job'[w].op = o /\ op' = op /\ o \in Op
      BY <2>1, <3>1, <3>2 DEF Look, Told, runVars, Owns, RunInv, TypesInv, JobType
    <3>4. effect[o] = "running"
      <4>1. effect[o] \in {"none", "running", "succeeded", "failed", "cancelled"}
        BY <3>3 DEF RunInv, TypesInv, Ended
      <4>2. QED
        BY <2>1, <3>2, <3>3, <4>1 DEF Answers
    <3>5. ~op[o].ended
      BY <3>3, <3>4 DEF RunInv, RowsInv, RowTrue, Ended
    <3>6. QED
      BY <3>3, <3>5
  <2>4. QED
    BY <2>2, <2>3
<1>6. QED
  BY <1>3, <1>4, <1>5 DEF PlanInv

\* A claim turns a lost dispatch into observation: both count against the capacity.
LEMMA ClaimPlans ==
  ASSUME PlanInv, RunInv, NEW w \in Worker, NEW o \in Op, Claim(w, o)
  PROVE  PlanInv'
<1>1. PICK r : /\ Row(o, r) /\ r.ended = op[o].ended
               /\ \/ r.state = op[o].state
                  \/ op[o].state = "queued"
                  \/ r.state = "unknown"
  <2>1. op[o] \in RowType
    BY DEF RunInv, TypesInv
  <2> DEFINE s == IF Mode(o) = "claimed" THEN "dispatching"
                  ELSE IF Mode(o) = "look" /\ op[o].state = "dispatching" THEN "unknown"
                  ELSE op[o].state
             r == [op[o] EXCEPT !.claimed = TRUE, !.state = s]
  <2>2. Row(o, r)
    BY DEF Claim
  <2>3. r.ended = op[o].ended /\ r.state = s
    BY <2>1 DEF RowType
  <2>4. Mode(o) = "claimed" => op[o].state = "queued"
    BY DEF Mode
  <2> HIDE DEF r
  <2>5. QED
    BY <2>2, <2>3, <2>4
<1>2. /\ op[o].state \in Runnable /\ UNCHANGED <<run, round, rs, node>>
      /\ op' = [op EXCEPT ![o] = r] /\ op \in [Op -> RowType]
      /\ lease' = [lease EXCEPT ![o] = w] /\ job[w] = Idle
      /\ job' = [job EXCEPT ![w] = [at |-> Mode(o), op |-> o, got |-> "none"]]
      /\ job \in [Worker -> JobType] /\ lease \in [Op -> Worker \cup {NoWorker}]
  BY <1>1 DEF Claim, Row, RunInv, TypesInv
<1>3. op[o].state = "queued" => RoundOf(o) = round
  BY DEF RunInv, CurrentInv, Fits
<1>4. Passed'
  <2>1. \A p \in Op : RoundOf(p) # round /\ op[p].state \in InFlight => op'[p].state \in InFlight
    BY <1>1, <1>2, <1>3 DEF InFlight
  <2>2. \A p \in Op : LostOutput(p) => op'[p] = op[p]
    BY <1>2, LostIsFinal
  <2>3. QED
    BY <1>2, <2>1, <2>2, SamePlan DEF PlanInv
<1>5. ASSUME NEW v \in Worker
      PROVE  FreshAnswer(v)'
  <2>1. CASE v = w
    BY <1>2, <2>1 DEF FreshAnswer, Mode
  <2>2. CASE v # w
    <3>1. job'[v] = job[v] /\ \A p \in Op : lease'[p] = v => lease[p] = v /\ p # o
      BY <1>2, <2>2
    <3>2. \A p \in Op : op'[p].ended => op[p].ended
      BY <1>1, <1>2
    <3>3. QED
      BY <3>1, <3>2, FreshKept DEF PlanInv
  <2>3. QED
    BY <2>1, <2>2
<1>6. QED
  BY <1>4, <1>5 DEF PlanInv

\* A settlement passes, or its row still counts, or its output was lost.
LEMMA SettlePlans ==
  ASSUME PlanInv, RunInv, LimitInv, NEW w \in Worker, Settle(w)
  PROVE  PlanInv'
<1> DEFINE o == job[w].op
           a == job[w].got
           rows == [op EXCEPT ![o] = Observed(o, a)]
<1>1. /\ o \in Op /\ op[o] \in RowType /\ LimitRow(op[o]) /\ a \in Answer /\ a # "none"
      /\ op[o].state \in Runnable \ {"queued"} /\ ~Immutable(o, a) /\ op \in [Op -> RowType]
      /\ lease \in [Op -> Worker \cup {NoWorker}] /\ job \in [Worker -> JobType]
      /\ lease' = [lease EXCEPT ![o] = NoWorker] /\ job' = [job EXCEPT ![w] = Idle]
      /\ Owns(w) /\ job[w].at = "settle" /\ RowTrue(op[o], effect[o])
  BY DEF Settle, MaySettle, Owns, Leave, RunInv, TypesInv, RowsInv, WorkersInv, WorkerTrue, AnswerTrue,
     JobType, LimitInv
<1>2. Passed'
  <2>1. CASE IsCurrent(o)
    BY <2>1, AdvancePlans DEF Settle
  <2>2. CASE ~IsCurrent(o) /\ ConfirmsEnd(a)
    <3>1. FinishOrAdvance(Historical(o, a), rows)
      BY <2>2 DEF Settle
    <3>2. CASE run = "cancelling" /\ ~Unresolved(rows)
      BY <3>1, <3>2 DEF FinishOrAdvance, Passed
    <3>3. CASE ~(run = "cancelling" /\ ~Unresolved(rows))
      BY <3>1, <3>3, AdvancePlans DEF FinishOrAdvance
    <3>4. QED
      BY <3>2, <3>3
  <2>3. CASE ~IsCurrent(o) /\ ~ConfirmsEnd(a)
    <3>1. op' = rows /\ UNCHANGED <<run, round, rs, node>>
      BY <2>3 DEF Settle
    <3>2. a \in {"pending", "unknown"} /\ ReceiptOf(a) = a
      BY <1>1, <2>3 DEF ConfirmsEnd, Answer, ReceiptOf
    <3>3. op[o].state # "succeeded"
      BY <1>1, <3>2 DEF Immutable, LimitRow
    <3>4. a = "pending" => ~op[o].ended
      BY <1>1 DEF PlanInv, FreshAnswer
    <3>5. op[o].ended => op[o].started
      BY <1>1 DEF RowTrue
    <3>6. op'[o] = Observed(o, a) /\ \A p \in Op : p # o => op'[p] = op[p]
      BY <1>1, <3>1
    <3>7. /\ Observed(o, a).started = op[o].started /\ Observed(o, a).receipt = a
          /\ Observed(o, a).ended = op[o].ended
          /\ Observed(o, a).state = IF ~op[o].ended THEN a ELSE "superseded"
      BY <1>1, <2>3, <3>2 DEF Observed, RowType
    <3>8. PICK q \in Op : q = o
      BY <1>1
    <3>9. op'[q].state \in InFlight \/ LostOutput(q)'
      BY <3>2, <3>4, <3>5, <3>6, <3>7, <3>8 DEF InFlight, LostOutput
    <3>10. \A p \in Op : p # q => op'[p] = op[p]
      BY <3>6, <3>8
    <3>11. ~LostOutput(q)
      BY <1>1, <3>8, LostIsFinal
    <3>12. \A p \in Op : op[p].state \in InFlight => op'[p].state \in InFlight \/ LostOutput(p)'
      BY <3>9, <3>10
    <3>13. \A p \in Op : LostOutput(p) => op'[p] = op[p]
      BY <3>10, <3>11
    <3>14. QED
      BY <3>1, <3>12, <3>13, SamePlan DEF PlanInv
  <2>4. QED
    BY <2>1, <2>2, <2>3
<1>3. \A p \in Op : p # o => (op'[p].ended => op[p].ended)
  <2>1. \A p \in Op : p # o => rows[p] = op[p]
    BY <1>1
  <2>2. ~Queued.ended
    BY DEF Queued, NoRow
  <2>3. ASSUME NEW nd, AdvanceWithinTransaction(run, round, rs, nd, rows), NEW p \in Op
        PROVE  op'[p] = rows[p] \/ op'[p] = Queued
    BY <2>3 DEF AdvanceWithinTransaction
  <2>4. \A p \in Op : op'[p] = rows[p] \/ op'[p] = Queued
    BY <2>3 DEF Settle, FinishOrAdvance
  <2> HIDE DEF rows
  <2>5. QED
    BY <2>1, <2>2, <2>4
<1>4. ASSUME NEW v \in Worker
      PROVE  FreshAnswer(v)'
  <2>1. CASE v = w
    BY <1>1, <2>1 DEF FreshAnswer, Idle
  <2>2. CASE v # w
    <3>1. job'[v] = job[v] /\ \A p \in Op : lease'[p] = v => lease[p] = v /\ p # o
      BY <1>1, <2>2, PipelineAssumption
    <3>2. QED
      BY <1>3, <3>1, FreshKept DEF PlanInv
  <2>3. QED
    BY <2>1, <2>2
<1>5. QED
  BY <1>2, <1>4 DEF PlanInv

\* A retry and a new round end with a pass.
LEMMA CommandPlans ==
  ASSUME PlanInv, RunInv, (\E n \in Node : Retry(n)) \/ NextRound
  PROVE  PlanInv'
<1>1. PICK rn, rd, st, nd, rows :
        /\ AdvanceWithinTransaction(rn, rd, st, nd, rows)
        /\ \A o \in Op : rows[o].ended = op[o].ended
  <2>1. CASE \E n \in Node : Retry(n)
    BY <2>1 DEF Retry
  <2>2. CASE NextRound
    <3> DEFINE rows == [o \in Op |-> IF RoundOf(o) = round /\ op[o].state = "queued"
                                     THEN [op[o] EXCEPT !.state = "superseded"] ELSE op[o]]
    <3>1. AdvanceWithinTransaction("active", round + 1, "active", [n \in Node |-> NewNode], rows)
      BY <2>2 DEF NextRound
    <3>2. \A o \in Op : rows[o].ended = op[o].ended
      BY DEF RunInv, TypesInv, RowType
    <3> HIDE DEF rows
    <3>3. QED
      BY <3>1, <3>2
  <2>3. QED
    BY <2>1, <2>2
<1>2. UNCHANGED <<lease, job>>
  BY DEF Retry, NextRound
<1>3. \A o \in Op : op'[o].ended => op[o].ended
  <2>1. \A o \in Op : op'[o] = rows[o] \/ op'[o] = Queued
    BY <1>1 DEF AdvanceWithinTransaction
  <2>2. ~Queued.ended
    BY DEF Queued, NoRow
  <2>3. QED
    BY <1>1, <2>1, <2>2
<1>4. QED
  BY <1>1, <1>2, <1>3, AdvancePlans, FreshKept DEF PlanInv

\* The cancellation stops the planning; it records the end of what was never sent, and
\* takes its lease away.
LEMMA CancelPlans ==
  ASSUME PlanInv, RunInv, Cancel
  PROVE  PlanInv'
<1>1. Passed'
  BY DEF Cancel, Passed
<1>2. /\ op' = [o \in Op |-> CancelledRow(o)] /\ job' = job
      /\ lease' = [o \in Op |-> IF op[o].state \in Runnable /\ CancelledRow(o).state \in Terminal
                                THEN NoWorker ELSE lease[o]]
  BY DEF Cancel
<1>3. ASSUME NEW w \in Worker, NEW o \in Op, lease'[o] = w
      PROVE  lease[o] = w /\ (op'[o].ended => op[o].ended)
  <2>1. /\ lease[o] = w /\ op'[o] = CancelledRow(o)
        /\ op[o].state \in Runnable => CancelledRow(o).state \notin Terminal
    BY <1>2, <1>3, PipelineAssumption
  <2>2. op[o] \in RowType
    BY DEF RunInv, TypesInv
  <2>3. CASE op[o].state \notin Runnable
    BY <2>1, <2>3 DEF CancelledRow
  <2>4. CASE op[o].state \in Runnable /\ ~op[o].started
    <3>1. CancelledRow(o).state \in {"superseded", "cancelled"}
      BY <2>2, <2>4 DEF CancelledRow, RowType
    <3>2. QED
      BY <2>1, <2>4, <3>1 DEF Terminal
  <2>5. CASE op[o].state \in Runnable /\ op[o].started
    <3>1. CancelledRow(o).ended = op[o].ended
      BY <2>2, <2>5 DEF CancelledRow, RowType
    <3>2. QED
      BY <2>1, <3>1
  <2>6. QED
    BY <2>3, <2>4, <2>5
<1>4. QED
  BY <1>1, <1>2, <1>3, FreshKept DEF PlanInv

\* The run starts with a pass.
LEMMA PlanInvInit == PipelineInit => PlanInv
<1> SUFFICES ASSUME PipelineInit PROVE PlanInv
  OBVIOUS
<1> DEFINE none == [o \in Op |-> NoRow]
           fresh == [n \in Node |-> NewNode]
<1>1. PICK S \in SUBSET Node :
        /\ S \in Plans(none, 1, fresh) /\ round = 1
        /\ node = [n \in Node |-> IF n \in S THEN [life |-> "active", runtime |-> "queued"] ELSE NewNode]
        /\ op = [o \in Op |-> IF \E n \in S : o = <<1, n, 1>> THEN Queued ELSE NoRow]
        /\ job = [w \in Worker |-> Idle]
  BY DEF PipelineInit
<1>2. \A o \in Op : RoundOf(o) # 1 => op[o].state = none[o].state
  BY <1>1 DEF RoundOf
<1>3. node = [n \in Node |-> IF n \in S THEN [life |-> "active", runtime |-> "queued"] ELSE fresh[n]]
  BY <1>1
<1> HIDE DEF none, fresh
<1>4. Planless(op, 1, node)
  BY <1>1, <1>2, <1>3, PassLeavesNothing
<1>5. QED
  BY <1>1, <1>4 DEF PlanInv, Passed, FreshAnswer, Idle

LEMMA PlanInvStep ==
  ASSUME PlanInv, RunInv, LimitInv, [PipelineNext]_plVars
  PROVE  PlanInv'
<1>1. ASSUME NEW w \in Worker, Work(w) \/ Crash(w)
      PROVE  PlanInv'
  BY <1>1, WorkPlans, SettlePlans
<1>2. ASSUME UNCHANGED <<run, round, rs, node, op, job>>,
             \A o \in Op : lease'[o] = lease[o] \/ lease'[o] = NoWorker
      PROVE  PlanInv'
  <2>1. Passed'
    BY <1>2 DEF PlanInv, Passed, LostOutput, Planless, Ready, Free, Reserved
  <2>2. \A w \in Worker : FreshAnswer(w)'
    BY <1>2, FreshKept, PipelineAssumption DEF PlanInv
  <2>3. QED
    BY <2>1, <2>2 DEF PlanInv
<1>3. ASSUME NEW o \in Op, Arrive(o) \/ EndEffect(o) \/ Expire(o) \/ Overrun(o)
      PROVE  PlanInv'
  BY <1>2, <1>3 DEF Arrive, EndEffect, Expire, Overrun, runVars, RunInv, TypesInv
<1>4. CASE MoveSubject \/ UNCHANGED plVars
  BY <1>2, <1>4 DEF MoveSubject, plVars, runVars
<1>5. QED
  BY <1>1, <1>3, <1>4, ClaimPlans, CommandPlans, CancelPlans DEF PipelineNext

\* For any template and any limits, no transaction leaves work that the coordinator could
\* start: capacity that an end gives back reaches the waiting node, in this round or the
\* next, except when the output of an operation of an earlier round was lost.
THEOREM PlannedAtOnce == PipelineSpec => []NothingLeftUnplanned
<1>1. PlanInv => NothingLeftUnplanned
  <2> SUFFICES ASSUME PlanInv, run \in {"active", "waiting"}, rs = "active",
                      ~\E o \in Op : LostOutput(o),
                      NEW S \in Plans(op, round, node)
               PROVE  S = {}
    BY DEF NothingLeftUnplanned
  <2>1. Planless(op, round, node)
    BY DEF PlanInv, Passed
  <2>2. CASE Ready(node) = {}
    BY <2>2 DEF Plans
  <2>3. CASE Free(op, round, node) <= 0
    <3>1. IsFiniteSet(S) /\ S \subseteq Node
      BY PipelineAssumption, FS_Subset DEF Plans, Ready
    <3>2. IsFiniteSet(Busy(node)) /\ Cardinality(Busy(node)) \in Nat /\ Cardinality(S) \in Nat
      BY <3>1, PipelineAssumption, FS_Subset, FS_CardinalityType DEF Busy
    <3>3. Free(op, round, node) \in Int
      BY <3>2, PipelineAssumption DEF Free, Reserved, Busy
    <3>4. S = {} \/ Cardinality(S) <= 0
      BY <2>3, <3>2, <3>3 DEF Plans
    <3>5. QED
      BY <3>1, <3>2, <3>4, FS_EmptySet
  <2>4. QED
    BY <2>1, <2>2, <2>3 DEF Planless
<1>2. QED
  BY <1>1, PlanInvInit, PlanInvStep, RunInvariant, LimitInvariant, PTL DEF PipelineSpec
=============================================================================
