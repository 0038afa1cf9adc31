-------------------------- MODULE PipelineRun_proofs --------------------------
(***************************************************************************)
(* Proofs, for any template, any limits and any number of workers and      *)
(* faults, of what the durable rows of a pipeline run say of the effects.  *)
(***************************************************************************)
EXTENDS PipelineRun, FiniteSetTheorems, TLAPS

(***************************************************************************)
(* The inductive invariant                                                 *)
(***************************************************************************)
\* The round's nodes and the rows of its operations agree: a row that may still change
\* belongs to an active node, no node has two of them, attempts are numbered without
\* gaps, and no row is of a round to come.
Fits(rows, nd, rd) ==
  /\ \A o \in Op : rows[o].state \in Runnable /\ RoundOf(o) = rd => nd[NodeOf(o)].life = "active"
  /\ \A o, p \in Op : /\ rows[o].state \in Runnable /\ rows[p].state \in Runnable
                      /\ RoundOf(o) = rd /\ RoundOf(p) = rd /\ NodeOf(o) = NodeOf(p)
                      => o = p
  /\ \A o \in Op : rows[o].state = "queued" => RoundOf(o) = rd
  /\ \A o \in Op : RoundOf(o) > rd => rows[o].state = "none"
  /\ \A o \in Op : rows[o].state # "none" =>
       \A k \in 1 .. o[3] : rows[<<o[1], o[2], k>>].state # "none"

\* What a row says of its effect.
RowTrue(r, e) ==
  /\ r.state \in {"none", "queued"} => ~r.started
  /\ ~r.started => e = "none"
  /\ r.started /\ r.ended => e \in Ended
  /\ r.started /\ r.state \notin Runnable => r.ended
  /\ r.state \in {"accepted", "succeeded"} => e = "succeeded"
  /\ r.state = "failed" => e = "failed"
  /\ r.state = "cancelled" /\ r.started => e = "cancelled"
  /\ (r.cancel # "no" \/ r.ended) /\ r.state \in Runnable => r.started

\* What an answer says of the effect.
AnswerTrue(a, e) ==
  /\ a # "none"
  /\ a \in {"accepted", "rejected", "succeeded", "uncollected"} => e = "succeeded"
  /\ a = "failed" => e = "failed"
  /\ a = "cancelled" => e = "cancelled"

\* What a worker's place says of the operation it works on.
WorkerTrue(w) ==
  LET o == job[w].op IN
  job[w].at # "idle" =>
    /\ o \in Op /\ op[o].state \notin {"none", "queued"}
    /\ job[w].at = "send" => op[o].started /\ sent[o] = 0
    /\ job[w].at = "stop" => op[o].started
    /\ job[w].at = "evaluate" => effect[o] = "succeeded"
    /\ job[w].at = "settle" => AnswerTrue(job[w].got, effect[o])

\* No two workers are about to send the same operation.
OneSender ==
  \A v, w \in Worker : job[v].at = "send" /\ job[w].at = "send" /\ job[v].op = job[w].op => v = w

RowsInv ==
  \A o \in Op :
    /\ RowTrue(op[o], effect[o])
    /\ lease[o] \in Worker => op[o].state \in Runnable \ {"queued"}
    /\ sent[o] \in {0, 1} /\ (sent[o] = 1 => op[o].started)

CurrentInv ==
  /\ Fits(op, node, round)
  /\ \A o \in Op : op[o].state = "queued" => rs = "active" /\ run \in {"active", "waiting"}
  /\ run = "cancelled" => ~Unresolved(op)

WorkersInv == (\A w \in Worker : WorkerTrue(w)) /\ OneSender

(***************************************************************************)
(* Attempt numbers                                                         *)
(***************************************************************************)
FirstAttempts(rd, n, m) == {<<rd, n, k>> : k \in 1 .. m}

\* There are m attempts up to number m.
LEMMA CountFirst ==
  ASSUME NEW rd, NEW n, NEW m \in Nat
  PROVE  IsFiniteSet(FirstAttempts(rd, n, m)) /\ Cardinality(FirstAttempts(rd, n, m)) = m
<1> DEFINE f == [k \in 1 .. m |-> <<rd, n, k>>]
<1>1. IsFiniteSet(1 .. m) /\ Cardinality(1 .. m) = m
  BY FS_Interval
<1>2. f \in Bijection(1 .. m, FirstAttempts(rd, n, m))
  BY DEF FirstAttempts, Bijection, Injection, Surjection, IsInjective
<1>3. ExistsBijection(1 .. m, FirstAttempts(rd, n, m))
  BY <1>2 DEF ExistsBijection
<1>4. QED
  BY <1>1, <1>3, FS_Bijection

\* The operation that reserve() derives from the number of attempts has no row yet, and
\* every attempt before it has one.
LEMMA NextIsFresh ==
  ASSUME NEW rows, NEW rd \in 1 .. MaxRound, NEW n \in Node,
         \A o \in Op : rows[o].state # "none" =>
           \A k \in 1 .. o[3] : rows[<<o[1], o[2], k>>].state # "none",
         NextOp(rows, rd, n) \in Op
  PROVE  /\ rows[NextOp(rows, rd, n)].state = "none"
         /\ \A k \in 1 .. NextOp(rows, rd, n)[3] - 1 : rows[<<rd, n, k>>].state # "none"
<1> DEFINE A == Attempts(rows, rd, n)
           c == Cardinality(A)
<1>1. MaxAttempt \in Nat /\ A \subseteq FirstAttempts(rd, n, MaxAttempt)
  BY PipelineAssumption DEF Attempts, FirstAttempts, Op, RoundOf, NodeOf
<1>2. IsFiniteSet(A) /\ c \in Nat
  BY <1>1, CountFirst, FS_Subset, FS_CardinalityType
<1>3. NextOp(rows, rd, n) = <<rd, n, c + 1>> /\ c + 1 \in 1 .. MaxAttempt
  BY <1>2 DEF NextOp, Op
<1>4. \A k \in 1 .. MaxAttempt : <<rd, n, k>> \in A => FirstAttempts(rd, n, k) \subseteq A
  <2>1. SUFFICES ASSUME NEW k \in 1 .. MaxAttempt, <<rd, n, k>> \in A, NEW j \in 1 .. k
                 PROVE  <<rd, n, j>> \in A
    BY DEF FirstAttempts
  <2>2. <<rd, n, k>> \in Op /\ rows[<<rd, n, k>>].state # "none" /\ <<rd, n, j>> \in Op
    BY <1>1, <2>1 DEF Attempts, Op
  <2>3. rows[<<rd, n, j>>].state # "none"
    BY <2>2
  <2>4. QED
    BY <2>2, <2>3 DEF Attempts, RoundOf, NodeOf
<1>5. <<rd, n, c + 1>> \notin A
  <2>1. ASSUME <<rd, n, c + 1>> \in A
        PROVE  FALSE
    <3>1. FirstAttempts(rd, n, c + 1) \subseteq A
      BY <1>3, <1>4, <2>1
    <3>2. c + 1 <= c
      BY <1>2, <3>1, CountFirst, FS_Subset
    <3>3. QED
      BY <1>2, <3>2
  <2>2. QED
    BY <2>1
<1>6. ASSUME NEW k \in 1 .. c
      PROVE  <<rd, n, k>> \in A
  <2>1. ASSUME <<rd, n, k>> \notin A
        PROVE  FALSE
    <3>1. A \subseteq FirstAttempts(rd, n, k - 1)
      <4>1. SUFFICES ASSUME NEW a \in A
                     PROVE  a \in FirstAttempts(rd, n, k - 1)
        OBVIOUS
      <4>2. PICK j \in 1 .. MaxAttempt : a = <<rd, n, j>>
        BY <1>1, <4>1 DEF FirstAttempts
      <4>3. ~(k <= j)
        BY <1>4, <2>1, <4>1, <4>2 DEF FirstAttempts
      <4>4. QED
        BY <1>2, <4>2, <4>3 DEF FirstAttempts
    <3>2. k - 1 \in Nat /\ c <= k - 1
      BY <1>2, <3>1, CountFirst, FS_Subset
    <3>3. QED
      BY <1>2, <3>2
  <2>2. QED
    BY <2>1
<1>7. <<rd, n, c + 1>> \in Op
  BY <1>3
<1>8. rows[<<rd, n, c + 1>>].state = "none"
  BY <1>5, <1>7 DEF Attempts, RoundOf, NodeOf
<1>9. \A k \in 1 .. c : rows[<<rd, n, k>>].state # "none"
  BY <1>6 DEF Attempts
<1>10. QED
  BY <1>2, <1>3, <1>8, <1>9

(***************************************************************************)
(* Types, and one pass of the coordinator                                  *)
(***************************************************************************)
RunStates   == {"active", "waiting", "cancelling", "cancelled", "completed"}
RoundStates == {"active", "awaiting_new_subject", "completed", "cancelled"}
NodeType == [life : {"pending", "active", "completed", "failed", "cancelled"},
             runtime : {"none", "queued", "running", "unknown", "cancelling"} \cup Ended]
RowType  == [state : {"none"} \cup Runnable \cup Terminal, started : BOOLEAN, ended : BOOLEAN,
             claimed : BOOLEAN, cancel : {"no", "asked", "sent"}, receipt : Receipt]
JobType  == [at : {"idle", "claimed", "send", "cancel", "stop", "look", "evaluate", "settle"},
             op : Op \cup {NoWorker}, got : Answer]

TypesInv ==
  /\ run \in RunStates /\ round \in 1 .. MaxRound /\ rs \in RoundStates /\ moved \in BOOLEAN
  /\ node \in [Node -> NodeType]
  /\ op \in [Op -> RowType]
  /\ lease \in [Op -> Worker \cup {NoWorker}]
  /\ job \in [Worker -> JobType]
  /\ effect \in [Op -> {"none", "running"} \cup Ended]
  /\ sent \in [Op -> 0 .. 2]
  /\ faults \in 0 .. Faults

\* An operation is its round, its node and its attempt.
LEMMA OpParts ==
  ASSUME NEW o \in Op
  PROVE  /\ o = <<o[1], o[2], o[3]>> /\ RoundOf(o) = o[1] /\ NodeOf(o) = o[2]
         /\ o[1] \in 1 .. MaxRound /\ o[2] \in Node /\ o[3] \in 1 .. MaxAttempt
  BY DEF Op, RoundOf, NodeOf

\* A new row and a new node have their types.
LEMMA NewTypes == Queued \in RowType /\ NoRow \in RowType /\ NewNode \in NodeType
  BY DEF Queued, NoRow, NewNode, RowType, NodeType, Runnable, Receipt

\* The rows that are there and that may still change are of the round's active nodes.
Fitting(rn, rd, st, nd, rows) ==
  /\ rn \in RunStates /\ rd \in 1 .. MaxRound /\ st \in RoundStates
  /\ nd \in [Node -> NodeType] /\ rows \in [Op -> RowType]
  /\ Fits(rows, nd, rd)
  /\ \A o \in Op : rows[o].state = "queued" => st = "active" /\ rn \in {"active", "waiting"}

\* The coordinator only adds queued rows, of nodes that had none that may still change.
LEMMA AdvanceKeeps ==
  ASSUME NEW rn, NEW rd, NEW st, NEW nd, NEW rows,
         Fitting(rn, rd, st, nd, rows), AdvanceWithinTransaction(rn, rd, st, nd, rows)
  PROVE  /\ Fitting(run, round, rs, node, op)'
         /\ \A o \in Op : op'[o] = rows[o] \/ (rows[o].state = "none" /\ op'[o] = Queued)
         /\ run' = "cancelled" => rn = "cancelled" /\ op' = rows
<1>1. CASE st # "active" \/ rn \notin {"active", "waiting"}
  <2>1. run' = rn /\ rs' = st /\ node' = nd /\ op' = rows /\ round' = rd
    BY <1>1 DEF AdvanceWithinTransaction
  <2>2. QED
    BY <2>1 DEF Fitting
<1>2. CASE st = "active" /\ rn \in {"active", "waiting"}
  <2>1. PICK S \in Plans(rows, rd, nd) :
          /\ node' = [n \in Node |-> IF n \in S THEN [life |-> "active", runtime |-> "queued"] ELSE nd[n]]
          /\ op' = [o \in Op |-> IF \E n \in S : o = NextOp(rows, rd, n) THEN Queued ELSE rows[o]]
          /\ IF \A n \in Node : nd[n].life = "completed"
             THEN IF "await" \in Env THEN run' = "waiting" /\ rs' = "awaiting_new_subject"
                                     ELSE run' = "completed" /\ rs' = "completed"
             ELSE run' = rn /\ rs' = st
    BY <1>2 DEF AdvanceWithinTransaction
  <2>2. round' = rd /\ rd \in 1 .. MaxRound /\ rd \in Nat
    BY <1>2 DEF AdvanceWithinTransaction, Fitting
  <2>3. S \subseteq Node /\ \A n \in S : nd[n].life = "pending"
    BY DEF Plans, Ready, NewNode
  <2> DEFINE New(o) == \E n \in S : o = NextOp(rows, rd, n)
  <2>4. ASSUME NEW o \in Op, New(o)
        PROVE  /\ rows[o].state = "none" /\ RoundOf(o) = rd /\ NodeOf(o) \in S
               /\ o = NextOp(rows, rd, NodeOf(o))
               /\ \A k \in 1 .. o[3] : k # o[3] => rows[<<o[1], o[2], k>>].state # "none"
    <3>1. PICK n \in S : o = NextOp(rows, rd, n)
      BY <2>4
    <3>2. o[1] = rd /\ o[2] = n /\ o[3] \in 1 .. MaxAttempt
      BY <3>1, OpParts DEF NextOp
    <3>3. /\ rows[o].state = "none"
          /\ \A k \in 1 .. o[3] - 1 : rows[<<rd, n, k>>].state # "none"
      BY <2>2, <2>3, <3>1, NextIsFresh DEF Fitting, Fits
    <3>4. QED
      BY <3>1, <3>2, <3>3, PipelineAssumption DEF RoundOf, NodeOf
  <2>5. ASSUME NEW o \in Op
        PROVE  op'[o] = IF New(o) THEN Queued ELSE rows[o]
    BY <2>1
  <2>6. Queued.state = "queued"
    BY DEF Queued, NoRow
  <2>7. node' \in [Node -> NodeType] /\ op' \in [Op -> RowType]
    BY <2>1, NewTypes DEF Fitting, NodeType
  <2>8. ASSUME NEW o \in Op, op'[o].state \in Runnable, RoundOf(o) = rd
        PROVE  node'[NodeOf(o)].life = "active"
    <3>1. NodeOf(o) \in Node
      BY OpParts
    <3>2. CASE New(o)
      BY <2>1, <2>4, <3>1, <3>2
    <3>3. CASE ~New(o)
      BY <2>1, <2>5, <2>8, <3>1, <3>3 DEF Fitting, Fits
    <3>4. QED
      BY <3>2, <3>3
  <2>9. ASSUME NEW o \in Op, NEW p \in Op, op'[o].state \in Runnable, op'[p].state \in Runnable,
               RoundOf(o) = rd, RoundOf(p) = rd, NodeOf(o) = NodeOf(p)
        PROVE  o = p
    <3>1. CASE New(o) /\ New(p)
      BY <2>4, <2>9, <3>1
    <3>2. CASE ~New(o) /\ ~New(p)
      BY <2>5, <2>9, <3>2 DEF Fitting, Fits
    <3>3. ASSUME NEW a \in Op, NEW b \in Op, New(a), ~New(b), op'[b].state \in Runnable,
                 RoundOf(b) = rd, NodeOf(a) = NodeOf(b)
          PROVE  FALSE
      <4>1. nd[NodeOf(b)].life = "active"
        BY <2>5, <3>3 DEF Fitting, Fits
      <4>2. nd[NodeOf(a)].life = "pending"
        BY <2>3, <2>4, <3>3
      <4>3. QED
        BY <3>3, <4>1, <4>2
    <3>4. QED
      BY <2>9, <3>1, <3>2, <3>3
  <2>10. ASSUME NEW o \in Op
         PROVE  /\ op'[o].state = "queued" => RoundOf(o) = rd
                /\ RoundOf(o) > rd => op'[o].state = "none"
    <3>1. RoundOf(o) \in Nat
      BY OpParts
    <3>2. CASE New(o)
      BY <2>2, <2>4, <3>1, <3>2
    <3>3. CASE ~New(o)
      BY <2>5, <3>3 DEF Fitting, Fits
    <3>4. QED
      BY <3>2, <3>3
  <2>11. ASSUME NEW o \in Op, op'[o].state # "none", NEW k \in 1 .. o[3]
         PROVE  op'[<<o[1], o[2], k>>].state # "none"
    <3>1. <<o[1], o[2], k>> \in Op
      BY OpParts, PipelineAssumption DEF Op
    <3>2. rows[<<o[1], o[2], k>>].state # "none" => op'[<<o[1], o[2], k>>].state # "none"
      BY <2>5, <2>6, <3>1
    <3>3. CASE New(o)
      <4>1. CASE k = o[3]
        BY <2>5, <2>6, <3>3, <4>1, OpParts
      <4>2. CASE k # o[3]
        BY <2>4, <3>2, <3>3, <4>2
      <4>3. QED
        BY <4>1, <4>2
    <3>4. CASE ~New(o)
      BY <2>5, <2>11, <3>2, <3>4 DEF Fitting, Fits
    <3>5. QED
      BY <3>3, <3>4
  <2>12. Fits(op', node', round')
    BY <2>2, <2>8, <2>9, <2>10, <2>11 DEF Fits
  <2>13. ASSUME NEW o \in Op, op'[o].state = "queued"
         PROVE  rs' = "active" /\ run' \in {"active", "waiting"}
    <3>1. node'[NodeOf(o)].life = "active" /\ NodeOf(o) \in Node
      BY <2>8, <2>10, <2>13, OpParts DEF Runnable
    <3>2. nd[NodeOf(o)].life # "completed"
      BY <2>1, <2>3, <3>1
    <3>3. QED
      BY <1>2, <2>1, <3>1, <3>2
  <2>14. /\ run' \in RunStates /\ rs' \in RoundStates /\ run' # "cancelled"
    BY <1>2, <2>1 DEF RunStates, RoundStates
  <2>15. Fitting(run, round, rs, node, op)'
    BY <2>2, <2>7, <2>12, <2>13, <2>14 DEF Fitting
  <2>16. QED
    BY <2>4, <2>5, <2>14, <2>15
<1>3. QED
  BY <1>1, <1>2

\* The inductive invariant.
RunInv == TypesInv /\ RowsInv /\ CurrentInv /\ WorkersInv

(***************************************************************************)
(* What steps have in common                                               *)
(***************************************************************************)
\* A state that ends an operation is not one it can leave.
LEMMA StatesApart == Runnable \cap Terminal = {} /\ "none" \notin Runnable \cup Terminal
  BY DEF Runnable, Terminal

\* A row whose effect may still change says nothing yet of how it ended.
LEMMA OpenEffect ==
  ASSUME NEW r, NEW e, NEW e2, RowTrue(r, e), r.started, e \notin Ended
  PROVE  RowTrue(r, e2)
  BY DEF RowTrue, Ended, Runnable

\* Rows and effects move one way only.
Forward ==
  \A o \in Op :
    /\ op[o].state \notin {"none", "queued"} => op'[o].state \notin {"none", "queued"}
    /\ op[o].started => op'[o].started
    /\ effect[o] \in Ended => effect'[o] = effect[o]

\* A worker that does not move is not contradicted by what the others do.
LEMMA WorkerKept ==
  ASSUME Forward, NEW w \in Worker, WorkerTrue(w), job'[w] = job[w],
         job[w].at = "send" => sent'[job[w].op] = sent[job[w].op]
  PROVE  WorkerTrue(w)'
<1>1. CASE job[w].at = "idle"
  BY <1>1 DEF WorkerTrue
<1>2. CASE job[w].at # "idle"
  <2>1. job[w].op \in Op
    BY <1>2 DEF WorkerTrue
  <2>2. AnswerTrue(job[w].got, effect[job[w].op]) => AnswerTrue(job[w].got, effect'[job[w].op])
    BY <2>1 DEF AnswerTrue, Forward, Ended
  <2>3. QED
    BY <1>2, <2>1, <2>2 DEF WorkerTrue, Forward, Ended
<1>3. QED
  BY <1>1, <1>2

\* Only the dispatch mark makes a new sender.
LEMMA SendersKept ==
  ASSUME OneSender, \A w \in Worker : job'[w] = job[w] \/ job'[w].at # "send"
  PROVE  OneSender'
  BY DEF OneSender

\* A row that is replaced, and stays or becomes final, keeps the shape of the rows.
LEMMA RowFits ==
  ASSUME NEW rows \in [Op -> RowType], NEW nd, NEW rd \in 1 .. MaxRound, Fits(rows, nd, rd),
         NEW o \in Op, NEW r \in RowType, rows[o].state # "none", r.state \notin {"none", "queued"},
         r.state \in Runnable => rows[o].state \in Runnable
  PROVE  Fits([rows EXCEPT ![o] = r], nd, rd)
<1> DEFINE new == [rows EXCEPT ![o] = r]
<1>1. \A p \in Op : /\ new[p].state \in Runnable => rows[p].state \in Runnable
                    /\ new[p].state = "queued" => rows[p].state = "queued"
                    /\ new[p].state = "none" <=> rows[p].state = "none"
  OBVIOUS
<1>2. \A p \in Op : \A k \in 1 .. p[3] : <<p[1], p[2], k>> \in Op
  BY OpParts, PipelineAssumption DEF Op
<1>3. QED
  BY <1>1, <1>2 DEF Fits

\* The current operation of a node and its node change together.
LEMMA NodeFits ==
  ASSUME NEW rows, NEW nd \in [Node -> NodeType], NEW rd, NEW old, Fits(old, nd, rd),
         Fits(rows, nd, rd), NEW o \in Op, RoundOf(o) = rd, old[o].state \in Runnable,
         \A p \in Op : p # o => rows[p] = old[p],
         NEW x \in NodeType, rows[o].state \in Runnable => x.life = "active"
  PROVE  Fits(rows, [nd EXCEPT ![NodeOf(o)] = x], rd)
<1>1. NodeOf(o) \in Node
  BY OpParts
<1>2. \A p \in Op : p # o /\ RoundOf(p) = rd /\ rows[p].state \in Runnable => NodeOf(p) # NodeOf(o)
  BY DEF Fits
<1>3. \A p \in Op : NodeOf(p) \in Node
  BY OpParts
<1>4. \A p \in Op : rows[p].state \in Runnable /\ RoundOf(p) = rd
                      => [nd EXCEPT ![NodeOf(o)] = x][NodeOf(p)].life = "active"
  BY <1>1, <1>2, <1>3 DEF Fits
<1>5. QED
  BY <1>4 DEF Fits

\* The runtime of a node does not matter to its rows.
LEMMA LifeFits ==
  ASSUME NEW rows, NEW nd, NEW nd2, NEW rd, Fits(rows, nd, rd),
         \A n \in Node : nd2[n].life = nd[n].life
  PROVE  Fits(rows, nd2, rd)
  BY OpParts DEF Fits

\* When no row may change any more, any nodes fit.
LEMMA ResolvedFits ==
  ASSUME NEW rows, NEW nd, NEW nd2, NEW rd, Fits(rows, nd, rd), ~Unresolved(rows)
  PROVE  Fits(rows, nd2, rd) /\ \A o \in Op : rows[o].state # "queued"
  BY DEF Fits, Unresolved, Runnable

\* Rows that are true, with the new ones of a pass, are true.
LEMMA RowsAfter ==
  ASSUME RunInv, NEW rows, effect' = effect, sent' = sent,
         \A o \in Op : op'[o] = rows[o] \/ (rows[o].state = "none" /\ op'[o] = Queued),
         \A o \in Op : /\ RowTrue(rows[o], effect[o])
                       /\ rows[o].state = "none" => op[o].state = "none"
                       /\ lease'[o] \in Worker => lease[o] \in Worker /\ rows[o].state \in Runnable \ {"queued"}
                       /\ op[o].started => rows[o].started
  PROVE  RowsInv'
<1>1. SUFFICES ASSUME NEW o \in Op
               PROVE  /\ RowTrue(op'[o], effect'[o])
                      /\ lease'[o] \in Worker => op'[o].state \in Runnable \ {"queued"}
                      /\ sent'[o] \in {0, 1} /\ (sent'[o] = 1 => op'[o].started)
  BY DEF RowsInv
<1>2. /\ RowTrue(op[o], effect[o]) /\ sent[o] \in {0, 1} /\ (sent[o] = 1 => op[o].started)
      /\ lease[o] \in Worker => op[o].state \in Runnable \ {"queued"}
  BY DEF RunInv, RowsInv
<1>3. CASE op'[o] = rows[o]
  BY <1>2, <1>3
<1>4. CASE rows[o].state = "none" /\ op'[o] = Queued
  <2>1. op[o].state = "none" /\ ~op[o].started /\ effect[o] = "none" /\ lease'[o] \notin Worker
    BY <1>2, <1>4, StatesApart DEF RowTrue
  <2>2. Queued.state = "queued" /\ ~Queued.started /\ Queued.cancel = "no" /\ ~Queued.ended
    BY DEF Queued, NoRow
  <2>3. RowTrue(Queued, "none")
    BY <2>2 DEF RowTrue, Runnable
  <2>4. QED
    BY <1>2, <1>4, <2>1, <2>3
<1>5. QED
  BY <1>3, <1>4

(***************************************************************************)
(* Steps that leave the rows alone                                         *)
(***************************************************************************)
\* The rows, the run and its nodes as they were: the invariant is about the rest.
LEMMA SameRows ==
  ASSUME RunInv, UNCHANGED runVars, TypesInv',
         \A o \in Op : /\ effect'[o] # effect[o] => op[o].started /\ effect[o] \notin Ended
                       /\ lease'[o] \in Worker => lease[o] = lease'[o]
                       /\ sent'[o] \in {0, 1} /\ (sent'[o] = 1 => op[o].started)
  PROVE  RowsInv' /\ CurrentInv' /\ Forward
<1>1. op' = op /\ node' = node /\ round' = round /\ rs' = rs /\ run' = run
  BY DEF runVars
<1>2. \A o \in Op : RowTrue(op[o], effect'[o])
  <2>1. SUFFICES ASSUME NEW o \in Op, effect'[o] # effect[o]
                 PROVE  RowTrue(op[o], effect'[o])
    BY DEF RunInv, RowsInv
  <2>2. RowTrue(op[o], effect[o]) /\ op[o].started /\ effect[o] \notin Ended
    BY <2>1 DEF RunInv, RowsInv
  <2>3. QED
    BY <2>2, OpenEffect
<1>3. RowsInv'
  BY <1>1, <1>2 DEF RunInv, RowsInv
<1>4. CurrentInv'
  BY <1>1 DEF RunInv, CurrentInv, Unresolved
<1>5. Forward
  BY <1>1 DEF Forward
<1>6. QED
  BY <1>3, <1>4, <1>5

\* One worker moves, and is right about where it goes.
LEMMA OneMoves ==
  ASSUME RunInv, Forward, NEW w \in Worker, WorkerTrue(w)', job'[w].at # "send",
         \A v \in Worker : v # w =>
           /\ job'[v] = job[v]
           /\ job[v].at = "send" => sent'[job[v].op] = sent[job[v].op]
  PROVE  WorkersInv'
<1>1. OneSender'
  BY SendersKept DEF RunInv, WorkersInv
<1>2. \A v \in Worker : WorkerTrue(v)'
  BY WorkerKept DEF RunInv, WorkersInv
<1>3. QED
  BY <1>1, <1>2 DEF WorkersInv

\* What an executor or an evaluator answers is true of the effect.
LEMMA AnswersAreTrue ==
  ASSUME RunInv, NEW o \in Op, NEW a \in Answers(o)
  PROVE  a \in Answer /\ AnswerTrue(a, effect[o])
<1>1. effect[o] \in {"none", "running", "succeeded", "failed", "cancelled"}
  BY DEF RunInv, TypesInv, Ended
<1>2. CASE effect[o] = "none"
  BY <1>2 DEF Answers, Answer, AnswerTrue
<1>3. CASE effect[o] = "running"
  BY <1>3 DEF Answers, Answer, AnswerTrue
<1>4. CASE effect[o] = "succeeded"
  BY <1>4 DEF Answers, Answer, AnswerTrue, Ended
<1>5. CASE effect[o] \in {"failed", "cancelled"}
  BY <1>5 DEF Answers, Answer, AnswerTrue, Ended
<1>6. QED
  BY <1>1, <1>2, <1>3, <1>4, <1>5

\* A worker that goes idle forgets its operation.
LEMMA IdleWorker ==
  ASSUME RunInv, NEW w \in Worker, Leave(w)
  PROVE  /\ job' \in [Worker -> JobType] /\ WorkerTrue(w)' /\ job'[w].at # "send"
         /\ \A v \in Worker : v # w => job'[v] = job[v]
<1>1. Idle \in JobType /\ Idle.at = "idle"
  BY DEF Idle, JobType, Answer
<1>2. QED
  BY <1>1 DEF RunInv, TypesInv, Leave, WorkerTrue

\* A worker that was told something settles it.
LEMMA ToldWorker ==
  ASSUME RunInv, NEW w \in Worker, NEW a \in Answer, Told(w, a), job[w].at # "idle",
         op' = op, effect' = effect, AnswerTrue(a, effect[job[w].op])
  PROVE  /\ job' \in [Worker -> JobType] /\ WorkerTrue(w)' /\ job'[w].at # "send"
         /\ \A v \in Worker : v # w => job'[v] = job[v]
<1>1. job \in [Worker -> JobType] /\ WorkerTrue(w)
  BY DEF RunInv, TypesInv, WorkersInv
<1>2. /\ job' \in [Worker -> JobType] /\ job'[w].at = "settle" /\ job'[w].got = a
      /\ job'[w].op = job[w].op
      /\ \A v \in Worker : v # w => job'[v] = job[v]
  BY <1>1 DEF Told, JobType
<1>3. QED
  BY <1>1, <1>2 DEF WorkerTrue

\* A worker that goes on to look at its operation.
LEMMA LookingWorker ==
  ASSUME RunInv, NEW w \in Worker, Goto(w, "look"), job[w].at # "idle", op' = op
  PROVE  /\ job' \in [Worker -> JobType] /\ WorkerTrue(w)' /\ job'[w].at # "send"
         /\ \A v \in Worker : v # w => job'[v] = job[v]
<1>1. job \in [Worker -> JobType] /\ WorkerTrue(w)
  BY DEF RunInv, TypesInv, WorkersInv
<1>2. /\ job' \in [Worker -> JobType] /\ job'[w].at = "look" /\ job'[w].op = job[w].op
      /\ \A v \in Worker : v # w => job'[v] = job[v]
  BY <1>1 DEF Goto, JobType
<1>3. QED
  BY <1>1, <1>2 DEF WorkerTrue

\* Being refused, learning something, or giving up writes no row.
LEMMA ReadingSteps ==
  ASSUME RunInv, NEW w \in Worker,
         \/ DispatchRefused(w) \/ SubjectSuperseded(w) \/ Look(w) \/ Evaluate(w)
         \/ SettleRefused(w) \/ Crash(w)
  PROVE  RunInv'
<1>1. /\ UNCHANGED <<runVars, moved, lease, effect, sent>> /\ job[w] # Idle
      /\ faults' \in 0 .. Faults
  BY PipelineAssumption DEF DispatchRefused, SubjectSuperseded, Look, Evaluate, SettleRefused, Crash,
     outside, RunInv, TypesInv, Idle
<1>2. WorkerTrue(w) /\ op' = op /\ effect' = effect
  BY <1>1 DEF RunInv, WorkersInv, runVars
<1>3. AnswerTrue("unknown", effect[job[w].op]) /\ "unknown" \in Answer
  BY DEF AnswerTrue, Answer
<1>4. /\ job' \in [Worker -> JobType] /\ WorkerTrue(w)' /\ job'[w].at # "send"
      /\ \A v \in Worker : v # w => job'[v] = job[v]
  <2>1. CASE DispatchRefused(w)
    BY <1>2, <1>3, <2>1, IdleWorker, ToldWorker DEF DispatchRefused
  <2>2. CASE SubjectSuperseded(w)
    BY <1>2, <1>3, <2>2, ToldWorker DEF SubjectSuperseded
  <2>3. CASE Look(w)
    <3>1. PICK a \in Answers(job[w].op) : Told(w, a)
      BY <2>3 DEF Look
    <3>2. job[w].at # "idle" /\ job[w].op \in Op
      BY <1>2, <2>3 DEF Look, WorkerTrue
    <3>3. QED
      BY <1>2, <3>1, <3>2, AnswersAreTrue, ToldWorker
  <2>4. CASE Evaluate(w)
    <3>1. PICK a \in {"succeeded", "accepted", "rejected"} : Told(w, a)
      BY <2>4 DEF Evaluate
    <3>2. job[w].at # "idle" /\ effect[job[w].op] = "succeeded"
      BY <1>2, <2>4 DEF Evaluate, WorkerTrue
    <3>3. a \in Answer /\ AnswerTrue(a, effect[job[w].op])
      BY <3>2 DEF AnswerTrue, Answer, Ended
    <3>4. QED
      BY <1>2, <3>1, <3>2, <3>3, ToldWorker
  <2>5. CASE SettleRefused(w) \/ Crash(w)
    BY <2>5, IdleWorker DEF SettleRefused, Crash
  <2>6. QED
    BY <2>1, <2>2, <2>3, <2>4, <2>5
<1>5. TypesInv'
  BY <1>1, <1>4 DEF RunInv, TypesInv, runVars
<1>6. RowsInv' /\ CurrentInv' /\ Forward
  BY <1>1, <1>5, SameRows DEF RunInv, RowsInv
<1>7. WorkersInv'
  BY <1>1, <1>4, <1>6, OneMoves
<1>8. QED
  BY <1>5, <1>6, <1>7 DEF RunInv

\* A request or a cancellation that reaches the executor changes one effect that may
\* still change, of an operation whose dispatch is on record.
LEMMA CallingSteps ==
  ASSUME RunInv, NEW w \in Worker, Send(w) \/ Stop(w)
  PROVE  RunInv'
<1> DEFINE o == job[w].op
<1>1. /\ UNCHANGED <<runVars, outside, lease>> /\ Goto(w, "look") /\ job[w].at \in {"send", "stop"}
  BY DEF Send, Stop
<1>2. WorkerTrue(w) /\ op' = op /\ o \in Op /\ op[o].started
      /\ effect \in [Op -> {"none", "running"} \cup Ended]
      /\ RowTrue(op[o], effect[o])
  BY <1>1 DEF RunInv, TypesInv, RowsInv, WorkersInv, WorkerTrue, runVars
<1>3. PICK e \in {"none", "running"} \cup Ended :
        effect' = [effect EXCEPT ![o] = e] /\ (effect[o] \in Ended => e = effect[o])
  BY <1>2 DEF Send, Stop, Ended
<1>4. /\ job' \in [Worker -> JobType] /\ WorkerTrue(w)' /\ job'[w].at # "send"
      /\ \A v \in Worker : v # w => job'[v] = job[v]
  BY <1>1, <1>2, LookingWorker
<1>5. TypesInv'
  <2>1. sent \in [Op -> 0 .. 2]
    BY DEF RunInv, TypesInv
  <2>2. sent' \in [Op -> 0 .. 2]
    <3>1. CASE Stop(w)
      BY <2>1, <3>1 DEF Stop
    <3>2. CASE Send(w)
      <4>1. sent[o] \in 0 .. 2 /\ sent[o] < 2 /\ sent' = [sent EXCEPT ![o] = sent[o] + 1]
        BY <1>2, <2>1, <3>2 DEF Send
      <4>2. sent[o] + 1 \in 0 .. 2
        BY <4>1
      <4>3. QED
        BY <2>1, <4>1, <4>2
    <3>3. QED
      BY <3>1, <3>2
  <2>3. QED
    BY <1>1, <1>2, <1>3, <1>4, <2>2 DEF RunInv, TypesInv, runVars, outside
<1>6. /\ \A p \in Op : sent'[p] \in {0, 1} /\ (sent'[p] = 1 => op[p].started)
      /\ \A v \in Worker : v # w /\ job[v].at = "send" => sent'[job[v].op] = sent[job[v].op]
  <2>1. CASE Stop(w)
    BY <2>1 DEF Stop, RunInv, RowsInv
  <2>2. CASE Send(w)
    <3>1. job[w].at = "send" /\ sent[o] = 0 /\ sent' = [sent EXCEPT ![o] = @ + 1]
      BY <1>2, <2>2 DEF Send, WorkerTrue
    <3>2. \A v \in Worker : v # w /\ job[v].at = "send" => job[v].op # o
      BY <3>1 DEF RunInv, WorkersInv, OneSender
    <3>3. \A p \in Op : sent'[p] = IF p = o /\ o \in DOMAIN sent THEN 1 ELSE sent[p]
      BY <3>1
    <3>4. \A v \in Worker : v # w /\ job[v].at = "send" => job[v].op \in Op
      BY DEF RunInv, WorkersInv, WorkerTrue
    <3>5. QED
      BY <1>2, <3>2, <3>3, <3>4 DEF RunInv, RowsInv
  <2>3. QED
    BY <2>1, <2>2
<1>7. \A p \in Op : effect'[p] # effect[p] => op[p].started /\ effect[p] \notin Ended
  BY <1>2, <1>3
<1>8. RowsInv' /\ CurrentInv' /\ Forward
  BY <1>1, <1>5, <1>6, <1>7, SameRows
<1>9. WorkersInv'
  BY <1>4, <1>6, <1>8, OneMoves
<1>10. QED
  BY <1>5, <1>8, <1>9 DEF RunInv

\* What happens outside: requests arrive, effects end, leases run out, the subject moves.
LEMMA OutsideSteps ==
  ASSUME RunInv, MoveSubject \/ \E o \in Op : Arrive(o) \/ EndEffect(o) \/ Expire(o) \/ Overrun(o)
  PROVE  RunInv'
<1>1. UNCHANGED <<runVars, job, sent>> /\ moved' \in BOOLEAN
  BY DEF MoveSubject, Arrive, EndEffect, Expire, Overrun, outside, RunInv, TypesInv
<1>2. /\ effect' \in [Op -> {"none", "running"} \cup Ended]
      /\ \A p \in Op : effect'[p] # effect[p] =>
           effect[p] = "running" \/ (effect[p] = "none" /\ sent[p] > 0)
  BY DEF MoveSubject, Arrive, EndEffect, Expire, Overrun, RunInv, TypesInv, Ended
<1>3. /\ lease' \in [Op -> Worker \cup {NoWorker}]
      /\ \A p \in Op : lease'[p] \in Worker => lease[p] = lease'[p]
  BY PipelineAssumption DEF MoveSubject, Arrive, EndEffect, Expire, Overrun, RunInv, TypesInv
<1>4. faults' \in 0 .. Faults
  BY PipelineAssumption DEF MoveSubject, Arrive, EndEffect, Expire, Overrun, outside, RunInv, TypesInv
<1>5. TypesInv'
  BY <1>1, <1>2, <1>3, <1>4 DEF RunInv, TypesInv, runVars
<1>6. \A p \in Op : effect'[p] # effect[p] => op[p].started /\ effect[p] \notin Ended
  <2>1. ASSUME NEW p \in Op, sent[p] > 0
        PROVE  op[p].started
    BY <2>1 DEF RunInv, RowsInv
  <2>2. QED
    BY <1>2, <2>1 DEF RunInv, RowsInv, RowTrue, Ended
<1>7. RowsInv' /\ CurrentInv' /\ Forward
  BY <1>1, <1>3, <1>5, <1>6, SameRows DEF RunInv, RowsInv
<1>8. WorkersInv'
  <2>1. \A v \in Worker : WorkerTrue(v)'
    BY <1>1, <1>7, WorkerKept DEF RunInv, WorkersInv
  <2>2. OneSender'
    BY <1>1, SendersKept DEF RunInv, WorkersInv
  <2>3. QED
    BY <2>1, <2>2 DEF WorkersInv
<1>9. QED
  BY <1>5, <1>7, <1>8 DEF RunInv

(***************************************************************************)
(* Steps that change one row                                               *)
(***************************************************************************)
\* One row is replaced, by the worker that leases it.
LEMMA OneRow ==
  ASSUME RunInv, NEW o \in Op, NEW r \in RowType, Row(o, r),
         UNCHANGED <<run, round, rs, node, moved, effect, sent>>,
         faults' = faults, job' \in [Worker -> JobType],
         lease' \in [Op -> Worker \cup {NoWorker}],
         \A p \in Op : p # o => lease'[p] = lease[p],
         op[o].state \in Runnable, r.state \in Runnable \ {"queued"},
         RowTrue(r, effect[o]), op[o].started => r.started
  PROVE  TypesInv' /\ RowsInv' /\ CurrentInv' /\ Forward
<1>1. /\ op \in [Op -> RowType] /\ op' = [op EXCEPT ![o] = r] /\ op[o].state # "none"
      /\ r.state \notin {"none", "queued"}
  BY StatesApart DEF RunInv, TypesInv, Row
<1>2. TypesInv'
  BY <1>1 DEF RunInv, TypesInv
<1>3. RowsInv'
  BY <1>1 DEF RunInv, RowsInv
<1>4. Fits(op', node, round)
  BY <1>1, RowFits DEF RunInv, TypesInv, CurrentInv
<1>5. CurrentInv'
  <2>1. run # "cancelled"
    BY DEF RunInv, CurrentInv, Unresolved
  <2>2. \A p \in Op : op'[p].state = "queued" => op[p].state = "queued"
    BY <1>1
  <2>3. QED
    BY <1>4, <2>1, <2>2 DEF RunInv, CurrentInv
<1>6. Forward
  BY <1>1 DEF Forward
<1>7. QED
  BY <1>2, <1>3, <1>5, <1>6

\* A claim starts the dispatch of a queued row, and otherwise only observes.
LEMMA ClaimStep ==
  ASSUME RunInv, NEW w \in Worker, NEW o \in Op, Claim(w, o)
  PROVE  RunInv'
<1> DEFINE s == IF Mode(o) = "claimed" THEN "dispatching"
                ELSE IF Mode(o) = "look" /\ op[o].state = "dispatching" THEN "unknown"
                ELSE op[o].state
           r == [op[o] EXCEPT !.claimed = TRUE, !.state = s]
<1>1. /\ op[o] \in RowType /\ RowTrue(op[o], effect[o]) /\ job \in [Worker -> JobType]
      /\ lease \in [Op -> Worker \cup {NoWorker}]
  BY DEF RunInv, TypesInv, RowsInv
<1>2. /\ job[w] = Idle /\ op[o].state \in Runnable /\ lease[o] = NoWorker /\ Row(o, r)
      /\ lease' = [lease EXCEPT ![o] = w]
      /\ job' = [job EXCEPT ![w] = [at |-> Mode(o), op |-> o, got |-> "none"]]
      /\ UNCHANGED <<run, round, rs, node, moved, effect, sent>> /\ faults' = faults
  BY DEF Claim, outside
<1>3. /\ Mode(o) \in {"cancel", "claimed", "evaluate", "look"}
      /\ Mode(o) = "evaluate" => op[o].state = "succeeded"
      /\ Mode(o) = "cancel" => op[o].cancel # "no"
      /\ op[o].state = "queued" => Mode(o) \in {"cancel", "claimed"}
  BY DEF Mode
<1>4. /\ s \in Runnable \ {"queued"}
      /\ s # op[o].state => s \in {"dispatching", "unknown"}
      /\ Mode(o) = "evaluate" => s = "succeeded" /\ effect[o] = "succeeded"
  BY <1>1, <1>2, <1>3 DEF RowTrue, Runnable
<1>5. r \in RowType /\ r.state = s /\ r.started = op[o].started /\ r.ended = op[o].ended /\ r.cancel = op[o].cancel
  BY <1>1, <1>4 DEF RowType
<1>6. RowTrue(r, effect[o])
  BY <1>1, <1>2, <1>4, <1>5 DEF RowTrue
<1>7. /\ job' \in [Worker -> JobType]
      /\ lease' \in [Op -> Worker \cup {NoWorker}] /\ \A p \in Op : p # o => lease'[p] = lease[p]
  BY <1>1, <1>2, <1>3 DEF JobType, Answer
<1>8. TypesInv' /\ RowsInv' /\ CurrentInv' /\ Forward
  <2> HIDE DEF r, s
  <2>1. r.state \in Runnable \ {"queued"} /\ (op[o].started => r.started)
    BY <1>4, <1>5
  <2>2. QED
    BY <1>2, <1>5, <1>6, <1>7, <2>1, OneRow
<1>9. WorkerTrue(w)'
  <2>1. job'[w].at = Mode(o) /\ job'[w].op = o
    BY <1>1, <1>2
  <2>2. op'[o] = r /\ effect' = effect
    BY <1>2 DEF Row, RunInv, TypesInv
  <2>3. op'[o].state \notin {"none", "queued"}
    BY <1>4, <1>5, <2>2, StatesApart
  <2>4. QED
    BY <1>3, <1>4, <2>1, <2>2, <2>3 DEF WorkerTrue
<1>10. WorkersInv'
  <2>1. job'[w].at # "send"
    BY <1>1, <1>2, <1>3
  <2>2. \A v \in Worker : v # w => job'[v] = job[v] /\ (job[v].at = "send" => sent'[job[v].op] = sent[job[v].op])
    BY <1>1, <1>2
  <2>3. QED
    BY <1>8, <1>9, <2>1, <2>2, OneMoves
<1>11. QED
  BY <1>8, <1>10 DEF RunInv

\* The dispatch is marked once, by the only worker that may send it.
LEMMA BeginDispatchStep ==
  ASSUME RunInv, NEW w \in Worker, BeginDispatch(w)
  PROVE  RunInv'
<1> DEFINE o == job[w].op
           r == [op[o] EXCEPT !.started = TRUE]
<1>1. /\ job[w].at = "claimed" /\ Owns(w) /\ op[o].state = "dispatching" /\ ~op[o].started
      /\ Row(o, r) /\ Goto(w, "send")
      /\ UNCHANGED <<run, round, rs, node, moved, lease, effect, sent>> /\ faults' = faults
  BY DEF BeginDispatch, MayDispatch, outside
<1>2. /\ o \in Op /\ op[o] \in RowType /\ RowTrue(op[o], effect[o]) /\ job \in [Worker -> JobType]
      /\ lease \in [Op -> Worker \cup {NoWorker}] /\ op \in [Op -> RowType]
      /\ sent[o] \in {0, 1} /\ (sent[o] = 1 => op[o].started)
  BY <1>1 DEF Owns, RunInv, TypesInv, RowsInv
<1>3. r \in RowType /\ r.state = "dispatching" /\ r.started /\ r.ended = op[o].ended
  BY <1>1, <1>2 DEF RowType
<1>4. "dispatching" \in Runnable \ {"queued"}
  BY DEF Runnable
<1>5. RowTrue(r, effect[o])
  BY <1>1, <1>2, <1>3, <1>4 DEF RowTrue
<1>6. /\ job' \in [Worker -> JobType] /\ job'[w].at = "send" /\ job'[w].op = o
      /\ \A v \in Worker : v # w => job'[v] = job[v]
  BY <1>1, <1>2 DEF Goto, JobType
<1>7. TypesInv' /\ RowsInv' /\ CurrentInv' /\ Forward
  BY <1>1, <1>2, <1>3, <1>4, <1>5, <1>6, OneRow
<1>8. \A v \in Worker : v # w /\ job[v].at = "send" => job[v].op # o
  BY <1>1 DEF RunInv, WorkersInv, WorkerTrue
<1>9. OneSender'
  BY <1>6, <1>8 DEF OneSender, RunInv, WorkersInv
<1>10. ASSUME NEW v \in Worker
       PROVE  WorkerTrue(v)'
  <2>1. CASE v = w
    <3>1. op'[o] = r /\ sent'[o] = 0
      BY <1>1, <1>2 DEF Row
    <3>2. QED
      BY <1>2, <1>3, <1>6, <2>1, <3>1 DEF WorkerTrue
  <2>2. CASE v # w
    BY <1>1, <1>6, <1>7, <2>2, WorkerKept DEF RunInv, WorkersInv
  <2>3. QED
    BY <2>1, <2>2
<1>11. QED
  BY <1>7, <1>9, <1>10 DEF RunInv, WorkersInv

\* A cancellation is passed on only for an operation whose dispatch is on record.
LEMMA BeginCancelStep ==
  ASSUME RunInv, NEW w \in Worker, BeginCancel(w)
  PROVE  RunInv'
<1> DEFINE o == job[w].op
           r == [op[o] EXCEPT !.cancel = "sent"]
<1>1. CASE ~MayCancel(w)
  <2>1. Leave(w) /\ UNCHANGED <<runVars, outside, lease, effect, sent>>
    BY <1>1 DEF BeginCancel, runVars
  <2>2. /\ job' \in [Worker -> JobType] /\ WorkerTrue(w)' /\ job'[w].at # "send"
        /\ \A v \in Worker : v # w => job'[v] = job[v]
    BY <2>1, IdleWorker
  <2>3. TypesInv'
    BY <2>1, <2>2 DEF RunInv, TypesInv, runVars, outside
  <2>4. RowsInv' /\ CurrentInv' /\ Forward
    BY <2>1, <2>3, SameRows DEF RunInv, RowsInv
  <2>5. QED
    BY <2>1, <2>2, <2>3, <2>4, OneMoves DEF RunInv
<1>2. CASE MayCancel(w)
  <2>1. /\ job[w].at = "cancel" /\ o \in Op /\ lease[o] = w /\ op[o].cancel = "asked"
        /\ Row(o, r) /\ Goto(w, "stop")
        /\ UNCHANGED <<run, round, rs, node, moved, lease, effect, sent>> /\ faults' = faults
    BY <1>2 DEF BeginCancel, MayCancel, Owns, outside
  <2>2. /\ op[o] \in RowType /\ RowTrue(op[o], effect[o]) /\ job \in [Worker -> JobType]
        /\ lease \in [Op -> Worker \cup {NoWorker}] /\ op \in [Op -> RowType]
        /\ op[o].state \in Runnable \ {"queued"}
    BY <2>1 DEF RunInv, TypesInv, RowsInv
  <2>3. op[o].started
    BY <2>1, <2>2 DEF RowTrue
  <2>4. /\ r \in RowType /\ r.state = op[o].state /\ r.started = op[o].started
        /\ r.ended = op[o].ended
    BY <2>2 DEF RowType
  <2>5. RowTrue(r, effect[o])
    BY <2>2, <2>3, <2>4 DEF RowTrue
  <2>6. /\ job' \in [Worker -> JobType] /\ job'[w].at = "stop" /\ job'[w].op = o
        /\ \A v \in Worker : v # w => job'[v] = job[v]
    BY <2>1, <2>2 DEF Goto, JobType
  <2>7. TypesInv' /\ RowsInv' /\ CurrentInv' /\ Forward
    BY <2>1, <2>2, <2>4, <2>5, <2>6, OneRow
  <2>8. WorkerTrue(w)'
    <3>1. op'[o] = r
      BY <2>1, <2>2 DEF Row
    <3>2. r.state \notin {"none", "queued"}
      BY <2>2, <2>4, StatesApart
    <3>3. QED
      BY <2>1, <2>3, <2>4, <2>6, <3>1, <3>2 DEF WorkerTrue
  <2>9. WorkersInv'
    BY <2>1, <2>6, <2>7, <2>8, OneMoves
  <2>10. QED
    BY <2>7, <2>9 DEF RunInv
<1>3. QED
  BY <1>1, <1>2

(***************************************************************************)
(* Settlement, and the commands                                            *)
(***************************************************************************)
\* What settle() writes of a true answer is true.
LEMMA ObservedIsTrue ==
  ASSUME NEW o \in Op, op[o] \in RowType, NEW e, RowTrue(op[o], e),
         op[o].state \in Runnable \ {"queued"}, NEW a \in Answer, AnswerTrue(a, e)
  PROVE  /\ Observed(o, a) \in RowType /\ RowTrue(Observed(o, a), e)
         /\ Observed(o, a).state \notin {"none", "queued"}
         /\ op[o].started => Observed(o, a).started
         /\ IsCurrent(o) /\ Observed(o, a).state \in Runnable =>
              a \notin {"accepted", "rejected", "failed", "cancelled"}
<1> DEFINE s == IF IsCurrent(o) THEN IF a \in {"accepted", "rejected"} THEN a ELSE ReceiptOf(a)
                ELSE IF ~(op[o].ended \/ ConfirmsEnd(a)) /\ ReceiptOf(a) \in {"pending", "unknown"}
                     THEN ReceiptOf(a) ELSE "superseded"
           r == Observed(o, a)
<1>1. /\ ReceiptOf(a) \in Receipt \ {"none"} /\ ConfirmsEnd(a) \in BOOLEAN
      /\ ReceiptOf(a) \in Ended => ConfirmsEnd(a)
      /\ ConfirmsEnd(a) => e \in Ended
      /\ ReceiptOf(a) = "succeeded" => e = "succeeded"
      /\ ReceiptOf(a) = "failed" => a = "failed" /\ e = "failed"
      /\ ReceiptOf(a) = "cancelled" => a = "cancelled" /\ e = "cancelled"
      /\ a \in {"accepted", "rejected"} => e = "succeeded" /\ ConfirmsEnd(a)
  BY DEF AnswerTrue, Answer, ReceiptOf, ConfirmsEnd, Receipt, Ended
<1>2. /\ s \in (Runnable \cup Terminal) \ {"queued"}
      /\ s \in Terminal => op[o].ended \/ ConfirmsEnd(a)
  BY <1>1 DEF Receipt, Ended, Runnable, Terminal
<1>3. /\ r \in RowType /\ r.state = s /\ r.ended = (op[o].ended \/ ConfirmsEnd(a))
      /\ r.started = op[o].started /\ r.cancel = op[o].cancel
  BY <1>1, <1>2 DEF Observed, RowType
<1>4. RowTrue(r, e)
  <2>1. /\ ~r.started => e = "none"
        /\ r.started /\ r.ended => e \in Ended
        /\ (r.cancel # "no" \/ r.ended) => r.started
    BY <1>1, <1>3 DEF RowTrue, Ended
  <2>2. r.state \notin Runnable => r.ended
    BY <1>2, <1>3
  <2>3. /\ r.state \in {"accepted", "succeeded"} => e = "succeeded"
        /\ r.state = "failed" => e = "failed"
        /\ r.state = "cancelled" => e = "cancelled"
    BY <1>1, <1>3 DEF Receipt, Ended
  <2>4. r.state \notin {"none", "queued"}
    BY <1>2, <1>3, StatesApart
  <2>5. QED
    BY <2>1, <2>2, <2>3, <2>4 DEF RowTrue
<1>5. r.state \notin {"none", "queued"}
  BY <1>2, <1>3, StatesApart
<1>6. IsCurrent(o) /\ r.state \in Runnable => a \notin {"accepted", "rejected", "failed", "cancelled"}
  BY <1>3 DEF ReceiptOf, Runnable
<1>7. QED
  BY <1>3, <1>4, <1>5, <1>6

\* Rows forward, and then a pass that only adds rows: forward.
LEMMA ForwardAfter ==
  ASSUME RunInv, NEW rows, effect' = effect,
         \A o \in Op : op'[o] = rows[o] \/ (rows[o].state = "none" /\ op'[o] = Queued),
         \A o \in Op : /\ op[o].state \notin {"none", "queued"} => rows[o].state \notin {"none", "queued"}
                       /\ op[o].started => rows[o].started /\ rows[o].state # "none"
  PROVE  Forward
  BY DEF Forward

\* Types and the agreement of rows and nodes, from what the coordinator is given.
LEMMA AfterPass ==
  ASSUME RunInv, Fitting(run, round, rs, node, op)', run' = "cancelled" => ~Unresolved(op'),
         moved' \in BOOLEAN, lease' \in [Op -> Worker \cup {NoWorker}], job' \in [Worker -> JobType],
         UNCHANGED <<effect, sent, faults>>
  PROVE  TypesInv' /\ CurrentInv'
  BY DEF RunInv, TypesInv, CurrentInv, Fitting, Unresolved

\* A run that is cancelled has no row that may still change, so the coordinator is not
\* asked to pass over one.
LEMMA NotCancelled ==
  ASSUME RunInv, NEW o \in Op, op[o].state \in Runnable
  PROVE  run # "cancelled"
  BY DEF RunInv, CurrentInv, Unresolved

\* The nodes of a run that ends have their types.
LEMMA CancelledNodesType ==
  ASSUME NEW nd \in [Node -> NodeType]
  PROVE  CancelledNodes(nd) \in [Node -> NodeType]
  BY DEF CancelledNodes, NodeType, Ended

\* A settlement writes one true row, projects it and lets the coordinator pass.
LEMMA SettleStep ==
  ASSUME RunInv, NEW w \in Worker, Settle(w)
  PROVE  RunInv'
<1> DEFINE o == job[w].op
           a == job[w].got
           rows == [op EXCEPT ![o] = Observed(o, a)]
<1>1. /\ job[w].at = "settle" /\ o \in Op /\ lease[o] = w
      /\ lease' = [lease EXCEPT ![o] = NoWorker] /\ Leave(w)
      /\ UNCHANGED <<moved, effect, sent>> /\ faults' = faults
  BY DEF Settle, MaySettle, Owns, outside
<1>2. /\ op \in [Op -> RowType] /\ op[o] \in RowType /\ RowTrue(op[o], effect[o])
      /\ op[o].state \in Runnable \ {"queued"} /\ a \in Answer /\ AnswerTrue(a, effect[o])
      /\ lease \in [Op -> Worker \cup {NoWorker}] /\ node \in [Node -> NodeType]
      /\ NodeOf(o) \in Node /\ op[o].state # "none"
  BY <1>1, OpParts, StatesApart DEF RunInv, TypesInv, RowsInv, WorkersInv, WorkerTrue, JobType
<1>3. /\ Observed(o, a) \in RowType /\ RowTrue(Observed(o, a), effect[o])
      /\ Observed(o, a).state \notin {"none", "queued"}
      /\ op[o].started => Observed(o, a).started
      /\ IsCurrent(o) /\ Observed(o, a).state \in Runnable =>
           a \notin {"accepted", "rejected", "failed", "cancelled"}
  BY <1>1, <1>2, ObservedIsTrue
<1>4. /\ rows \in [Op -> RowType] /\ rows[o] = Observed(o, a)
      /\ \A p \in Op : p # o => rows[p] = op[p]
  BY <1>1, <1>2, <1>3
<1>5. Fits(rows, node, round)
  BY <1>2, <1>3, RowFits DEF RunInv, TypesInv, CurrentInv
<1>6. \A p \in Op : rows[p].state = "queued" => rs = "active" /\ run \in {"active", "waiting"}
  BY <1>3, <1>4 DEF RunInv, CurrentInv
<1>7. run # "cancelled"
  BY <1>1, <1>2, NotCancelled
<1>8. /\ Fitting(run, round, rs, node, op)'
      /\ \A p \in Op : op'[p] = rows[p] \/ (rows[p].state = "none" /\ op'[p] = Queued)
      /\ run' = "cancelled" => ~Unresolved(op')
  <2>1. CASE IsCurrent(o)
    <3> DEFINE x == [life |-> CASE a = "accepted" -> "completed"
                                [] a = "cancelled" -> "cancelled"
                                [] a \in {"failed", "rejected"} -> "failed"
                                [] OTHER -> "active",
                     runtime |-> RuntimeOf(a)]
    <3>1. AdvanceWithinTransaction(run, round, rs, Applied(o, a), rows)
      BY <2>1 DEF Settle
    <3>2. RoundOf(o) = round
      BY <2>1 DEF IsCurrent
    <3>3. x \in NodeType /\ (a \notin {"accepted", "rejected", "failed", "cancelled"} => x.life = "active")
      <4>1. RuntimeOf(a) \in {"none", "queued", "running", "unknown", "cancelling"} \cup Ended
        BY <1>2 DEF RuntimeOf, Answer, Ended
      <4>2. QED
        BY <4>1 DEF NodeType
    <3>4. Fits(rows, [node EXCEPT ![NodeOf(o)] = x], round)
      BY <1>1, <1>2, <1>3, <1>4, <1>5, <2>1, <3>2, <3>3, NodeFits DEF RunInv, CurrentInv
    <3>5. Applied(o, a) = [node EXCEPT ![NodeOf(o)] = x] /\ Applied(o, a) \in [Node -> NodeType]
      BY <1>2, <3>3 DEF Applied
    <3>6. Fitting(run, round, rs, Applied(o, a), rows)
      BY <1>4, <1>6, <3>4, <3>5 DEF Fitting, RunInv, TypesInv
    <3> HIDE DEF rows
    <3>7. QED
      BY <1>7, <3>1, <3>6, AdvanceKeeps
  <2>2. CASE ~IsCurrent(o) /\ ConfirmsEnd(a)
    <3> DEFINE h == Historical(o, a)
    <3>1. h \in [Node -> NodeType] /\ \A n \in Node : h[n].life = node[n].life
      <4>1. RuntimeOf(a) \in {"none", "queued", "running", "unknown", "cancelling"} \cup Ended
        BY <1>2 DEF RuntimeOf, Answer, Ended
      <4>2. QED
        BY <1>2, <4>1 DEF Historical, NodeType
    <3>2. Fits(rows, h, round)
      BY <1>5, <3>1, LifeFits
    <3>3. FinishOrAdvance(h, rows)
      BY <2>2 DEF Settle
    <3>4. CASE run = "cancelling" /\ ~Unresolved(rows)
      <4>1. /\ run' = "cancelled" /\ rs' = "cancelled" /\ round' = round
            /\ node' = CancelledNodes(h) /\ op' = rows
        BY <3>3, <3>4 DEF FinishOrAdvance
      <4>2. Fits(rows, CancelledNodes(h), round) /\ \A p \in Op : rows[p].state # "queued"
        BY <3>2, <3>4, ResolvedFits
      <4>3. node' \in [Node -> NodeType]
        BY <3>1, <4>1, CancelledNodesType
      <4>4. QED
        BY <1>4, <3>4, <4>1, <4>2, <4>3 DEF Fitting, RunInv, TypesInv, RunStates, RoundStates
    <3>5. CASE ~(run = "cancelling" /\ ~Unresolved(rows))
      <4>1. AdvanceWithinTransaction(run, round, rs, h, rows)
        BY <3>3, <3>5 DEF FinishOrAdvance
      <4>2. Fitting(run, round, rs, h, rows)
        BY <1>4, <1>6, <3>1, <3>2 DEF Fitting, RunInv, TypesInv
      <4> HIDE DEF rows, h
      <4>3. QED
        BY <1>7, <4>1, <4>2, AdvanceKeeps
    <3>6. QED
      BY <3>4, <3>5
  <2>3. CASE ~IsCurrent(o) /\ ~ConfirmsEnd(a)
    <3>1. op' = rows /\ UNCHANGED <<run, round, rs, node>>
      BY <2>3 DEF Settle
    <3>2. QED
      BY <1>4, <1>5, <1>6, <1>7, <3>1 DEF Fitting, RunInv, TypesInv
  <2>4. QED
    BY <2>1, <2>2, <2>3
<1>9. /\ job' \in [Worker -> JobType] /\ WorkerTrue(w)' /\ job'[w].at # "send"
      /\ \A v \in Worker : v # w => job'[v] = job[v]
  BY <1>1, IdleWorker
<1>10. lease' \in [Op -> Worker \cup {NoWorker}] /\ lease'[o] \notin Worker
       /\ \A p \in Op : p # o => lease'[p] = lease[p]
  BY <1>1, <1>2, PipelineAssumption
<1>11. TypesInv' /\ CurrentInv'
  BY <1>1, <1>8, <1>9, <1>10, AfterPass DEF RunInv, TypesInv
<1>12. RowsInv'
  <2>1. \A p \in Op : /\ RowTrue(rows[p], effect[p])
                      /\ rows[p].state = "none" => op[p].state = "none"
                      /\ lease'[p] \in Worker =>
                           lease[p] \in Worker /\ rows[p].state \in Runnable \ {"queued"}
                      /\ op[p].started => rows[p].started
    BY <1>3, <1>4, <1>10 DEF RunInv, RowsInv
  <2>2. QED
    BY <1>1, <1>8, <2>1, RowsAfter
<1>13. Forward
  <2>1. \A p \in Op : op[p].started => op[p].state # "none"
    BY DEF RunInv, RowsInv, RowTrue
  <2>2. \A p \in Op :
          /\ op[p].state \notin {"none", "queued"} => rows[p].state \notin {"none", "queued"}
          /\ op[p].started => rows[p].started /\ rows[p].state # "none"
    BY <1>3, <1>4, <2>1
  <2>3. QED
    BY <1>1, <1>8, <2>2, ForwardAfter
<1>14. WorkersInv'
  BY <1>1, <1>9, <1>13, OneMoves
<1>15. QED
  BY <1>11, <1>12, <1>14 DEF RunInv

\* A retry gives the failed node back to the coordinator; it has no row that may change.
LEMMA RetryStep ==
  ASSUME RunInv, NEW n \in Node, Retry(n)
  PROVE  RunInv'
<1> DEFINE nd == [node EXCEPT ![n] = NewNode]
<1>1. /\ run \in {"active", "waiting"} /\ node[n].life = "failed"
      /\ AdvanceWithinTransaction(run, round, rs, nd, op)
      /\ UNCHANGED <<moved, lease, job, effect, sent>> /\ faults' = faults
  BY DEF Retry, outside
<1>2. nd \in [Node -> NodeType] /\ \A m \in Node : m # n => nd[m] = node[m]
  BY NewTypes DEF RunInv, TypesInv
<1>3. Fits(op, nd, round)
  <2>1. \A o \in Op : op[o].state \in Runnable /\ RoundOf(o) = round => NodeOf(o) # n
    BY <1>1 DEF RunInv, CurrentInv, Fits
  <2>2. \A o \in Op : NodeOf(o) \in Node
    BY OpParts
  <2>3. \A o \in Op : op[o].state \in Runnable /\ RoundOf(o) = round => nd[NodeOf(o)].life = "active"
    BY <1>2, <2>1, <2>2 DEF RunInv, CurrentInv, Fits
  <2>4. QED
    BY <2>3 DEF RunInv, CurrentInv, Fits
<1>4. Fitting(run, round, rs, nd, op)
  BY <1>2, <1>3 DEF Fitting, RunInv, TypesInv, CurrentInv
<1>5. /\ Fitting(run, round, rs, node, op)'
      /\ \A p \in Op : op'[p] = op[p] \/ (op[p].state = "none" /\ op'[p] = Queued)
      /\ run' # "cancelled"
  <2> HIDE DEF nd
  <2>1. QED
    BY <1>1, <1>4, AdvanceKeeps
<1>6. TypesInv' /\ CurrentInv'
  BY <1>1, <1>5, AfterPass DEF RunInv, TypesInv
<1>7. RowsInv'
  BY <1>1, <1>5, RowsAfter DEF RunInv, RowsInv
<1>8. Forward
  <2>1. \A p \in Op : op[p].started => op[p].state # "none"
    BY DEF RunInv, RowsInv, RowTrue
  <2>2. QED
    BY <1>1, <1>5, <2>1, ForwardAfter
<1>9. WorkersInv'
  <2>1. \A v \in Worker : WorkerTrue(v)'
    BY <1>1, <1>8, WorkerKept DEF RunInv, WorkersInv
  <2>2. QED
    BY <1>1, <2>1, SendersKept DEF RunInv, WorkersInv
<1>10. QED
  BY <1>6, <1>7, <1>9 DEF RunInv

\* A new round drops what was not claimed and starts with rows of its own.
LEMMA NextRoundStep ==
  ASSUME RunInv, NextRound
  PROVE  RunInv'
<1> DEFINE rows == [o \in Op |-> IF RoundOf(o) = round /\ op[o].state = "queued"
                                 THEN [op[o] EXCEPT !.state = "superseded"] ELSE op[o]]
           nd == [n \in Node |-> NewNode]
<1>1. /\ run \in {"active", "waiting"} /\ round < MaxRound /\ moved' = FALSE
      /\ AdvanceWithinTransaction("active", round + 1, "active", nd, rows)
      /\ UNCHANGED <<lease, job, effect, sent, faults>>
  BY DEF NextRound
<1>2. op \in [Op -> RowType] /\ round \in 1 .. MaxRound /\ MaxRound \in Nat
  BY PipelineAssumption DEF RunInv, TypesInv
<1>3. nd \in [Node -> NodeType]
  BY NewTypes
<1>4. ASSUME NEW o \in Op
      PROVE  /\ rows[o] \in RowType /\ rows[o].state # "queued"
             /\ rows[o].started = op[o].started /\ rows[o].ended = op[o].ended
             /\ rows[o] # op[o] => op[o].state = "queued" /\ rows[o].state = "superseded"
  <2>1. op[o] \in RowType
    BY <1>2
  <2>2. CASE RoundOf(o) = round /\ op[o].state = "queued"
    BY <2>1, <2>2 DEF RowType, Terminal
  <2>3. CASE ~(RoundOf(o) = round /\ op[o].state = "queued")
    BY <2>1, <2>3 DEF RunInv, CurrentInv, Fits
  <2>4. QED
    BY <2>2, <2>3
<1>5. rows \in [Op -> RowType]
  BY <1>4
<1>6. \A o \in Op : /\ rows[o].state = "none" <=> op[o].state = "none"
                    /\ RoundOf(o) >= round + 1 => rows[o].state = "none"
  <2>1. \A o \in Op : rows[o].state = "none" <=> op[o].state = "none"
    BY <1>4
  <2>2. \A o \in Op : RoundOf(o) \in Nat
    BY OpParts
  <2>3. QED
    BY <1>2, <2>1, <2>2 DEF RunInv, CurrentInv, Fits
<1>7. Fits(rows, nd, round + 1)
  <2>1. \A o \in Op : RoundOf(o) = round + 1 => rows[o].state \notin Runnable
    BY <1>2, <1>6, StatesApart
  <2>2. \A o \in Op : \A k \in 1 .. o[3] : <<o[1], o[2], k>> \in Op
    BY OpParts, PipelineAssumption DEF Op
  <2>3. \A o \in Op : rows[o].state # "none" =>
          \A k \in 1 .. o[3] : rows[<<o[1], o[2], k>>].state # "none"
    BY <1>6, <2>2 DEF RunInv, CurrentInv, Fits
  <2>4. \A o \in Op : RoundOf(o) > round + 1 => rows[o].state = "none"
    BY <1>2, <1>6, OpParts
  <2> HIDE DEF rows, nd
  <2>5. QED
    BY <1>4, <2>1, <2>3, <2>4 DEF Fits
<1>8. Fitting("active", round + 1, "active", nd, rows)
  BY <1>1, <1>2, <1>3, <1>4, <1>5, <1>7 DEF Fitting, RunStates, RoundStates
<1>9. /\ Fitting(run, round, rs, node, op)'
      /\ \A p \in Op : op'[p] = rows[p] \/ (rows[p].state = "none" /\ op'[p] = Queued)
      /\ run' # "cancelled"
  <2> HIDE DEF rows, nd
  <2>1. QED
    BY <1>1, <1>8, AdvanceKeeps
<1>10. ASSUME NEW p \in Op
       PROVE  /\ RowTrue(rows[p], effect[p])
              /\ lease[p] \in Worker => rows[p].state \in Runnable \ {"queued"}
  <2>1. RowTrue(op[p], effect[p]) /\ (lease[p] \in Worker => op[p].state \in Runnable \ {"queued"})
    BY DEF RunInv, RowsInv
  <2>2. CASE rows[p] = op[p]
    BY <2>1, <2>2
  <2>3. CASE rows[p] # op[p]
    <3>1. op[p].state = "queued" /\ rows[p].state = "superseded" /\ ~rows[p].started
      BY <1>4, <2>1, <2>3 DEF RowTrue
    <3>2. QED
      BY <1>4, <2>1, <3>1 DEF RowTrue, Runnable
  <2>4. QED
    BY <2>2, <2>3
<1>11. TypesInv' /\ CurrentInv'
  BY <1>1, <1>9, AfterPass DEF RunInv, TypesInv
<1>12. RowsInv' /\ Forward
  <2> HIDE DEF rows
  <2>1. \A p \in Op : op[p].started => op[p].state # "none"
    BY DEF RunInv, RowsInv, RowTrue
  <2>2. RowsInv'
    BY <1>1, <1>4, <1>6, <1>9, <1>10, RowsAfter
  <2>3. Forward
    BY <1>1, <1>4, <1>6, <1>9, <2>1, ForwardAfter
  <2>4. QED
    BY <2>2, <2>3
<1>13. WorkersInv'
  <2>1. \A v \in Worker : WorkerTrue(v)'
    BY <1>1, <1>12, WorkerKept DEF RunInv, WorkersInv
  <2>2. QED
    BY <1>1, <2>1, SendersKept DEF RunInv, WorkersInv
<1>14. QED
  BY <1>11, <1>12, <1>13 DEF RunInv

\* What the command writes of a row is true: work that was not sent has no effect.
LEMMA CancelledIsTrue ==
  ASSUME RunInv, NEW o \in Op
  PROVE  /\ CancelledRow(o) \in RowType /\ RowTrue(CancelledRow(o), effect[o])
         /\ CancelledRow(o).state # "queued" /\ CancelledRow(o).started = op[o].started
         /\ CancelledRow(o).state = "none" <=> op[o].state = "none"
         /\ CancelledRow(o).state \in Runnable => CancelledRow(o).state = op[o].state
         /\ op[o].state \notin {"none", "queued"} => CancelledRow(o).state \notin {"none", "queued"}
         /\ op[o].state \in Runnable => CancelledRow(o).state \in Runnable \cup Terminal
         /\ op[o].state \notin Runnable => CancelledRow(o) = op[o]
<1> DEFINE r == op[o]
           c == CancelledRow(o)
<1>1. r \in RowType /\ RowTrue(r, effect[o])
  BY DEF RunInv, TypesInv, RowsInv
<1>2. CASE r.state \notin Runnable
  <2>1. c = r
    BY <1>2 DEF CancelledRow
  <2>2. r.state # "queued"
    BY <1>2 DEF Runnable
  <2>3. QED
    BY <1>1, <1>2, <2>1, <2>2
<1>3. CASE r.state \in Runnable /\ ~r.started
  <2>1. /\ c.state \in {"cancelled", "superseded"} /\ ~c.started /\ c.ended
        /\ c \in RowType /\ c.started = r.started
    BY <1>1, <1>3 DEF CancelledRow, RowType, Terminal, Receipt, Ended
  <2>2. effect[o] = "none" /\ r.state # "none"
    BY <1>1, <1>3, StatesApart DEF RowTrue
  <2>3. c.state \notin Runnable /\ c.state \in Terminal /\ c.state \notin {"none", "queued"}
    BY <2>1 DEF Runnable, Terminal
  <2>4. RowTrue(c, effect[o])
    BY <2>1, <2>2, <2>3 DEF RowTrue
  <2>5. QED
    BY <1>3, <2>1, <2>2, <2>3, <2>4
<1>4. CASE r.state \in Runnable /\ r.started
  <2>1. r.state \notin {"none", "queued"}
    BY <1>1, <1>4 DEF RowTrue
  <2>2. /\ c.state = IF r.ended THEN "superseded" ELSE r.state
        /\ c.started /\ c.ended = r.ended /\ c \in RowType
    BY <1>1, <1>4 DEF CancelledRow, RowType, Terminal
  <2>3. "superseded" \in Terminal /\ "superseded" \notin Runnable
    BY DEF Runnable, Terminal
  <2>4. RowTrue(c, effect[o])
    BY <1>1, <1>4, <2>1, <2>2, <2>3 DEF RowTrue
  <2>5. QED
    BY <1>4, <2>1, <2>2, <2>3, <2>4
<1>5. QED
  BY <1>2, <1>3, <1>4

\* The command fences what was not sent and asks the rest to stop.
LEMMA CancelCommandStep ==
  ASSUME RunInv, Cancel
  PROVE  RunInv'
<1> DEFINE rows == [o \in Op |-> CancelledRow(o)]
           open(n) == \E o \in Op : NodeOf(o) = n /\ RoundOf(o) = round /\ rows[o].state \in Runnable
           nd == [n \in Node |->
                    IF node[n].life \in {"completed", "failed"} THEN node[n]
                    ELSE IF open(n) THEN [life |-> "active", runtime |-> "cancelling"]
                    ELSE [life |-> "cancelled",
                          runtime |-> IF node[n].runtime = "queued" THEN "cancelled" ELSE node[n].runtime]]
<1>1. /\ op' = rows
      /\ lease' = [o \in Op |-> IF op[o].state \in Runnable /\ rows[o].state \in Terminal
                                THEN NoWorker ELSE lease[o]]
      /\ IF Unresolved(rows) THEN run' = "cancelling" /\ node' = nd /\ rs' = rs
         ELSE run' = "cancelled" /\ rs' = "cancelled" /\ node' = CancelledNodes(nd)
      /\ round' = round /\ UNCHANGED <<moved, job, effect, sent>> /\ faults' = faults
  BY DEF Cancel, outside
<1>2. \A o \in Op :
        /\ rows[o] \in RowType /\ RowTrue(rows[o], effect[o])
        /\ rows[o].state # "queued" /\ rows[o].started = op[o].started
        /\ rows[o].state = "none" <=> op[o].state = "none"
        /\ rows[o].state \in Runnable => rows[o].state = op[o].state
        /\ op[o].state \notin {"none", "queued"} => rows[o].state \notin {"none", "queued"}
        /\ op[o].state \in Runnable => rows[o].state \in Runnable \cup Terminal
  BY CancelledIsTrue
<1>3. rows \in [Op -> RowType]
  BY <1>2
<1>4. nd \in [Node -> NodeType]
  BY DEF RunInv, TypesInv, NodeType, Ended
<1>5. Fits(rows, nd, round)
  <2>1. ASSUME NEW o \in Op, rows[o].state \in Runnable, RoundOf(o) = round
        PROVE  nd[NodeOf(o)].life = "active"
    <3>1. NodeOf(o) \in Node /\ open(NodeOf(o))
      BY <2>1, OpParts
    <3>2. node[NodeOf(o)].life = "active"
      BY <1>2, <2>1 DEF RunInv, CurrentInv, Fits
    <3>3. QED
      BY <3>1, <3>2
  <2>2. \A o \in Op : \A k \in 1 .. o[3] : <<o[1], o[2], k>> \in Op
    BY OpParts, PipelineAssumption DEF Op
  <2> HIDE DEF rows, nd
  <2>3. \A o \in Op : rows[o].state \in Runnable => op[o].state \in Runnable
    BY <1>2
  <2>4. QED
    BY <1>2, <2>1, <2>2, <2>3 DEF RunInv, CurrentInv, Fits
<1>6. Fitting(run, round, rs, node, op)' /\ (run' = "cancelled" => ~Unresolved(op'))
  <2> HIDE DEF rows, nd
  <2>1. CASE Unresolved(rows)
    BY <1>1, <1>2, <1>3, <1>4, <1>5, <2>1 DEF Fitting, RunInv, TypesInv, RunStates
  <2>2. CASE ~Unresolved(rows)
    <3>1. CancelledNodes(nd) \in [Node -> NodeType] /\ Fits(rows, CancelledNodes(nd), round)
      BY <1>4, <1>5, <2>2, CancelledNodesType, ResolvedFits
    <3>2. QED
      BY <1>1, <1>2, <1>3, <2>2, <3>1 DEF Fitting, RunInv, TypesInv, RunStates, RoundStates
  <2>3. QED
    BY <2>1, <2>2
<1> HIDE DEF rows, nd
<1>7. lease' \in [Op -> Worker \cup {NoWorker}]
  BY <1>1 DEF RunInv, TypesInv
<1>8. TypesInv' /\ CurrentInv'
  BY <1>1, <1>6, <1>7, AfterPass DEF RunInv, TypesInv
<1>9. RowsInv' /\ Forward
  <2>1. \A p \in Op : lease'[p] \in Worker =>
          lease[p] \in Worker /\ rows[p].state \in Runnable \ {"queued"}
    BY <1>1, <1>2, PipelineAssumption DEF RunInv, RowsInv
  <2>2. RowsInv'
    BY <1>1, <1>2, <2>1, RowsAfter
  <2>3. Forward
    BY <1>1, <1>2 DEF Forward
  <2>4. QED
    BY <2>2, <2>3
<1>10. WorkersInv'
  <2>1. \A v \in Worker : WorkerTrue(v)'
    BY <1>1, <1>9, WorkerKept DEF RunInv, WorkersInv
  <2>2. QED
    BY <1>1, <2>1, SendersKept DEF RunInv, WorkersInv
<1>11. QED
  BY <1>8, <1>9, <1>10 DEF RunInv

(***************************************************************************)
(* The theorems                                                            *)
(***************************************************************************)
\* A run starts with queued rows of its first round and nothing sent.
LEMMA RunInvInit == PipelineInit => RunInv
<1> SUFFICES ASSUME PipelineInit PROVE RunInv
  OBVIOUS
<1>1. PICK S \in SUBSET Node :
        /\ S \in Plans([o \in Op |-> NoRow], 1, [n \in Node |-> NewNode])
        /\ run = "active" /\ round = 1 /\ rs = "active" /\ moved = FALSE
        /\ node = [n \in Node |-> IF n \in S THEN [life |-> "active", runtime |-> "queued"] ELSE NewNode]
        /\ op = [o \in Op |-> IF \E n \in S : o = <<1, n, 1>> THEN Queued ELSE NoRow]
        /\ lease = [o \in Op |-> NoWorker]
        /\ job = [w \in Worker |-> Idle]
        /\ effect = [o \in Op |-> "none"]
        /\ sent = [o \in Op |-> 0]
        /\ faults = 0
  BY DEF PipelineInit
<1>2. TypesInv
  <2>1. Idle \in JobType /\ [life |-> "active", runtime |-> "queued"] \in NodeType
    BY DEF JobType, NodeType, Idle, Answer
  <2>2. /\ node \in [Node -> NodeType] /\ op \in [Op -> RowType]
        /\ job \in [Worker -> JobType]
    BY <1>1, <2>1, NewTypes
  <2>3. 1 \in 1 .. MaxRound /\ 0 \in 0 .. 2 /\ 0 \in 0 .. Faults
    BY PipelineAssumption
  <2>4. QED
    BY <1>1, <2>2, <2>3 DEF TypesInv, RunStates, RoundStates
<1>3. ASSUME NEW o \in Op
      PROVE  /\ op[o].state \in {"none", "queued"} /\ ~op[o].started /\ ~op[o].ended
             /\ op[o].cancel = "no"
             /\ op[o].state = "queued" => o[1] = 1 /\ o[2] \in S /\ o[3] = 1
             /\ o[1] = 1 /\ o[2] \in S /\ o[3] = 1 => op[o].state = "queued"
  <2>1. (\E n \in S : o = <<1, n, 1>>) <=> o[1] = 1 /\ o[2] \in S /\ o[3] = 1
    BY OpParts
  <2>2. QED
    BY <1>1, <2>1 DEF Queued, NoRow
<1>4. RowsInv
  BY <1>1, <1>3, PipelineAssumption DEF RowsInv, RowTrue, Runnable
<1>5. Fits(op, node, round)
  <2>1. \A o \in Op : op[o].state \in Runnable => op[o].state = "queued"
    BY <1>3 DEF Runnable
  <2>2. \A o \in Op : op[o].state = "queued" =>
          RoundOf(o) = 1 /\ NodeOf(o) \in S /\ o = <<1, NodeOf(o), 1>>
    BY <1>3, OpParts
  <2>3. \A n \in S : node[n].life = "active"
    BY <1>1
  <2>4. \A o \in Op : RoundOf(o) > 1 => op[o].state = "none"
    BY <1>3, <2>2
  <2>5. ASSUME NEW o \in Op, op[o].state # "none", NEW k \in 1 .. o[3]
        PROVE  op[<<o[1], o[2], k>>].state # "none"
    <3>1. o[3] = 1 /\ k = 1 /\ <<o[1], o[2], k>> = o
      BY <1>3, <2>5, OpParts
    <3>2. QED
      BY <2>5, <3>1
  <2>6. QED
    BY <1>1, <2>1, <2>2, <2>3, <2>4, <2>5 DEF Fits
<1>6. CurrentInv
  BY <1>1, <1>5 DEF CurrentInv
<1>7. WorkersInv
  BY <1>1 DEF WorkersInv, WorkerTrue, OneSender, Idle
<1>8. QED
  BY <1>2, <1>4, <1>6, <1>7 DEF RunInv

\* Every step keeps it.
LEMMA RunInvStep ==
  ASSUME RunInv, [PipelineNext]_plVars
  PROVE  RunInv'
<1>1. ASSUME NEW w \in Worker, Work(w)
      PROVE  RunInv'
  BY <1>1, ReadingSteps, CallingSteps, BeginDispatchStep, BeginCancelStep, SettleStep DEF Work
<1>2. CASE UNCHANGED plVars
  <2>1. TypesInv'
    BY <1>2 DEF plVars, RunInv, TypesInv
  <2>2. RowsInv' /\ CurrentInv' /\ Forward
    BY <1>2, <2>1, SameRows DEF plVars, runVars, RunInv, RowsInv
  <2>3. WorkersInv'
    <3>1. \A v \in Worker : WorkerTrue(v)'
      BY <1>2, <2>2, WorkerKept DEF plVars, RunInv, WorkersInv
    <3>2. QED
      BY <1>2, <3>1, SendersKept DEF plVars, RunInv, WorkersInv
  <2>4. QED
    BY <2>1, <2>2, <2>3 DEF RunInv
<1>3. QED
  BY <1>1, <1>2, ReadingSteps, ClaimStep, OutsideSteps, RetryStep, NextRoundStep, CancelCommandStep
  DEF PipelineNext

\* Rows, effects and workers agree in every reachable state.
LEMMA RunInvariant == PipelineSpec => []RunInv
  BY RunInvInit, RunInvStep, PTL DEF PipelineSpec

\* The rows, the leases and the workers keep their types, and a queued row always belongs
\* to the current round of a run that goes on.
THEOREM PipelineTypeCorrect == PipelineSpec => []PipelineTypeOK
<1>1. RunInv => PipelineTypeOK
  <2> SUFFICES ASSUME RunInv PROVE PipelineTypeOK
    OBVIOUS
  <2>1. \A o \in Op : op[o].state = "queued" => IsCurrent(o)
    BY DEF RunInv, CurrentInv, Fits, IsCurrent
  <2>2. sent \in [Op -> 0 .. 2]
    BY DEF RunInv, RowsInv, TypesInv
  <2>3. QED
    BY <2>1, <2>2 DEF PipelineTypeOK, RunInv, TypesInv, RunStates, RoundStates, NodeType, RowType, JobType
<1>2. QED
  BY <1>1, RunInvariant, PTL

\* For any template and any limits, however leases change hands and whichever workers crash,
\* the execution of an operation is requested at most once, under its dispatch mark.
THEOREM DispatchedOnce == PipelineSpec => []DispatchedAtMostOnce
<1>1. RunInv => DispatchedAtMostOnce
  BY DEF RunInv, RowsInv, DispatchedAtMostOnce
<1>2. QED
  BY <1>1, RunInvariant, PTL

\* For any template and any limits, what a row records of its effect is what happened.
THEOREM OutcomesTrue == PipelineSpec => []OutcomeIsTruth
<1>1. RunInv => OutcomeIsTruth
  BY DEF RunInv, RowsInv, RowTrue, OutcomeIsTruth, Ended
<1>2. QED
  BY <1>1, RunInvariant, PTL

\* For any template and any limits, a run that reads cancelled has no effect that runs and
\* no worker that can start one.
THEOREM CancelledQuiet == PipelineSpec => []CancelledRunIsQuiet
<1>1. RunInv => CancelledRunIsQuiet
  <2> SUFFICES ASSUME RunInv, run = "cancelled"
               PROVE  /\ Running = {}
                      /\ \A o \in Op : op[o].state \notin Runnable
                      /\ \A o \in Op : sent[o] > 0 => effect[o] # "none"
                      /\ \A w \in Worker : job[w].at = "send" => effect[job[w].op] # "none"
    BY DEF CancelledRunIsQuiet
  <2>1. \A o \in Op : op[o].state \notin Runnable
    BY DEF RunInv, CurrentInv, Unresolved
  <2>2. \A o \in Op : op[o].started => effect[o] \in Ended
    BY <2>1 DEF RunInv, RowsInv, RowTrue
  <2>3. Running = {}
    BY <2>2 DEF Running, RunInv, RowsInv, RowTrue, Ended
  <2>4. \A w \in Worker : job[w].at = "send" => effect[job[w].op] # "none"
    BY <2>2 DEF RunInv, WorkersInv, WorkerTrue, Ended
  <2>5. ASSUME NEW o \in Op, sent[o] > 0
        PROVE  effect[o] # "none"
    <3>1. op[o].started
      BY <2>5 DEF RunInv, RowsInv
    <3>2. QED
      BY <2>2, <3>1 DEF Ended
  <2>6. QED
    BY <2>1, <2>3, <2>4, <2>5
<1>2. QED
  BY <1>1, RunInvariant, PTL
====
