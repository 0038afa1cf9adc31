# Run control of the agent platform: models, checks and proofs

The platform (`packages/server`, `packages/server-ai`) runs agents: a user's
message starts an *execution*, which calls tools, publishes background jobs,
invokes other agents and hands messages over to them. Any of this may be paused,
resumed and stopped while worker processes crash, queues deliver twice and
database calls fail. The code that keeps this consistent is its run control: a
durable ledger of tasks and its clients. Beside it, a managed *pipeline* drives a
project through rounds of nodes whose work runs outside the platform, with durable
operations, leases and cancellations of its own. This directory holds TLA+ models of
the ledger, of its three most important clients (the job queue, the thread of a
conversation, the handoff of messages) and of the pipeline's operations and provider
actions, TLC configurations that check them on small instances, and TLAPS proofs
for every instance.

    tlasany M.tla                        parse a module
    tlc -workers 2 -config X.cfg M       run a configuration
    tlapm M_proofs.tla                   check the proofs of a module; there are eight:
                                         TaskControl, ManagedQueue, ThreadRun, ThreadFreed,
                                         HandoffRelay, PipelineRun, PipelineLimits,
                                         ProviderAction

`PROJECT.json` lists components, runs, mutants, the map from definitions to
source lines, findings, hazards and theorems.

## 1. The system

### Components, their state and their operations

| Component | State | Operations | What makes it correct |
|---|---|---|---|
| **Task ledger** `server/src/task-control` | `task_control` (intent, receipt, claim, ancestry, attempts), `task_control_publication` (outbox, result) | register, publish, published, publicationResult, change, claim, finishClaim, receipt, settleUnstarted, openExecution, bindExecution, restoreAttempt, settled, retire | ancestry is well formed; termination and completion are final; a completed family never grows; claims exclude each other |
| **Controlled handler execution** `task-control.runner.ts`, `controlled-job.ts` | claim, outcome, abort controller, unflushed receipts | claim, run, abort poll, exit receipt, branches after a rejected claim | the body runs at most once; a failure is never turned into a success; nothing is settled around a live body |
| **Managed queue** `server/src/managed-queue` | outbox rows, BullMQ jobs | enqueue, relay, process, cancel | a committed publication is delivered; delivering twice runs once |
| **Coordinator** `task-control-coordinator.service.ts` | scan lease | scan, deliver | unstarted work of a stopped run is settled |
| **Execution ledger** `server-ai/src/execution-control` | `execution_control`: intent, graphEnded, tool activities | root, intent, terminate, admit, settle, end, drained, settleOrphan | a tool call keeps its run open until it really returns; recovery presumes nothing |
| **Thread run control** `thread-run-control.service.ts`, leases | `thread.runControl`, `thread.status`, private lease, in-process `owned` map | start, requestPause, stageCheckpoint, cancel, claimResume, bindResumed, releaseResume, finish, maintenance, recovery | the thread is busy exactly while one run is open; runs do not overlap; a stop and a pause are confirmed, truthfully |
| **Handoff relay** `server-ai/src/handoff` | message tasks, publication rows with the answer, BullMQ jobs, promises in memory | enqueue, enqueueAndWait, relay, dispatch, outbound, stop command, poll | a processor is called at most once; a waiter gets the durable answer; a cancelled message is confirmed over |
| **Managed pipeline run** `server-ai/src/xpert-project/pipeline/runtime` | run, round, nodes, operation rows with their leases | advance, claim, beginDispatch, beginCancel, settle, retry, next round, cancel | an effect is requested once; capacity and resources hold of what really runs; rows tell the truth; every end is recorded |
| **Provider actions** `pipeline/provider-actions`, native grants | action rows, leases, grants | reserve, claim, begin, settle, project, recovery scan, prepare, consume | an action is the node's only one until the provider declares it over; no end is invented; no receipt is forgotten |
| **Runtime messaging, continuation** `handoff/runtime-messaging` | inbox, continuation lease | accept, reserve, admit | a continuation is started once |
| **Agent invocation** `agent-invocation` | invocation, remote handle, wait lease | start, observe, cancel, wait | a cancelled start does not leave a remote run behind |
| **Scheduled tasks, model admission, sandbox jobs** | their own leases and reservations | claim, renew, settle | single execution per tick or reservation |
| **Locks** (Redis, storage, plugin store) | lock keys | acquire, renew, release | mutual exclusion |
| **Stream transport, checkpoints, outboxes, collaboration, web, SDK, contracts** | – | – | I/O, CRUD, display |

### How they interact

    user ──> ThreadRunControl ──> ExecutionControl ──> TaskControl
               │  ▲ maintenance, leases                  ▲   ▲   ▲
               ▼  │                                      │   │   │
             graph / tools ── publish ── ManagedQueue ───┘   │   └── Coordinator
                                │  ▲                         │
                                ▼  │ redelivery              │
                              BullMQ ──> worker ── TaskControlRunner
                                            │
               HandoffRelay  <── handler ───┘    (a message is a task above the job
               dispatcher, pending results        that carries it)

    user, subject ──> pipeline commands ──> run, round, nodes, operations
                                                  ▲ leases       ▲ reserve
                         executor, provider <── workers ──> coordinator

* The thread row, the execution-ledger root row and the task-ledger root row are
  locked in this order. Every method of the store and of the thread service is a
  database transaction under one or more of these locks. Between two methods
  nothing is locked, so what a *sequence* of methods assumes may be stale: a
  maintenance pass is list / drained? / finish; a rejected delivery is claim /
  read / receipt; a cancellation is read / change / settle or remove; a resume is
  claim / bind / start; a stop by the user is `threadRunControl.cancel` for the execution
  that occupies the thread, and then `terminate` for every execution that was named.
* Parent and child tasks interact through one shared table only. A child inherits
  the strongest intent of its attached ancestors (`intentOf` walks the ancestry);
  a parent is released when its descendants are settled (`settled`).
* A handoff message is a task with a publication row, and below it a managed-queue job
  that carries it. Its caller waits for a promise in the memory of one process, while
  the answer is a column that any process may write; a 250 ms poll joins the two.
* A pipeline worker holds a lease, not a lock: between claim, dispatch mark, external
  call, answer and settlement the run may be cancelled, the round closed, the lease
  expired. Every command and every settlement is one transaction under the project's
  row lock, and ends with a pass of the coordinator.
* Workers, relays, the coordinator and maintenance are timers in every process of
  the cluster. Processes share nothing but the database, the queue and Redis.

### Hard behaviours

Interleavings of user requests, graph callbacks, tool returns, worker steps,
relays and maintenance; crashes at every step of a worker or of an owner; stalls
and redelivery; lost exit receipts; leases that expire under a living owner;
claims that outlive their process; calls to a provider that arrive after the lease
that sent them, or never; answers of a provider that its own executions belie.
`PROJECT.json` "hazards" lists each one at
the line where it bites, with the properties that watch it.

## 2. The modules

| Module | Models | State and actions |
|---|---|---|
| `TaskControl` | `task-control.store.ts` | One variable per column group; one action per store method that changes rows. A method that rejects or returns early is a disabled action or a stutter. `TaskSpec` calls any method for any task at any time: the *most general client*. |
| `HandlerOnce` | abstract | What controlled execution promises of one task's handler: `Enter` once, `Leave`, `Settle` only outside the body. |
| `RunsInTurn` | abstract | What the runs of one thread promise: `Begin` once and on a free thread, `Work` only while holding it, `End` once and with all work done. `ThreadRun` implements it with all runs of the thread and their tools, `ManagedQueue` with one run and a family of any depth. |
| `ManagedQueue` (EXTENDS `TaskControl`) | outbox and relay, BullMQ, workers, runner, rejected claims, cancel, coordinator, and the run that owns the jobs | `WorkerNext` is `runControlledJob` and `TaskControlRunner` step by step, one action per transaction. `RelayNext`, `CancelNext` and `Stall` are the queue. `HostNext` is the thread as its jobs see it: finish, pause, stop, resume, crash, recovery. |
| `ThreadRun` (EXTENDS `TaskControl`) | thread service, leases, execution ledger, the driver of each execution | One action per service method; `sweep` is one maintenance pass with its three transactions; `drv[e]` is where the code that drives execution `e` stands (create stream, invoke handler, callbacks). `Cancel` is the stop of the thread's execution, `Terminate` the write that the stop command makes for any execution it names. `Kid` is one attached task that stands for the family below the runs. |
| `HandoffRelay` (EXTENDS `TaskControl`) | enqueue and enqueueAndWait, both relays, the controlled handler with its dispatcher, the durable answer, outbound messages, the stop command, promises and poll, the coordinator's handoff branch | `MessageNext` is what happens to a message outside a process, `ProcessNext` a process's job slot, one action per transaction. Also implements `HandlerOnce`, with the processor as the body. |
| `PipelineRun` (stands alone) | `pipeline/runtime`: operation store, runner, observer, coordinator, planner, rounds, lifecycle, resources, retry, cancellation | One action per store method or command, each ending in `AdvanceWithinTransaction` where the code does; `Work(w)` is a worker between two transactions; `EndEffect` is the world. |
| `ProviderAction` (stands alone) | the store, service and worker of provider actions; native grants | The row's methods, a worker's call of `run()`, the provider's answers and its use of grants. |
| `MCTaskControl`, `MCManagedQueue`, `MCThreadRun`, `MCHandoffRelay`, `MCPipelineRun`, `MCProviderAction` | – | instances, symmetry and instance bounds for TLC |
| `TaskControl_proofs`, `ManagedQueue_proofs`, `ThreadRun_proofs`, `ThreadFreed_proofs`, `HandoffRelay_proofs`, `PipelineRun_proofs`, `PipelineLimits_proofs`, `ProviderAction_proofs` | – | the theorems of section 5 |

`ManagedQueue`, `ThreadRun` and `HandoffRelay` *compose* the ledger's actions with
their own; the property `OnlyLedgerSteps` says that each of their steps is one ledger
operation or none (checked for the queue, proved for all three), so what is proved of
`TaskSpec` applies to their ledgers. The pipeline keeps its own rows and touches
the ledger through the executor only. `ManagedQueue`
sees the thread abstractly (`host`, `code`); `ThreadRun` models it in full and
sees the queue's family abstractly (`Kid`). Both are proved to implement `RunsInTurn`,
which is where the two views meet. In particular a run whose code is
`"starting"` can always stop in `ManagedQueue`; `ThreadRun` shows what it takes.

**Main correspondences.** `entry` = rootId, parentId, policy, ancestorIds,
drainOnPause. `desired` = desiredState. `claim` = claim, an instance's uuid; a
model worker's name stands for the uuid it would draw. `outbox` = published flag.
`job[t]` = the BullMQ job with jobId `t` (held by worker `w` when `job[t] = w`).
`owes[w]` = the runner's retry of a receipt that could not be written. `removing` =
`cancel()` between its transactions. `ctl` = `thread.runControl` with `saved` =
checkpoint staged, `claimed`/`ticket` = resume claim and resumedFromExecutionId,
`pend` = the final status put aside while settling, `pid` = pauseId is set.
`ledger[e].ended` = graphEnded. `tool[e]` = an admitted activity: open, or lost with
its process.

In `HandoffRelay`: `JobOf[m]` = the job task that carries message `m`. `answer` and
`result` = the publication's result column (its value; that it is set, and by whom).
`waiter`/`home` = the promise of enqueueAndWait and the process whose registry holds
it. `said` = what `dispatch` returned, `how` = the runner's outcome. `stopping` = stop
commands between the durable intent and the local promise, `scan` = messages that a
coordinator scan has looked at and not yet acted on. How a job gets through the queue
is `ManagedQueue`'s subject: here its outbox row and its BullMQ entry move together and
a refused claim is one step.

In `PipelineRun`: an operation is ⟨round, node, attempt⟩, from which the code derives
its id. `started` = dispatchStartedAt, `ended` = executionEndedAt, `claimed` = the row has
its resource claim, `cancel` = cancelRequestedAt and cancelDispatchedAt, `receipt` = the
last receipt's status. `lease[o]` = owner of a lease that has not expired, `job[w]` = a
worker's locals, `effect` = the execution outside. The executor is external: one
execution per operation id, truthful inspection or none, and a cancellation that
reaches it before the start refuses the start. Either call may fail or be without
effect: an execution that was requested need not arrive, and `Stop` need not stop.

In `ProviderAction`: `source` = the lease under which dispatchStartedAt was set,
`pending` = projectionPending, `stale` = reserved for a node revision that is gone,
`open` = round and run are active, `native[a][k]` = the grant of action `a` under call key
`k` and the execution that it allowed. The provider is external, and nothing is
assumed of what it says: it may answer anything at any time, *succeeded* with a prepared
grant or a running execution included, and it may have no snapshot of the node. What
binds it are the checks of the grants.

**Abstracted everywhere:** tenant scope, payloads, display metadata, revisions,
`nextCheckAt` and scan leases (they pace the coordinator and guard no row), drain
switches and host compatibility (they delay).

**History variables:** `entered` (bodies ever entered) and `asked` (a pause was
accepted and not yet resumed from), `processed` (processors ever called), `sent` (how
often an execution was requested; its bound of 2 in `Send` is one more than the
property allows), `admitted` (tasks a claim was ever admitted for), `shown` (what the
synchronizations of an action's node gave since its last new receipt), `said` (the ends
that the provider declared). No guard reads the others.

**Seeded faults.** An operator under a comment `\* Fault:` is a plausible bug in the
definition that follows it. No specification uses it; `PROJECT.json` "mutants"
substitutes it for the definition, and the property named there must then fail.

## 3. The runs

All runs set `CHECK_DEADLOCK FALSE`: the system really may stop. Each instance has
finitely many tasks, executions and claims, each is used once, and when all of
them are finished nothing is left to do. A wrong wait shows up in the liveness
properties instead.

| Run | Instance | Shows |
|---|---|---|
| `ledger` | 3 tasks, 1 claim, 1 execution | Closed ancestry, tombstones, sealed families, final completion, truthful cancellations. Three tasks are the smallest number with a grandchild, two siblings, a detached subtree and a late registration at depth two. |
| `queue_faults` | 1 job, 2 workers; stalls, crashes, database errors, cancel, failing relay | Refinement of `HandlerOnce`; a failure is not masked; a paused run has no live handler. One job and two workers give a redelivery while the first handler runs, after it failed, and after it crashed. |
| `queue_family` | 2 jobs (nested, drained on pause, or detached), 1 worker; resume, owner crash | The thread is released only around a quiet family, at any depth. |
| `queue_progress` | 1 job, 1 worker, every fault but detaching; fairness | A stop ends, a pause is confirmed, a publication runs. |
| `thread_runs` | 2 executions (two runs, or a run and its resume); pause, resume, input, cancel of either execution, tools, crash, lease expiry; fairness | Thread, execution ledger and task ledger agree; no overlap between runs; an owner's status is the one shown; a termination that the thread did not issue stops the running graph. |
| `thread_stop` | 2 executions; pause, cancel, tools, an attached child, crash; fairness | Every stop and every pause is settled, and a living graph is not freed. No resume and no input: see section 6. |
| `stale_finish` | 1 execution; pause, input | expected violation, section 6 |
| `handoff_faults` | 1 message and its job, 2 processes; stop commands, intents of the run, crashes, stalls, failing statements, timeouts, slow scans | The processor is called once, a waiter is told the durable answer, *Canceled before dispatch* is true. Two processes let the promise, the processor and a redelivery live in different places. |
| `handoff_waits` | 2 messages, the second sent by the first one's processor, 2 processes; pause and termination; fairness | Whoever waits is answered, a cancelled message is over, also when the waiting caller is a processor. |
| `pipeline_rounds` | 2 nodes in a chain, 2 rounds, 2 attempts, capacity 1, 2 workers, 1 failure, calls that fail; cancel, next round, retry, await | Effects are requested once, stay within the capacity across rounds, rows tell the truth, a cancelled run is quiet, nothing that could start is forgotten. Capacity 1 makes every unconfirmed end matter. |
| `pipeline_progress` | 2 independent nodes that claim one resource, capacity 2, 2 workers, 1 failure, calls that fail; cancel; fairness | One effect holds the resource, a cancellation completes unless execution and cancellation were both lost, every end is recorded. |
| `provider_actions` | 2 actions of a node, 1 call key each, 2 workers, 1 failure, a provider that says anything | Executions of two actions overlap only after the provider declared one of them over; no end is invented; no receipt is forgotten. A second call key only adds executions to one action, on which no guard of the other depends; the theorems hold for any set of keys. |

Two executions are what the thread properties need: an old owner and a new one. A
third one repeats the second, with one exception that section 6 names. In
`ManagedQueue` a second worker slot matters for races around one claim and a second
job for depth; each run has the one its properties need. In the pipeline a second
worker is the one that claims what the first one lost, a second round is what makes
operations historical, and a second attempt is what retry creates.

*Bounds.* Claims and executions are drawn once and never returned, as uuids. The
runner's slot is reused only while its claim cannot be confused with a later one.
`Faults` caps how many workers crash or outlive their lease in `PipelineRun` and
`ProviderAction`: one such failure meets every step of the second worker. Calls to the
executor that fail are not counted in it, they may fail each time.
`MaxRound`, `MaxAttempt` and `Capacity` are limits of the code itself. `Senders` in
`HandoffRelay` says on whose behalf a message may be sent. The constraint
`FamilyOrRows` in `MCTaskControl` leaves out drainOnPause and a second publication, and,
while all three tasks are registered, publication and attempt columns, a second
admission and receipts other than completion from a task that no claim admitted; with
two tasks those are all in use.

*Symmetry* permutes tasks, claims, executions, workers and jobs only in runs that
check no liveness, and only sets that no definition tells apart.

*Coverage.* Between them the passing runs take every action and every disjunct of
the next-state relations.

### Fairness

`Fairness` in `ManagedQueue`: worker steps and their timers run (weak); the relay,
the coordinator and lease maintenance are intervals (weak); a queue that keeps
being asked accepts the job, and serves the waiting ones in order (strong: between
two attempts the job may be taken away by a stall or a failed read; BullMQ bounds
stalls, and a database that never answers satisfies no liveness property); a graph
stops at its next node once the run is pausing or terminating, because every node
asks; a handler returns. `Fairness` in `ThreadRun` is the same for one thread:
driver steps (a graph that nobody asks to stop may run for ever; one whose thread is
pausing or stopping, or whose task is terminated, asks at its next node), tools and the
child return, maintenance, lease expiry of a dead owner, recovery. Nothing obliges
a user, a failure, or the expiry of a living owner's lease.

`RelayFairness` in `HandoffRelay`: the intervals of both relays, of the coordinator and
of the poll, the code of a process and its restart (weak); delivery of a waiting
message and its claim (strong, as above); a processor returns once the messages that
it awaits are settled. No stop, timeout, resume or crash is promised.

`PipelineFairness` in `PipelineRun`: a worker's code runs on, effects end, a lease that
nobody works under expires (weak); the recovery scan pages through every due row, so an
operation that stays claimable is claimed, and an executor that is asked again and
again answers (strong: between two attempts another worker may hold the row, or the
answer may be unknown). That a call to it takes effect is not promised.
Of provider actions only safety is checked: their instance, two actions and two
overlapping workers, is too large for liveness, and a provider that may answer anything
promises little.

What the liveness properties except is named in them: `Stranded` (a claim whose
worker died: the code keeps it in doubt for ever, on purpose), `GivenUp` (BullMQ
failed a job whose task still waits; nobody reports it), `code = "lost"` and
`InDoubt` (a tool call of a dead process; in `HandoffRelay`, a message of the same family
whose claim is stranded, or which was closed without an answer, `Silent`), `Undriven` (a
resume that failed before its graph began) and `Unreached` (an operation whose execution
and whose cancellation were both lost). Section 6 describes those that are hazards.

## 4. The properties

* **Ledger.** `LineageClosed`, `TerminationIsTombstone`, `FamilySealed`,
  `CompletionIsFinal`, `CanceledNeverRan`: what every reader of the table takes for
  granted, under any order of calls. The last one reads: a task that was terminated and
  completed without an outcome never had a claim admitted.
* **Handlers.** `HandlerOnceSpec`: `ManagedQueue` implements `HandlerOnce`, where
  `body` is read off the workers and `verdict` off the ledger. `FailureNotMasked`:
  a job that BullMQ counts as done did not fail. `FreedRunIsQuiet` and
  `PausedRunIsQuiet` relate the thread's state to the workers' program counters.
* **Thread.** `ThreadMatchesTask` and `IntentsAgree` relate the three places the
  run's state is written in. They agree on every intent but one: a termination sent to an
  execution that a resume has superseded reaches the shared task and that execution's
  row only; `TerminationObeyed` says that the running graph obeys it. `NoOverlap`, `LiveGraphNotFreed`, `FinishStatusKept`
  relate them to code that runs elsewhere. Four definitions are proved and in no run:
  `RunsInTurnSpec` (here) and `RunInTurnSpec` (in `ManagedQueue`), `NoFamilyOverlap` and
  `PausedThreadIsQuiet` say of the thread's child what `NoOverlap` says of its tools.
* **Progress.** `TerminatedRunEnds`, `PauseConfirmed`, `PublishedJobRuns`,
  `StopConfirmed`, `PauseSettled`, `TerminationObeyed`.
* **Handoff.** `ProcessorOnceSpec`: the processor of a message implements `HandlerOnce`,
  through two outboxes, redelivery and cancellation. `AnswersAgree`: the two ways to a
  waiter never tell different stories. `CanceledBeforeDispatch`: that answer and a call of
  the processor exclude each other, although they are written by different processes.
  `CancelledIsOver` and `WaiterIsAnswered`: cancellation and waiting come to an end
  wherever the message is.
* **Pipeline.** `DispatchedAtMostOnce`, `CapacityRespected`, `ResourceHeldOnce` speak of
  the executions that really run, not of rows: superseded rounds and slow workers
  count. `OutcomeIsTruth` and `CancelledRunIsQuiet` relate the rows to those executions.
  `NothingLeftUnplanned` is the wake-up: capacity that an end returns reaches the node
  that waits for it, except after `LostOutput` (section 6). `CancellationCompletes`,
  except after `Unreached`, and `EndIsObserved` are its liveness.
* **Provider actions.** `OverlapIsDeclared`: two actions of a node are at work together
  only if the provider declared one of them over while its grants still allowed it to
  work. `VerdictIsFounded`: a final state is its word on the call that was made, or
  the action failed before any call. `ReceiptNotForgotten`: what reached the row is
  fetched for the node, whoever held the lease.

## 5. What is proved

The theorems hold for all values of the constants that satisfy the assumptions
`NoTaskAssumption`, `NoTokenAssumption`, `NoAttemptAssumption`, `KindAssumption`
(`TaskControl`), `QueueAssumption` (`ManagedQueue`), `RunAssumption` (`ThreadRun`),
`RelayAssumption` (`HandoffRelay`), `PipelineAssumption` (`PipelineRun`) and
`ActionAssumption` (`ProviderAction`), which TLC evaluates in every run of the module.

### The ledger (`TaskControl_proofs`)

| Theorem | Statement |
|---|---|
| `TypeCorrect` | `TaskSpec => []TypeOK` |
| `AncestryClosed` | `TaskSpec => []LineageClosed` |
| `TombstoneHolds` | `TaskSpec => TerminationIsTombstone` |
| `CompletionHolds` | `TaskSpec => CompletionIsFinal` |
| `FamilyStaysSealed` | `TaskSpec => FamilySealed` |
| `CancellationIsTruthful` | `TaskSpec => []CanceledNeverRan` |

*Argument.* None of these is inductive alone. The invariant is
`LedgerInv == TypeOK /\ Blank /\ Unheld /\ LineageClosed`: `Blank` (a row that does
not exist holds neither a claim nor an execution) shows that claim and bind find a
registered row; `Unheld` (a completed row holds no claim) shows that no exit receipt
reaches a completed row; `LineageClosed` makes an ancestor of an ancestor an ancestor.
Two lemmas say what any method of the store can do. `Growth`: a step either leaves the
ancestry alone or adds one new row below an open parent. `Progress`: a step takes a
row only forward (a completed row keeps its state and outcome and gets no claim; a
terminated intent stays). The action properties follow from them: a tombstone holds
because its bearer is registered and its intent does not weaken; a sealed family
stays sealed because a new member's parent would have to be open, and that parent
is in the family and completed.

*Client obligation.* `bindExecution` and `restoreAttempt` do not look at the state
column. Called for a completed task they would reopen it, so `TaskNext` guards
them, and `OnlyLedgerSteps` says of all three clients that they never call them so.

### The queue (`ManagedQueue_proofs`)

| Theorem | Statement |
|---|---|
| `QueueTypeCorrect` | `MQSpec => []MQTypeOK` |
| `QueueIsLedgerClient` | `MQSpec => OnlyLedgerSteps` |
| `HandlerRunsOnce` | `MQSpec => HandlerOnceSpec`, the refinement of `HandlerOnce` |
| `FreedQuiet` | `MQSpec => []FreedRunIsQuiet` |
| `PausedQuiet` | `MQSpec => []PausedRunIsQuiet`, if `"resume" \notin Env` |
| `FailureKept` | `MQSpec => []FailureNotMasked` |
| `RunTakesItsTurn` | `MQSpec => RunInTurnSpec`, the refinement of `RunsInTurn` |

*Argument.* `QueueInv` (types, and what a worker's place says of its locals: it has a
job, it has an outcome to report) suffices to show that every step is a ledger step;
so `LedgerInv` is kept by the ledger's own lemmas and need not be proved again.
`AdmissionInv` adds what relates a worker to its job's row: between claim and exit the
row carries *its* claim; a body that was ever entered keeps its claim until the task
is completed (`EnteredInv`), so no redelivery is admitted; and a delivery that was
rejected as terminated may settle its task without a claim although its three
transactions are apart, because a terminated task is never admitted again
(`ClosedStep`, from the tombstone) and was unclaimed when it was read. `Row` names the
three things a step can do to a row (keep it, end it, admit its handler) and
`Undisturbed` shows that none of them disturbs another worker. The refinement then
goes step by step: `Enter`, `Exit` and a crash inside the body, the receipts, and steps
that the contract does not see.

Two more invariants stand on `AdmissionInv`. `HostInv` is what a run at rest says of its
family: every member is completed, or unclaimed and held back by the run's own intent
(`Still`), and the only step that could change that is a resume; this is why
`PausedQuiet` needs its assumption (section 6 says what happens without it) and
`FreedQuiet` does not. `MaskInv` says, of each place of a worker, what the task's row
already records, and of a job that is over before its receipt is, who still owes it
(`ReceiptPending`): a worker that succeeded, or a dead one. `RunTakesItsTurn` needs of
`HostInv` only that an ended run is idle: the step that ends it is a receipt for its own
task (`EndKeeps`), so what is idle after it was idle before.

### The thread (`ThreadRun_proofs`)

| Theorem | Statement |
|---|---|
| `ThreadTypeCorrect` | `TRSpec => []TRTypeOK` |
| `ThreadAgrees` | `TRSpec => []ThreadMatchesTask` |
| `IntentsNeverDisagree` | `TRSpec => []IntentsAgree` |
| `RunsDoNotOverlap` | `TRSpec => []NoOverlap` |
| `StatusKept` | `TRSpec => FinishStatusKept` |
| `RunsAreLedgerClient` | `TRSpec => OnlyLedgerSteps` |

*Argument.* Every step of the thread service is shown to be a ledger step first, so
`LedgerInv` comes for free. `RunInv` adds `Tree` (execution tasks are roots, and an
execution belongs to one task) and `Held`: the thread's control is empty with no open
execution task, or it names the one open task (`Owner`), with equal intents in both
ledgers unless the task was terminated (`Agreed`): then one of its executions was, which
need not be the current one. That alone is not inductive: whether a late callback, a resume in progress or
a maintenance pass may still write depends on where its caller stands. `Mode` ties the
control's state to the intent and to the driver of its execution, but for a termination,
which may come at any time; `Ticket` says what a resume request that still holds its
claim can rely on; `ToolsInv` keeps tools below the
thread's execution; `SweepInv` says that what maintenance has listed is never *running* again
but under a resume's claim. It may be *pausing* again, around a living graph, when it
was answered in an input wait: that is finding 1.

### What a run leaves behind (`ThreadFreed_proofs`)

| Theorem | Statement |
|---|---|
| `LiveGraphKept` | `TRSpec => LiveGraphNotFreed`, if `~({"pause", "input"} \subseteq Env)` |
| `FamiliesDoNotOverlap` | `TRSpec => []NoFamilyOverlap` |
| `PausedThreadQuiet` | `TRSpec => []PausedThreadIsQuiet`, if `"resume" \notin Env` |
| `RunsTakeTurns` | `TRSpec => RunsInTurnSpec`, the refinement of `RunsInTurn` |

*Argument.* Two invariants stand on `RunInv`. `LiveInv` is about graphs: the end of the
thread's graph is recorded only once its driver left it (`Unfinished`), so what maintenance
found drained has no graph when it is finished (`Drained`). The only way back into a
graph is an answered input checkpoint, and maintenance can hold an old answer about
it only if a pause was requested while the run waited for that input. The hypothesis excludes
exactly this; with both in `Env` the run `stale_finish` is the counterexample.

`FamilyInv` is about the child: below a task that rests, it is completed, or it is queued
and unclaimed under that task's own paused or terminated intent (`Quieted`), which refuses its claim. A task
rests (`Rests`) when it is completed, or when its thread is confirmed paused and nobody can
resume it; `finish()` and recovery have asked `settled()` before either, and no other
step brings a task to rest (`PlainFamily`). A child registers only below an execution
whose driver is in its graph, which no rest task's is. So whoever holds an admission
descends from the open task (`ClaimedBelow`). With resumes in `Env` a failed one pauses the thread
around an admitted child, as it does in `ManagedQueue` (section 6).

For `RunsTakeTurns`, `Orderly` says that at most one run is open and that only it works. A step
moves at most one task (`StepTouches`), and a step that writes the task ledger calls no
tool (`ToolsOrTasks`): so a run begins or ends while nothing works, and any other change of
what works is the open run's.

### Handoff messages (`HandoffRelay_proofs`)

| Theorem | Statement |
|---|---|
| `RelayTypeCorrect` | `RelaySpec => []RelayTypeOK` |
| `RelayIsLedgerClient` | `RelaySpec => OnlyLedgerSteps` |
| `WaitersAgree` | `RelaySpec => []AnswersAgree` |
| `CancellationTruthful` | `RelaySpec => []CanceledBeforeDispatch` |
| `ProcessorRunsOnce` | `RelaySpec => ProcessorOnceSpec`, the refinement of `HandlerOnce` |

*Argument.* As for the queue: `RelayInv` gives ledger steps, ledger steps give
`LedgerInv`. `CallInv` adds `SlotInv` (what a slot's place says of its message's row and
answer; in particular a slot holds the claim of the message's *job*) and `MessageInv`.
The message's own row carries no claim, so what keeps it from being processed after
it is completed is `Over`: it is terminated, or its job is completed, or its job's claim
was taken by a slot that is past the call. The three cases are the coordinator's
settlement, a late duplicate and a crash.

### Pipeline runs (`PipelineRun_proofs`, `PipelineLimits_proofs`)

| Theorem | Statement |
|---|---|
| `PipelineTypeCorrect` | `PipelineSpec => []PipelineTypeOK` |
| `DispatchedOnce` | `PipelineSpec => []DispatchedAtMostOnce` |
| `OutcomesTrue` | `PipelineSpec => []OutcomeIsTruth` |
| `CancelledQuiet` | `PipelineSpec => []CancelledRunIsQuiet` |
| `CapacityHeld` | `PipelineSpec => []CapacityRespected` |
| `ResourceAlone` | `PipelineSpec => []ResourceHeldOnce` |
| `PlannedAtOnce` | `PipelineSpec => []NothingLeftUnplanned` |

*Argument.* `RunInv == TypesInv /\ RowsInv /\ CurrentInv /\ WorkersInv`. `RowsInv` says what
a row can know of the effect (no dispatch mark, no effect; a recorded end is one);
`WorkersInv` says it of the answer a worker carries, which may be older than the row:
an end, once true, stays true, and what is not an end claims nothing. `OneSender` and
`sent = 0` at the call are kept because the mark is set once and a claim never returns
to it. `CurrentInv` is about planning: no node has two open operations and attempts are
numbered without gaps, so a pass writes only blank rows. The limits are a second
invariant on top: every step but a pass of the coordinator leaves *narrower* rows (none
occupies capacity or holds a resource that did not), and a pass adds at most as many
rows as are free; a running effect has an occupying row and holds its claim. `PlanInv`
says the converse: a pass starts all ready work or fills the capacity
(`PassLeavesNothing`), and between two passes nothing becomes ready and no capacity is
returned, except by an operation of an earlier round whose output was lost. For this a worker
that read *pending* must not hand back a row that has ended: it read the answer
after every recorded end, because whoever records one gives the lease up (`FreshAnswer`).

### Provider actions (`ProviderAction_proofs`)

| Theorem | Statement |
|---|---|
| `ActionTypeCorrect` | `ActionSpec => []ActionTypeOK` |
| `OverlapDeclared` | `ActionSpec => []OverlapIsDeclared` |
| `VerdictFounded` | `ActionSpec => []VerdictIsFounded` |
| `ReceiptsShown` | `ActionSpec => []ReceiptNotForgotten` |

*Argument.* `VerdictInv`: one action of the node is active (`OneActive`); a row that was never
sent has no dispatch mark and no grant, and a final one is founded (`RowInv`); and what a
worker that still holds its lease was told is founded, or its call has not begun
(`HeldInv`). An action at work has a grant, so it was begun: it is the active one, or the
provider declared it over. `ShownInv`: a worker that has synchronized the node
and still owns the lease has done so since the last receipt, because only the owner of a
lease stores a new one.

*Only model-checked:* the liveness properties. Every safety invariant and action property
of a passing run is a theorem; those that a listed fault breaks have that fault excluded
by a hypothesis on `Env` (`PausedQuiet`, `PausedThreadQuiet`, `LiveGraphKept`). Liveness
under fairness and `ENABLED` are out of reach of this prover, as are induction over data
and RECURSIVE operators; the models use none of the latter two.

## 6. Findings

`stale_finish` is a run whose property quotes a promise of the repository (`PROJECT.json`
"findings" has the quotation) and that TLC refutes:

1. Maintenance lists a stopping thread, checks and finishes in three transactions. If
   the run parks for input and is answered in between, `finish()` frees the thread
   around the running graph.

Not runs, but visible by changing `Env` or a property. In the thread and its queue:

* A failed resume puts the thread back to *paused* without asking whether the family is
  settled, although a job may have started meanwhile: `PausedRunIsQuiet` with `"resume"`
  in `Env`. This is why `PausedQuiet` and `PausedThreadQuiet` assume that there is none.
* The owner stages a checkpoint and then fails to persist its messages. Its status is
  dropped while a tool is open, and maintenance confirms the pause
  (`ConfirmedPauseIsPersisted`, defined in `ThreadRun`, does not hold).
* `pauseId` survives a resume, so a pause requested in a later input wait is answered
  with the consumed id and recorded nowhere (`AcceptedPauseIsRecorded` does not hold).
* A stop, or a pause, between claim and start of a resume leaves nobody who reports the
  end of the graph; the thread stays *terminating* (*pausing*) while its process lives:
  `StopConfirmed` with `"resume"` in `Env`.
* `finish()` of a *pausing* run without a saved checkpoint ends the run although
  queued attached jobs are still waiting below it (`service.ts:677-736`). They settle
  once the coordinator reaches them, and none of them has started.
* A pausing run with an undrained tool drops its owner's final status; maintenance
  shows *interrupted*. `FinishStatusKept` therefore leaves pausing runs out.
* After a bound resume attempt was released, its ledger keeps `graphEnded = false`. If a
  later owner of the same task is lost, `settleOrphan` never closes it (three
  executions; pause, resume, crash).
* A stop that names an execution which a resume has superseded
  (`cancel-conversation.handler.ts:89-109`) is refused by the thread, yet it terminates the
  task that both executions share: the thread shows *running* until the graph meets the
  guard of its next node and fails there (`TerminationObeyed`). A resume that fails
  before its graph begins cannot give the pause back then, because its release throws; the
  thread stays *running*, with a lease that its process renews, until the user stops the
  current execution or the process dies (`Undriven`). A thread that is paused, or waits for
  input, keeps that state too, until it is stopped: it can be neither resumed nor answered.

In the handoff relay:

* A coordinator scan that was slow (`task-control-coordinator.service.ts:65-71`) closes
  a cancelled message whose job has ended without the *Canceled before dispatch* answer
  that `settleUnstarted` would give; its waiter gets no answer. `Silent` names it. A
  statement that fails before the handler's `try` or in its `catch` has the same effect.
* Outbound messages are lost when the process dies after the answer is durable.
* Processors that wait for messages keep their slots; when all slots are so occupied,
  only the two-minute timeout ends the wait. `WaiterIsAnswered` needs the free slot.

In the pipeline:

* An operation of an earlier round may be closed without a pass of the coordinator: its
  execution was seen to end but collecting its output failed, so it kept its capacity
  as *unknown*; the next observation supersedes it and only a *first* confirmed end
  starts a pass. A node of the current round that waits for the capacity is then
  planned by the next command or settlement, or never. `NothingLeftUnplanned` excepts it
  as `LostOutput`.
* Planning counts nodes, reserving counts rows. When they differ the settlement that
  triggered the pass is rolled back with `RUN_CONCURRENCY_EXCEEDED` and repeated when
  its lease has run out.
* An operation that was claimed and whose dispatch was never marked stays *unknown*
  until the run is cancelled, because no later claim may dispatch it.
* `beginCancel` records that the cancellation was dispatched before `handler.cancel` is
  called (`pipeline-operation-runner.service.ts:92`, `97`). If that call throws, or its
  worker dies, nobody repeats it. A running execution ends all the same and is
  observed; but if the execution was never received either, every later inspection is
  *unknown* and the run stays *cancelling*. `CancellationCompletes` excepts exactly
  this, as `Unreached`.
* `claim()` supersedes a queued row that is not current. No such row exists, because every
  command that ends a round also drops its queued rows (the last conjunct of
  `PipelineTypeOK`).

In provider actions:

* A worker that dies between claim and begin leaves the action *unknown* for ever: it
  is never sent and can only be inspected, and the node accepts no other action until
  the provider answers for an action it never saw.
* The same holds of a grant that was consumed by a process that died before it created
  the execution.
* A grant that was prepared before its action was settled *succeeded* can be consumed
  afterwards (`pipeline-native-grant-target.ts:23`), when the node may have accepted the next
  action: their executions overlap, and the first one may fail although its action
  succeeded. An action that was declared *failed* consumes no further grant, but what it
  consumed before still runs. `OverlapIsDeclared` says that it takes such a word of the provider.
* A snapshot that is missing when an end is synchronized clears `projectionPending`
  (`pipeline-projection.service.ts:129-132`, `provider-actions.service.ts:108-111`): the node does
  not show the receipt and nothing fetches it again for this action. `shown` is
  *missing* then, and `ReceiptNotForgotten` counts it as fetched.

## 7. Not modelled, and the plan

Left out of the modelled components: the queue's path without task control,
repeatable jobs and metrics; inherited pauses (`ControlOwnedExecution`), graph
revisions and input nodes; the redis broadcast and the abort scope of a cancellation,
which abort earlier a graph that the guard of its next node stops anyway (what the
cancellation writes to the ledgers is `Terminate`); `admitContinuation`; lock order and statement-level
interleaving inside one transaction. One consequence: `finish()` asks `settled()`
before it locks the task root, and the models make it one step. Of the handoff: the
path of a message without task control (in which stop command and dispatcher meet in
memory only), routing, progress events and delays. Of the pipeline: routers, human
gates, external waits and policies, the run's time limit, the assistant bridge's intent,
and the projection of nodes of old rounds.

The models cover the run control and the pipeline's operations, a small part of the
repository by size. Most of the rest has no protocol of its own: the web application,
CRUD services and their DTOs, adapters of tools, middlewares and model providers, type
declarations. A model of it would restate assignments.

In order:

1. `Invocation`: start, cancel, late remote handle, wait lease; then continuations, which
   couple it to `HandoffRelay`.
2. `ThreadRun` as the host of `ManagedQueue`: a refinement mapping from `ctl`/`drv` to
   `host`/`code`, which replaces the abstract `HostNext` by the detailed module. `RunsInTurn`,
   which both implement, is the part of it that is done.
3. The pipeline's human gates and external waits.
4. Of the independent components, scheduled tasks and model admission.
