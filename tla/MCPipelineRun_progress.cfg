SPECIFICATION FairPipelineSpec
CONSTANTS
  first = n1
  second = n2
  Node = {n1, n2}
  Needs <- Parallel
  Exclusive = {n1, n2}
  Bridge = {n2}
  Worker = {w1, w2}
  NoWorker = NoWorker
  MaxRound = 1
  MaxAttempt = 1
  Capacity = 2
  Faults = 1
  Env = {"cancel"}
INVARIANTS ResourceHeldOnce
PROPERTIES CancellationCompletes EndIsObserved
CHECK_DEADLOCK FALSE
