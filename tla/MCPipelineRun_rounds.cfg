SPECIFICATION PipelineSpec
CONSTANTS
  first = n1
  second = n2
  Node = {n1, n2}
  Needs <- Chain
  Exclusive = {}
  Bridge = {n2}
  Worker = {w1, w2}
  NoWorker = NoWorker
  MaxRound = 2
  MaxAttempt = 2
  Capacity = 1
  Faults = 1
  Env = {"cancel", "next", "retry", "await"}
SYMMETRY WorkerSymmetry
INVARIANTS PipelineTypeOK DispatchedAtMostOnce CapacityRespected OutcomeIsTruth CancelledRunIsQuiet NothingLeftUnplanned
CHECK_DEADLOCK FALSE
