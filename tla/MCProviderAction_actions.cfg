SPECIFICATION ActionSpec
CONSTANTS
  Action = {a1, a2}
  Worker = {w1, w2}
  NoWorker = NoWorker
  Call = {k1}
  Faults = 1
INVARIANTS OverlapIsDeclared VerdictIsFounded ReceiptNotForgotten
SYMMETRY NodeSymmetry
CHECK_DEADLOCK FALSE
