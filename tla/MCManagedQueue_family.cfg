SPECIFICATION MQSpec
CONSTANTS
  Run = r
  Task = {r, a, b}
  NoTask = NoTask
  Worker = {w1}
  Token = {w1}
  NoToken = NoToken
  Attempt = {}
  NoAttempt = NoAttempt
  Mailed = {a, b}
  Handoff = {}
  Env = {"resume", "host", "detach"}
SYMMETRY Symmetry
INVARIANTS FreedRunIsQuiet
PROPERTIES OnlyLedgerSteps
CHECK_DEADLOCK FALSE
