SPECIFICATION MQSpec
CONSTANTS
  Run = r
  Task = {r, a}
  NoTask = NoTask
  Worker = {w1, w2}
  Token = {w1, w2}
  NoToken = NoToken
  Attempt = {}
  NoAttempt = NoAttempt
  Mailed = {a}
  Handoff = {}
  Env = {"stall", "crash", "database", "cancel", "relay"}
SYMMETRY Symmetry
INVARIANTS FailureNotMasked PausedRunIsQuiet
PROPERTIES HandlerOnceSpec
CHECK_DEADLOCK FALSE
