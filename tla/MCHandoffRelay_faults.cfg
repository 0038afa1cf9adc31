SPECIFICATION RelaySpec
CONSTANTS
  h1 = h1
  j1 = j1
  j2 = j2
  Run = r
  Task = {r, h1, j1}
  NoTask = NoTask
  Message = {h1}
  JobOf <- Carrier
  Process = {s1, s2}
  Token = {s1, s2}
  NoProcess = NoProcess
  Host = s1
  NoToken = NoToken
  Attempt = {}
  NoAttempt = NoAttempt
  Mailed = {h1, j1}
  Handoff = {h1}
  Senders <- Nested
  Env = {"stop", "paused", "running", "terminated", "crash", "stall", "database", "timeout", "slowscan"}
INVARIANTS AnswersAgree CanceledBeforeDispatch
PROPERTIES ProcessorOnceSpec
CHECK_DEADLOCK FALSE
