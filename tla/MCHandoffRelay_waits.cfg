SPECIFICATION FairRelaySpec
CONSTANTS
  h1 = h1
  j1 = j1
  j2 = j2
  Run = r
  Task = {r, h1, h2, j1, j2}
  NoTask = NoTask
  Message = {h1, h2}
  JobOf <- Carrier
  Process = {s1, s2}
  Token = {s1, s2}
  NoProcess = NoProcess
  Host = s1
  NoToken = NoToken
  Attempt = {}
  NoAttempt = NoAttempt
  Mailed = {h1, h2, j1, j2}
  Handoff = {h1, h2}
  Senders <- Nested
  Env = {"paused", "terminated"}
PROPERTIES CancelledIsOver WaiterIsAnswered
CHECK_DEADLOCK FALSE
