SPECIFICATION TRSpec
CONSTANTS
  Kid = kid
  Task = {e1, kid}
  NoTask = NoTask
  Token = {k}
  NoToken = NoToken
  Attempt = {e1}
  NoAttempt = NoAttempt
  Mailed = {}
  Handoff = {}
  Env = {"pause", "input"}
PROPERTY LiveGraphNotFreed
CHECK_DEADLOCK FALSE
