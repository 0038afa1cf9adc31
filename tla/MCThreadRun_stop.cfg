SPECIFICATION FairTRSpec
CONSTANTS
  Kid = kid
  Task = {e1,e2, kid}
  NoTask = NoTask
  Token = {k}
  NoToken = NoToken
  Attempt = {e1,e2}
  NoAttempt = NoAttempt
  Mailed = {}
  Handoff = {}
  Env = {"pause", "cancel", "tool", "kid", "crash"}
PROPERTIES StopConfirmed PauseSettled LiveGraphNotFreed
CHECK_DEADLOCK FALSE
