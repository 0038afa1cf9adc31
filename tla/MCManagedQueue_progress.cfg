SPECIFICATION FairMQSpec
CONSTANTS
  Run = r
  Task = {r, a}
  NoTask = NoTask
  Worker = {w1}
  Token = {w1}
  NoToken = NoToken
  Attempt = {}
  NoAttempt = NoAttempt
  Mailed = {a}
  Handoff = {}
  Env = {"relay", "stall", "cancel", "resume", "crash", "database", "host"}
PROPERTIES TerminatedRunEnds PauseConfirmed PublishedJobRuns
CHECK_DEADLOCK FALSE
