SPECIFICATION FairTRSpec
CONSTANTS
  Kid = kid
  Task = {e1,e2, kid}
  NoTask = NoTask
  Token = {k}
  NoToken = NoToken
  Attempt = {e1,e2}
  NoAttempt = NoAttempt
  Mailed = {}
  Handoff = {}
  Env = {"pause", "resume", "input", "cancel", "tool", "crash", "expire"}
INVARIANTS TRTypeOK ThreadMatchesTask IntentsAgree NoOverlap
PROPERTIES FinishStatusKept TerminationObeyed
CHECK_DEADLOCK FALSE
