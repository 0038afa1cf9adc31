SPECIFICATION TaskSpec
CONSTANTS
  Task = {t1, t2, t3}
  NoTask = NoTask
  Token = {k1}
  NoToken = NoToken
  Attempt = {e1}
  NoAttempt = NoAttempt
  Mailed = {t1, t2, t3}
  Handoff = {t1, t2, t3}
SYMMETRY Symmetry
CONSTRAINT FamilyOrRows
INVARIANTS TypeOK LineageClosed CanceledNeverRan
PROPERTIES TerminationIsTombstone FamilySealed CompletionIsFinal
CHECK_DEADLOCK FALSE
