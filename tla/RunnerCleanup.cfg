SPECIFICATION LiveCleanupSpec
CONSTANTS
  Sandboxes = {s1}
  Later = {o1}
  Tokens = {t1, t2}
  None = None
  RegistrationDelete = TRUE
  MaxCleanupAttempts = 1
  MaxFaults = 1
  MaxRequests = 1
INVARIANTS
  CleanupTypeOK
  DestroyedMeansGone
PROPERTIES
  JobsSurvive
  RunnersEnd
CHECK_DEADLOCK FALSE
