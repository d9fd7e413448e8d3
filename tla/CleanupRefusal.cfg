SPECIFICATION CleanupSpec
CONSTANTS
  Sandboxes = {s1}
  Later = {}
  Tokens = {t1, t2}
  None = None
  RegistrationDelete = TRUE
  MaxCleanupAttempts = 1
  MaxFaults = 1
  MaxRequests = 1
INVARIANT NoneSurvivesItsDestroy
CHECK_DEADLOCK FALSE
