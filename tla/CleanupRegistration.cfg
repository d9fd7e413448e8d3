SPECIFICATION CleanupSpec
CONSTANTS
  Sandboxes = {s1}
  Later = {o1}
  Tokens = {t1, t2}
  None = None
  RegistrationDelete = TRUE
  MaxCleanupAttempts = 1
  MaxFaults = 1
  MaxRequests = 1
PROPERTY LaterRegistrationKept
CHECK_DEADLOCK FALSE
