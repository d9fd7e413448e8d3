SPECIFICATION RegistryLiveSpec
CONSTANTS
  Sandboxes = {s1, s2}
  Instances = {}
  Tokens = {t1, t2}
  None = None
  MaxActiveRunners = 2
  ActiveRunnerCleanupDelay = 1
  MaxBusyPostpone = 1
  CleanupClaimStale = 1
  CleanupRetryDelay = 1
  CallbackHandoffDelay = 1
  OrphanGrace = 3
  TerminalRetention = 3
  MaxCleanupAttempts = 1
  MaxCleanupConcurrency = 1
  PruneBatch = 1
  MaxNow = 2
  MaxLag = 0
  MaxRevision = 1
PROPERTY DueRowsAreClaimed
