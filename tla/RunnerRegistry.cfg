SPECIFICATION RegistrySpec
CONSTANTS
  Sandboxes = {s1}
  Instances = {g1}
  Tokens = {t1, t2}
  None = None
  MaxActiveRunners = 1
  ActiveRunnerCleanupDelay = 2
  MaxBusyPostpone = 2
  CleanupClaimStale = 2
  CleanupRetryDelay = 2
  CallbackHandoffDelay = 1
  OrphanGrace = 2
  TerminalRetention = 2
  MaxCleanupAttempts = 1
  MaxCleanupConcurrency = 1
  PruneBatch = 1
  MaxNow = 4
  MaxLag = 1
  MaxRevision = 2
SYMMETRY Symmetry
INVARIANTS
  RegistryTypeOK
  RowsWellFormed
  AlarmCoversTables
PROPERTY RunnerLeaseIsExclusive
