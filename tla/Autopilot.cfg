SPECIFICATION LiveSpec
CONSTANTS
  Ids = {i1, i2}
  Requests = {q1, q2}
  Permits = {p1, p2}
  Waves = {w1}
  Calls = {c1}
  None = None
  MaxActiveRunners = 1
  ReservationTTL = 1
  PermitTTL = 1
  RunnerHorizon = 2
  MaxNow = 2
  MaxGeneration = 2
INVARIANTS
  TypeOK
  PermitFundsOneStart
  LiveTimestampsConsistent
  AlarmCoversLiveReservations
  WithinMaxActiveRunners
PROPERTIES
  ConsumedOnlyInItsGeneration
  SlotEventuallyReturns
  AdmittedWithinApproval
  GrantsLeases
