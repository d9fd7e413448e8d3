SPECIFICATION AdmissionSpec
CONSTANTS
  Ids = {i1, i2}
  Requests = {q1}
  Permits = {p1, p2}
  Waves = {w1}
  Calls = {c1}
  PermitCalls = {g1, g2}
  None = None
  MaxActiveRunners = 2
  ReservationTTL = 2
  PermitTTL = 1
  RunnerHorizon = 2
  MaxNow = 2
  MaxGeneration = 0
  MaxEpoch = 2
SYMMETRY Symmetry
INVARIANTS
  OneValidPermitPerRequest
  PermitsEndAfterClose
  OneLiveReservationPerRequest
PROPERTIES
  ClosedGateDrainsStarts
  GateSignsAsAssumed
