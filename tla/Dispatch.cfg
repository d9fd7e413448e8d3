SPECIFICATION DispatchSpec
CONSTANTS
  Requests = {1}
  Surplus = {}
  Messages = {1, 2}
  MaxRedeliveries = 1
  MaxLeases = 2
  MaxEvictions = 1
  MaxDrains = 1
INVARIANTS
  DispatchTypeOK
  OneDeliveryPerReservation
  ConsumedLeaseIsTracked
  StartedMeansRecorded
  GrantedHasRow
PROPERTIES
  NoStartOnceEnded
  ChainKeepsItsRow
CHECK_DEADLOCK FALSE
