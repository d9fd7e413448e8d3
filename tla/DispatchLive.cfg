SPECIFICATION LiveDispatchSpec
CONSTANTS
  Requests = {}
  Surplus = {1}
  Messages = {}
  MaxRedeliveries = 0
  MaxLeases = 1
  MaxEvictions = 1
  MaxDrains = 0
PROPERTIES
  RequestsAreDecided
  CapacityReturns
CHECK_DEADLOCK FALSE
