SPECIFICATION AnsweredSpec
CONSTANTS
  Calls = {c1}
  Sessions = {1, 2, 3, 4}
  NoSession = 0
  Faults = {"alarm-failure"}
  MaxTries = 2
  MaxIntrusions = 1
INVARIANTS
  AnsweredStopStands
CHECK_DEADLOCK FALSE
