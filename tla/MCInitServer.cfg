SPECIFICATION Spec
CONSTANTS
  sapValid = TRUE
  MaxQueue = 3
  MaxChanges = 3
  MaxRestarts = 2
INVARIANTS ServerReachesModem
CHECK_DEADLOCK FALSE
