SPECIFICATION Spec
CONSTANTS
  sapValid = TRUE
  MaxQueue = 3
  MaxChanges = 3
  MaxRestarts = 2
INVARIANTS TypeOK ConfigReachesModem AvailabilityKnown
CHECK_DEADLOCK FALSE
