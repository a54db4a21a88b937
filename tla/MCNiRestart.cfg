SPECIFICATION Spec
CONSTANTS
  f1 = f1
  f2 = f2
  MaxRequests = 1
  MaxRestarts = 1
  Response <- AcceptOnly
  Caller <- Callers
INVARIANTS SendsLiveData
CHECK_DEADLOCK FALSE
