SPECIFICATION FairSpec
CONSTANTS
  f1 = f1
  f2 = f2
  MaxRequests = 2
  MaxRestarts = 1
  Response <- UserResponses
  Caller <- Callers
INVARIANTS TypeOK DataAccounted ConsentUnlessExposed
PROPERTIES RequestEnds
CHECK_DEADLOCK FALSE
