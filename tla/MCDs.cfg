SPECIFICATION FairSpec
CONSTANTS
  c1 = c1
  c2 = c2
  NoHandle = NoHandle
  Client <- TwoClients
  MAX_START_DATA_CALL_RETRIES = 2
  MaxRequests = 3
  MaxRestarts = 1
INVARIANTS TypeOK CallConsistent
PROPERTIES StartsFromDown RetriesEnd
CHECK_DEADLOCK FALSE
