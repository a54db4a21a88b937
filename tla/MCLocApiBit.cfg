SPECIFICATION Spec
CONSTANTS
  eng = eng
  geofence = geofence
  ext = ext
  position = position
  request = request
  sv = sv
  Adapter <- Adapters
  NULL = NULL
  MAX_ADAPTERS = 2
  Event <- Events
  MaskOf <- Masks
  Handler <- Handlers
  Excluded <- Excludes
  MaxChanges = 5
  MaxRestarts = 2
INVARIANTS BitIsRemoved
CHECK_DEADLOCK FALSE
