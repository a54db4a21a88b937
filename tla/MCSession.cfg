SPECIFICATION Spec
CONSTANTS
  almanac = almanac
  ephemeris = ephemeris
  Aiding <- AidingKinds
  MaxQueue = 2
  MaxRestarts = 1
  MaxDeletes = 1
INVARIANTS TypeOK NavigatingIsTold FixMatchesSession CleanupStops
PROPERTIES DeletesOnlyWhenOff MuteLasts
