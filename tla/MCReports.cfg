SPECIFICATION ReportsSpec
CONSTANTS
  eng = eng
  geofence = geofence
  ext = ext
  position = position
  request = request
  sv = sv
  Adapter <- Adapters
  NULL = NULL
  MAX_ADAPTERS = 2
  Event <- Events
  MaskOf <- Masks
  Handler <- Handlers
  Excluded <- Excludes
  MaxChanges = 5
  MaxRestarts = 2
  MaxViewed = 7
  SvReport <- Reports
INVARIANTS TypeOK RegistrationBounded DeliveredOnce NmeaTypeOK PagesCarryAll DopMatchesSatellites
CHECK_DEADLOCK FALSE
