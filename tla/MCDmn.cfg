SPECIFICATION FairSpec
CONSTANTS
  gpsone = gpsone
  quipc = quipc
  Daemon <- TwoDaemons
  GpsOne = gpsone
  ServerPipe = ServerPipe
  Room = 1
  MaxFrames = 2
INVARIANTS TypeOK PipesSound
PROPERTIES NobodyWaits
CHECK_DEADLOCK FALSE
