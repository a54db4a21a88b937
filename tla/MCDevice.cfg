SPECIFICATION DeviceSpec
CONSTANTS
  binder1 = binder1
  binder2 = binder2
  Thread <- Threads
  State <- States
  Flaky <- Flakies
  Nobody = Nobody
  NoDevice = NoDevice
  a = a
  b = b
  NumCameras = 2
  Str <- Strs
  Null = Null
  Unset = Unset
CONSTRAINT DefaultsWhenOverlapped
INVARIANTS LightsTypeOK ShowsMostImportant TypeOK StringsAreSound SceneReadBack
CHECK_DEADLOCK FALSE
