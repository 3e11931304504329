\* Two devices with fractional temperatures on one handle.
SPECIFICATION Spec
CONSTANTS
  ac = ac
  wm = wm
  rf = rf
  DeviceId <- MCDeviceId
  TypeOf <- MCTypeOf
  Settings <- MCSettings
  Temperature <- MCTemperature
INVARIANTS
  ClientTypeOK
  RequestPrepared
  CacheFollowsAppliance
  StatusIsOwn
PROPERTIES
  FailedCallChangesNothing
CHECK_DEADLOCK FALSE
