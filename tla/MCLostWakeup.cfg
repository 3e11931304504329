\* One signal between the predicate and the wait.
SPECIFICATION MainSpec
CONSTANTS
  i1 = i1
  i2 = i2
  d1 = d1
  d2 = d2
  d3 = d3
  NullDevice = NullDevice
  DeviceId <- MCDeviceId
  Device <- MCDevice
  IdOf <- MCIdOf
  EndpointModulus = 8
  MaxAdds = 3
  Signal = {"SIGINT", "SIGTERM"}
  DeviceLists <- MCDeviceLists
  MaxSignals = 1
INVARIANTS
  ShutdownEndsWait
CHECK_DEADLOCK FALSE
