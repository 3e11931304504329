\* Two signals, so that one handler may interrupt the other.
SPECIFICATION MainSpec
CONSTANTS
  i1 = i1
  i2 = i2
  d1 = d1
  d2 = d2
  d3 = d3
  NullDevice = NullDevice
  DeviceId <- MCDeviceId
  Device <- MCDevice
  IdOf <- MCIdOf
  EndpointModulus = 8
  MaxAdds = 3
  Signal = {"SIGINT", "SIGTERM"}
  DeviceLists <- MCDeviceLists
  MaxSignals = 2
INVARIANTS
  MainTypeOK
  EveryDeviceBridged
  OneLateCycle
  ExitOnlyOnRequest
  PollsArePaced
PROPERTIES
  ShutdownCompletes
  ServiceSpec
CHECK_DEADLOCK FALSE
