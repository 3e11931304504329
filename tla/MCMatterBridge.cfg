\* Endpoint ids of 3 bits, and as many successful adds as there are endpoints:
\* the last one wraps the counter to 0, which is never issued.
SPECIFICATION BridgeSpec
CONSTANTS
  i1 = i1
  i2 = i2
  d1 = d1
  d2 = d2
  d3 = d3
  NullDevice = NullDevice
  DeviceId <- MCDeviceId
  Device <- MCDevice
  IdOf <- MCIdOf
  EndpointModulus = 8
  MaxAdds = 7
INVARIANTS
  BridgeTypeOK
  MapsAgree
  LifecycleOrder
  SyncReachesEveryDevice
PROPERTIES
  RegistrySpec
CHECK_DEADLOCK FALSE
