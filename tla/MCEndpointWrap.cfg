\* Endpoint ids of 2 bits: the fourth successful add wraps the counter.
SPECIFICATION BridgeSpec
CONSTANTS
  i1 = i1
  i2 = i2
  d1 = d1
  d2 = d2
  d3 = d3
  NullDevice = NullDevice
  DeviceId <- MCDeviceId
  Device <- MCDevice
  IdOf <- MCIdOf
  EndpointModulus = 4
  MaxAdds = 5
INVARIANTS
  BridgeEndpointReserved
CHECK_DEADLOCK FALSE
