\* A command and then a poll.
SPECIFICATION Spec
CONSTANTS
  ac = ac
  wm = wm
  rf = rf
  DeviceId <- SwitchDeviceId
  TypeOf <- SwitchTypeOf
  Settings <- SwitchSettings
  Temperature <- MCTemperature
INVARIANTS
  GetsAreGets
CHECK_DEADLOCK FALSE
