\* A command whose answer is lost, and then a poll.
SPECIFICATION Spec
CONSTANTS
  ac = ac
  wm = wm
  rf = rf
  DeviceId <- SwitchDeviceId
  TypeOf <- SwitchTypeOf
  Settings <- SwitchSettings
  Temperature <- MCTemperature
INVARIANTS
  PollRefreshesCache
CHECK_DEADLOCK FALSE
