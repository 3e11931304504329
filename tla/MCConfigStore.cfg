\* One save and one program at a time, any number of times.
SPECIFICATION Spec
CONSTANTS
  IllTyped = IllTyped
  Config <- MCConfig
  Text <- MCText
  Int32Max = 2147483647
  UInt32Max = 2147483647
INVARIANTS
  ConfigTypeOK
  SaveThenLoad
  UnreadableExplained
  CredentialsAccepted
PROPERTIES
  LoadsLatestText
CHECK_DEADLOCK FALSE
