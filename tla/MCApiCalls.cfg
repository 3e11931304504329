\* One object; ids of 4 bytes in a buffer of 16 bits; values of up to 4 symbols.
SPECIFICATION Spec
CONSTANTS
  IllTyped = IllTyped
  NotJson = NotJson
  KeywordsIn <- MCKeywordsIn
  ListReply <- MCListReply
  StatusReply <- MCStatusReply
  Value <- MCValue
  Byte = {90, 165}
  ByteCount = 4
  VersionByte = 2
  VariantByte = 3
  BufferModulus = 65536
INVARIANTS
  ApiTypeOK
  MessageIdFaithful
  EscapedSoFar
  ParameterArrives
  ListFaithful
  TypesReadBack
PROPERTIES
  PollKeepsType
