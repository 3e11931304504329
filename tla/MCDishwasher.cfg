\* As MCApiCalls: the text DISHWASHER contains WASHER.
SPECIFICATION Spec
CONSTANTS
  IllTyped = IllTyped
  NotJson = NotJson
  KeywordsIn <- MCKeywordsIn
  ListReply <- MCListReply
  StatusReply <- MCStatusReply
  Value <- MCValue
  Byte = {90, 165}
  ByteCount = 4
  VersionByte = 2
  VariantByte = 3
  BufferModulus = 65536
INVARIANT
  DishwasherReadBack
