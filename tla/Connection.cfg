SPECIFICATION Spec
CONSTANTS
  Bytes <- AllBytes
  BuffSize = 8
  Junk = Junk
  Scenarios <- AllScenarios
  ReadSize = 8
  HeaderLen = 2
  IntMax = 31
  SizeMod = 128
  TornInt = 1
  MaxBytes = 31
INVARIANTS
  TypeOK
  CachesInside
  MessagesFramed
  RequestsWhole
  NothingHeldBack
  DatagramsMerged
  EndsOnlyWithPeer
PROPERTIES
  RequestStreamSpec
  ResponseStreamSpec
CHECK_DEADLOCK FALSE
