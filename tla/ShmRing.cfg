SPECIFICATION Spec
CONSTANTS
  Producers = {p1}
  Consumers = {c1}
  BlockSize = 19
  SafeLen = 2
  SeqLen = 1
  LenLen = 2
  BodyLens = {1, 4, 11, 12}
  BuffSize = 19
  TornLens = {0, 127}
  WordSize = 128
  MaxMsgs = 4
INVARIANTS
  TypeOK
  MemorySafe
  UnreadIntact
  DequeueNeverFails
  CountersSettle
PROPERTIES
  RefusedOnlyWhenFull
  ChannelSpec
