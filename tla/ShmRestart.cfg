SPECIFICATION RestartSpec
CONSTANTS
  Producers = {p1}
  Consumers = {c1}
  BlockSize = 11
  SafeLen = 2
  SeqLen = 1
  LenLen = 2
  BodyLens = {0, 2}
  BuffSize = 11
  TornLens = {0, 31}
  WordSize = 32
  MaxMsgs = 3
  MaxCrashes = 2
VIEW RestartView
INVARIANTS
  RestartTypeOK
  MemorySafe
