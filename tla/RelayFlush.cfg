SPECIFICATION FairSpec
CONSTANTS
  c1 = c1
  c2 = c2
  Conns = {c1}
  None = None
  Pieces = 2
  MaxRequests <- TwoRequests
  Pipelining = TRUE
  MayLeave = {}
  RingCap = 2
  SndBuf = 1
  MaxEvents = 4
PROPERTIES
  FlushesResponses
CHECK_DEADLOCK FALSE
