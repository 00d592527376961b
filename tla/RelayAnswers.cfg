SPECIFICATION FairSpec
CONSTANTS
  c1 = c1
  c2 = c2
  Conns = {c1, c2}
  None = None
  Pieces = 2
  MaxRequests <- TwoRequests
  Pipelining = FALSE
  MayLeave = {}
  RingCap = 2
  SndBuf = 1
  MaxEvents = 4
PROPERTIES
  Answered
CHECK_DEADLOCK FALSE
