SPECIFICATION Spec
CONSTANTS
  c1 = c1
  c2 = c2
  Conns = {c1, c2}
  None = None
  Pieces = 1
  MaxRequests <- OneRequest
  Pipelining = TRUE
  MayLeave = {c1, c2}
  RingCap = 2
  SndBuf = 1
  MaxEvents = 4
INVARIANTS
  OwnResponses
CHECK_DEADLOCK FALSE
