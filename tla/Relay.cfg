SPECIFICATION Spec
CONSTANTS
  c1 = c1
  c2 = c2
  Conns = {c1, c2}
  None = None
  Pieces = 2
  MaxRequests <- TwoAndOne
  Pipelining = TRUE
  MayLeave = {c1}
  RingCap = 1
  SndBuf = 1
  MaxEvents = 2
INVARIANTS
  TypeOK
  Accounted
  InOrder
  InputNoticed
  ClosedOnlyAfterClient
  SlotsMatch
CHECK_DEADLOCK FALSE
