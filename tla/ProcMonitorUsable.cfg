SPECIFICATION Spec
CONSTANTS
  Pids = {p1, p2}
  MinProc <- OneProc
  MaxProc <- OneProc
  MaxQueue = 3
  HeartbeatEvery = 1
  DeadAfter = 4
  LoopTime = 1
  StartTime = 1
  CycleTime = 2
  FaultKinds = {"crash", "byHand"}
  MaxFaults = 2
  MaxStarts = 1
PROPERTIES
  UsableKept
CHECK_DEADLOCK FALSE
