SPECIFICATION FairSpec
CONSTANTS
  Pids = {p1, p2, p3}
  MinProc <- OneWorker
  MaxProc <- TwoWorkers
  MaxQueue = 4
  HeartbeatEvery = 1
  DeadAfter = 4
  LoopTime = 0
  StartTime = 1
  CycleTime = 1
  FaultKinds = {"crash", "hang", "byHand"}
  MaxFaults = 1
  MaxStarts = 1
PROPERTIES
  Converges
CHECK_DEADLOCK FALSE
