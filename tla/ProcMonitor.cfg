SPECIFICATION Spec
CONSTANTS
  Pids = {p1, p2}
  MinProc <- OneProc
  MaxProc <- OneProc
  MaxQueue = 3
  HeartbeatEvery = 1
  DeadAfter = 4
  LoopTime = 1
  StartTime = 1
  CycleTime = 2
  FaultKinds = {"crash", "hang", "byHand", "quit", "ctlCrash"}
  MaxFaults = 2
  MaxStarts = 2
SYMMETRY PidSymmetry
INVARIANTS
  TypeOK
PROPERTIES
  OnlySilentKilled
CHECK_DEADLOCK FALSE
