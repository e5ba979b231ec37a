CONSTANTS
  Procs = {p1, p2}
  MaxBridgeRestarts = 2
  SndBuf = 1
  Pid1 = Pid1
  None = None
CHECK_DEADLOCK FALSE
SPECIFICATION FairSpec
PROPERTY MetricsHeard
