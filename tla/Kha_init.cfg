CONSTANTS
  Procs = {p1, p2, p3}
  MaxBridgeRestarts = 1
  SndBuf = 1
  Pid1 = Pid1
  None = None
CHECK_DEADLOCK FALSE
SPECIFICATION FairGenerations
INVARIANTS TypeOK OneBridge NoBridgeLeft OrphansCounted BridgesBounded
PROPERTIES ZombiesReaped ShutdownHonoured BridgeRevived SocketKept OrphansSettle
