CONSTANTS
  Daemons <- MCDaemons
  Logd = "logd"
  DependsOn <- MCDependsOn
  Restartable <- MCDaemons
  MaxDaemonRestarts = 1
  Procs = {p1, p2, p3}
  WireCap = 1
  MaxSurvivors = 1
  None = None
SPECIFICATION Spec
SYMMETRY ProcSymmetry
INVARIANT TypeOK
INVARIANTS RestartCeiling DependencyOrder TransientOwned RunningHasSession ListedPid
PROPERTIES GiveUpIsFinal KeepsPromise
