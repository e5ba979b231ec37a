CONSTANTS
  Daemons <- MCDaemons
  Logd = "logd"
  DependsOn <- MCDependsOn
  Restartable <- MCDaemons
  MaxDaemonRestarts = 2
  Procs = {p1, p2, p3}
  WireCap = 1
  MaxSurvivors = 0
  None = None
SPECIFICATION Spec
SYMMETRY ProcSymmetry
PROPERTY RestartOnlyFailed
