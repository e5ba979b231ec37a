CONSTANTS
  Daemons <- MCDaemons
  Logd = "logd"
  DependsOn <- MCDependsOn
  Restartable <- MCDaemons
  MaxDaemonRestarts = 1
  Procs = {p1, p2}
  WireCap = 1
  MaxSurvivors = 0
  None = None
SPECIFICATION FairSpec
PROPERTY SuperviseAll
