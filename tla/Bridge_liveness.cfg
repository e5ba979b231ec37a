CONSTANTS
  Daemons <- MCDaemons
  Logd = "logd"
  DependsOn <- MCDependsOn
  Restartable <- MCDaemons
  MaxDaemonRestarts = 1
  Procs = {p1, p2}
  WireCap = 1
  MaxSurvivors = 1
  None = None
SPECIFICATION FairSpec
PROPERTIES FailureHandled LaunchResolved CrashNoticed
