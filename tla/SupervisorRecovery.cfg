SPECIFICATION FairSpec
CONSTANTS
  s1 = s1
  s2 = s2
  j1 = j1
  j2 = j2
  Nobody = Nobody
  Sessions = {s1}
  SingleSession = FALSE
  Jobs = {}
  WakeIfStopped = {}
  ShutdownAfter = {}
  JobPeriod = 1
  DefaultMode = "on_demand"
  NewModes = {}
  IdleTimeout = 1
  StartupTimeout = 1
  Policy = "always"
  Window = 2
  Backoff = 0
  MaxRestarts = 2
  MaxCrashes = 0
PROPERTY OperationEnds
