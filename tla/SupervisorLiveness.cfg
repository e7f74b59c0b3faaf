SPECIFICATION FairSpec
CONSTANTS
  s1 = s1
  s2 = s2
  j1 = j1
  j2 = j2
  Nobody = Nobody
  Sessions = {s1}
  SingleSession = FALSE
  Jobs = {}
  WakeIfStopped = {}
  ShutdownAfter = {}
  JobPeriod = 1
  DefaultMode = "always_on"
  NewModes = {"on_demand"}
  IdleTimeout = 1
  StartupTimeout = 0
  Policy = "always"
  Window = 1
  Backoff = 1
  MaxRestarts = 1
  MaxCrashes = 1
PROPERTY IdleStops
PROPERTY AlwaysOnRetried
