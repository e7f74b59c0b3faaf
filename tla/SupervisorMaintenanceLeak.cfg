SPECIFICATION Spec
CONSTANTS
  s1 = s1
  s2 = s2
  j1 = j1
  j2 = j2
  Nobody = Nobody
  Sessions = {s1}
  SingleSession = FALSE
  Jobs = {j1}
  WakeIfStopped = {j1}
  ShutdownAfter = {j1}
  JobPeriod = 1
  DefaultMode = "on_demand"
  NewModes = {}
  IdleTimeout = 1
  StartupTimeout = 0
  Policy = "never"
  Window = 2
  Backoff = 1
  MaxRestarts = 1
  MaxCrashes = 0
INVARIANT MaintenanceReleased
