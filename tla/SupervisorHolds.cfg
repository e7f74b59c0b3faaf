SPECIFICATION Spec
CONSTANTS
  s1 = s1
  s2 = s2
  j1 = j1
  j2 = j2
  Nobody = Nobody
  Sessions = {s1, s2}
  SingleSession = FALSE
  Jobs = {}
  WakeIfStopped = {}
  ShutdownAfter = {}
  JobPeriod = 1
  DefaultMode = "on_demand"
  NewModes = {"always_on", "on_demand"}
  IdleTimeout = 1
  StartupTimeout = 0
  Policy = "on_failure"
  Window = 2
  Backoff = 1
  MaxRestarts = 1
  MaxCrashes = 1
SYMMETRY SessionSymmetry
INVARIANT SessionHolds
INVARIANT IdleMeansUnused
INVARIANT RecoveryAccountSaved
PROPERTY NoStopWhileHeld
PROPERTY ExhaustedStaysDown
PROPERTY ReconcileSettles
