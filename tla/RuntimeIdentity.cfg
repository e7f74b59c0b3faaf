SPECIFICATION Spec
CONSTANTS
    Pids = {p1, p2}
    None = None
    MaxBirths = 3
    MaxCrashes = 1
    MaxLeaked = 1
INVARIANTS
    OneRuntime
    TerminalIsCurrent
PROPERTIES
    FailsClosed
    StopEnds
CHECK_DEADLOCK FALSE
