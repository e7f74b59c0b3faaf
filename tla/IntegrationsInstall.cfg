SPECIFICATION Spec
CONSTANTS
    Installers = {p1, p2}
    Releases = {r1, r2, r3}
    Development = {r1, r2}
    DirItems = {data}
    FileItems = {ini}
    None = None
    MaxCrashes = 1
SYMMETRY Symmetric
INVARIANTS
    CurrentInstalled
    PointersApproved
PROPERTIES
    LivingDataKept
CHECK_DEADLOCK FALSE
