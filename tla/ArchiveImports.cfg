SPECIFICATION Spec
CONSTANTS
    Processes = {p1, p2}
    Ids = {a, b}
    Contents = {x, y}
    RightsSets <- MCRightsSets
    None = None
    MaxCrashes = 1
INVARIANTS
    ExclusiveWriter
    PublishedVerifies
PROPERTIES
    BundleKept
    WorkEnds
CHECK_DEADLOCK FALSE
