CONSTANTS
    Cameras = {k1, k2}
    Requests = {r1, r2}
    MaxActive = 1
    MaxWorkers = 2
SPECIFICATION Spec
INVARIANTS
    Inv
    ConnectedMeansLive
    FreshFrame
    AuditFollows
SYMMETRY Interchangeable
CHECK_DEADLOCK FALSE
