CONSTANTS
    c1 = c1
    c2 = c2
    p1 = p1
    p2 = p2
    Cameras = {c1, c2}
    Plates = {p1, p2}
    Unreadable = unreadable
    Views <- TwoViews
    Sites <- TwoSites
    MaxIdle = 1
    Required = 2
    Window = 2
    MaxObservations = 2
    MaxDetections = 2
    MaxTime = 3
    MaxIds = 3
SPECIFICATION RecognitionSpec
INVARIANTS RecognitionTypeOK Voted OncePerStay
CHECK_DEADLOCK FALSE
