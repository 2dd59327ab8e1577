CONSTANTS
    Requests = {r1, r2}
    Cameras = {k1}
    MaxSettings = 2
    MaxWorkers = 3
SPECIFICATION Spec
INVARIANTS Inv CamerasServed
PROPERTY RequestsEnd
CHECK_DEADLOCK FALSE
