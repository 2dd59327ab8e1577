CONSTANTS
    MaxEvents = 3
    Retentions = {2, 4}
    Interval = 2
    MaxTime = 8
SPECIFICATION Spec
INVARIANTS Inv Bounded
PROPERTY Kept
CHECK_DEADLOCK FALSE
