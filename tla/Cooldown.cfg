CONSTANTS
    Plates = {p1, p2, p3}
    PlateWindow = 4
    GlobalWindow = 2
    Capacities = {1, 2}
    Skews = {0, 2}
    MaxTime = 7
    MaxRebuilds = 1
SPECIFICATION Spec
SYMMETRY Interchangeable
INVARIANTS TypeOK GlobalGap PlateGapInOrder
