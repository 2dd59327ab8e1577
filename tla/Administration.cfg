CONSTANTS
    c1 = c1
    c2 = c2
    g1 = g1
    x1 = x1
    x2 = x2
    v1 = v1
    v2 = v2
    q1 = q1
    q2 = q2
    AdminRequests = {q1, q2}
    Cameras = {c1, c2}
    Gates = {g1}
    Rules = {x1, x2}
    Values = {v1, v2}
    Settings = settings
    MaxActive = 1
    Nowhere = nowhere
SPECIFICATION AdminSpec
INVARIANTS AdminTypeOK AgreeInTurn CheckedInTurn
SYMMETRY Interchangeable
