CONSTANTS
    g1 = g1
    g2 = g2
    r1 = r1
    r2 = r2
    Gates = {g1, g2}
    Rules = {r1, r2}
    Here = here
    Anywhere = anywhere
    Car = car
    Stranger = stranger
    Nothing = nothing
    None = none
    Week = 3
    Day = 3
    Plans <- Overnight
    Terms <- FromTuesday
    Moments <- Evening
    MaxPlates = 2
    MaxEdits = 1
SPECIFICATION Spec
INVARIANTS TypeOK Justified Audited WindowsAsWritten
SYMMETRY Interchangeable
CHECK_DEADLOCK FALSE
