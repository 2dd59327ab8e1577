CONSTANTS
    Gates = {g1, g2}
    Openers = {o1, o2}
    Nobody = Nobody
    MaxExecutors = 2
SPECIFICATION ManagerSpec
INVARIANT Inv
PROPERTIES PoisonSticks ManagerProgress
