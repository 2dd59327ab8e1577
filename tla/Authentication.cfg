CONSTANTS
    Requests = {r1, r2}
    Keys = {k1, k2, k3}
    MaxAttempts = 2
    LockTicks = 1
    MaxKeys = 2
    SessionTicks = 1
    MaxTime = 3
    MaxTokens = 3
SPECIFICATION Spec
SYMMETRY Interchangeable
INVARIANTS TypeOK SessionsAccounted LockHolds GuessesBounded
