CONSTANTS
    Publishers = {p1, p2}
    Capacity = 1
    MaxEvents = 3
    MaxAttempts = 2
    Retentions = {1, 2}
    MaxDays = 2
SPECIFICATION Spec
INVARIANTS
    TypeOK
    Accounted
    RetentionHolds
PROPERTIES
    ImplementsAuditTrail
    Progress
CHECK_DEADLOCK FALSE
