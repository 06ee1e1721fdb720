SPECIFICATION Spec
CONSTANTS
    Request = {r1, r2, r3}
    ResetDelay = {0, 3}
    OverloadCooldown = 1
    OverloadCap = 2
    BackoffBase = 1
    BackoffMax = 2
    MaxCooldown = 2
    MatureStreak = 1
    ProbeLease = 1
    Stability = 1
    QueueCap = 1
    MaxTime = 3
SYMMETRY Interchangeable
CHECK_DEADLOCK FALSE
PROPERTIES AcknowledgedIsDurable HoldsNeverShorten
