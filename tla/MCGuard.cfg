SPECIFICATION Spec
CONSTANTS
    a = a
    b = b
    c = c
    Request <- MCRequest
    Limited <- MCLimited
    Weight <- MCWeight
    MaxActive = 1
    MaxQueue = 2
    MaxReaders = 2
    MaxBytes = 2
    MaxRecoveryWaits = 1
    MaxAttempts = 2
    MaxRecycles = 2
CHECK_DEADLOCK FALSE
INVARIANTS LimitsExact NoReplayOnReplacement RecycleDrained
PROPERTIES RequestsSettle
