CONSTANTS
    Key = {k1, k2, k3}
    FailureThreshold = 2
    OpenCooldown = 2
    HalfOpenBackoffMax = 3
    ProbeTtl = 2
    MaxTrackedKeys = 2
    Enabled = TRUE
SPECIFICATION FairSpec
INVARIANTS NoOverlappingProbes
PROPERTIES BackoffKept NotWedged
