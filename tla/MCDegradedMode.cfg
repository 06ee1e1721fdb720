CONSTANTS
    Key = {k1, k2}
    Account = {a1, a2}
    Request = {r1, r2}
    None = None
    RetryAfter = {2, 9}
    Quorum = 2
    MaxCohorts = 1
    EvidenceWindow = 2
    RecoveryWindow = 2
    ProbeLease = 2
    RetryMin = 1
    RetryFallback = 1
    RetryMax = 3
    MaxEpoch = 2
    MaxGeneration = 6
SPECIFICATION FairSpec
INVARIANTS OneProbeInFlight
PROPERTIES OnlyLatestProbeRecovers RetryAfterHonoured ProtectionKept ProbeSlotReleased
