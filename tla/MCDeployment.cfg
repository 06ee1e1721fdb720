SPECIFICATION Spec
CONSTANTS
    MaxDeployments = 2
    MaxRecycles = 1
    MaxFailures = 2
    MaxFaults = 2
CHECK_DEADLOCK FALSE
INVARIANTS SoleOwner DeployedStays
PROPERTIES CandidateServesCommitted HandoffCompletes
