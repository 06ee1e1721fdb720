SPECIFICATION Spec
CONSTANTS
    Server = {s1, s2}
    Selections = 2
    Lease = 4
    Beat = 1
    MaxDelay = 1
    MaxStops = 1
    MaxErrors = 1
CHECK_DEADLOCK FALSE
INVARIANTS AccountNotOrphaned
PROPERTIES ImplementsJob AuthorizationNotStolen JobSettles
