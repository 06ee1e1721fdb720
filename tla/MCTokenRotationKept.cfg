CONSTANTS
    Request = {r1}
    Scheduler = {}
    NoProc = NoProc
    MaxLogin = 1
    MaxRotation = 2
    MaxGeneration = 1
    Faults = {"write", "read"}
    Operator = {}
SPECIFICATION Spec
CHECK_DEADLOCK FALSE
INVARIANTS RotationKept
