CONSTANTS
    Request = {r1}
    Scheduler = {s}
    NoProc = NoProc
    MaxLogin = 2
    MaxRotation = 2
    MaxGeneration = 2
    Faults = {"write", "ambiguous", "read", "wal", "response", "revoke", "crash"}
    Operator = {"reauth", "remove", "clear"}
SPECIFICATION Spec
CHECK_DEADLOCK FALSE
INVARIANTS NoDoubleExchange
PROPERTIES QuarantineJustified FileMatchesOutbox RowNeverRegresses
