CONSTANTS
    Request = {r1, r2, r3, r4}
    Budget = 5
    QueueLimit = 2
    Multiplier = 2
    MaxBody = 2
SPECIFICATION FairSpec
CHECK_DEADLOCK FALSE
INVARIANTS BudgetExact
PROPERTIES NoOvertaking WaitersSettle
