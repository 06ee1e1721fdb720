SPECIFICATION Spec
CONSTANTS
    a = a
    b = b
    Request <- MCRequest
    Kind <- MCKind
    Native = native
    Preference = {native, auto}
    Role = {standard}
    Target = {1, 2}
    Candidates <- MCCandidates
    Attempts = 2
    Capacity = 2
    MaxIncarnations = 2
    MaxFaults = 1
    MaxPauses = 1
CHECK_DEADLOCK FALSE
INVARIANTS SingleFlight
PROPERTIES FenceKept HomeJustified LatestIntentWins OutcomeSettles
