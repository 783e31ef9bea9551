SPECIFICATION Spec
CONSTANTS
    p1 = p1
    p2 = p2
    Polls = {p1, p2}
    FailureLimit = 5
    MaxRows = 3
INVARIANTS
    IInv
    OverIsNearlyExact
PROPERTIES
    PollingStops
CHECK_DEADLOCK FALSE
