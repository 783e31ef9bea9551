SPECIFICATION Spec
CONSTANTS
    p1 = p1
    p2 = p2
    c1 = c1
    c2 = c2
    NoPhone = NoPhone
    Phones <- Numbers
    Jobs <- SmallJobs
    Cancellers <- TwoStops
    MaxFaults = 1
INVARIANTS
    IInv
    SendsAreLegitimate
    LedgerMatchesPosts
    StopsWithinOneRow
    StopReportIsNearlyComplete
    UndisturbedRunIsExact
    ObservedStopEndsCancelled
    RowColumnsAgree
    RepliesAreTrue
PROPERTIES
    InactiveStaysInactive
    Contract
