SPECIFICATION Spec
CONSTANTS
    None = None
    s1 = s1
    s2 = s2
    Stops <- TwoStops
    Results <- Answers
    MaxFaults = 1
INVARIANTS
    TypeOK
    ClosedTestTellsItsResult
    DownloadShowsTheResult
    StopStands
SYMMETRY Alike
CHECK_DEADLOCK FALSE
