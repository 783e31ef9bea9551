SPECIFICATION FairSpec
CONSTANTS
    p1 = p1
    p2 = p2
    c1 = c1
    c2 = c2
    NoPhone = NoPhone
    Phones <- Numbers
    Jobs <- OneJob
    Cancellers <- OneStop
    MaxFaults = 1
PROPERTIES
    BatchSettles
    StopClosesEvenADeadBatch
    LifeContract
