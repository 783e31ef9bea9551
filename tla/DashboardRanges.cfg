SPECIFICATION Spec
CONSTANTS
    p1 = p1
    p2 = p2
    NoPhone = NoPhone
    Phones <- Numbers
    PreviewRows = 2
    Sheets <- SmallFiles
    Bounds <- FewBounds
    Limits <- FewLimits
    MaxBatches = 2
    MaxOpen = 1
    MaxFaults = 1
INVARIANTS
    TypeOK
    ChainIsSeamless
    NextRangeRepeatsAtMostOneRow
    EstimateCoversSends
    FullRunMatchesPreview
CHECK_DEADLOCK FALSE
