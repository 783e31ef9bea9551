SPECIFICATION Spec
CONSTANTS
    p1 = p1
    p2 = p2
    Polls = {p1, p2}
    FailureLimit = 5
    MaxRows = 3
INVARIANT
    LiveNoteIsTrue
CHECK_DEADLOCK FALSE
