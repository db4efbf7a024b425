SPECIFICATION Spec
CHECK_DEADLOCK FALSE
SYMMETRY Symmetry
CONSTANTS
    p1 = p1
    p2 = p2
    Proc = {p1, p2}
    MaxRecs = 2
    MaxKills = 1
    MaxFaults = 2
INVARIANTS
    SingleCapture
    RowShowsCapture
    NoLeakedLock
PROPERTIES
    VerdictIsFinal
    JobNeverAheadOfAudio
