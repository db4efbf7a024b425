SPECIFICATION Spec
CHECK_DEADLOCK FALSE
CONSTANTS
    p1 = p1
    p2 = p2
    Proc = {p1}
    MaxRecs = 2
    MaxKills = 1
    MaxFaults = 0
PROPERTIES
    CrashedRecordingIsGivenUp
