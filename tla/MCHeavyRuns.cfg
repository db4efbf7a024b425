SPECIFICATION Spec
CONSTANTS
    t1 = t1
    t2 = t2
    Caller = {t1, t2}
    MaxCalls = 1
INVARIANTS
    NoAnswerLost
    WorkersAreOwned
PROPERTIES
    RunsEnd
