SPECIFICATION Spec
CONSTANTS
    QueueCap = 2
    ChunkFrames = 2
    MaxBlocks = 4
    MaxPauses = 2
    MaxFaults = 1
    MayTimeOut = FALSE
INVARIANTS
    EveryBlockAccountedFor
    ArrivalOrder
PROPERTIES
    NothingLostSilently
    ImplementsRecorder
    Progress
