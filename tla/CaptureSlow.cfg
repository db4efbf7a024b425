SPECIFICATION Spec
CONSTANTS
    QueueCap = 2
    ChunkFrames = 2
    MaxBlocks = 3
    MaxPauses = 1
    MaxFaults = 1
    MayTimeOut = TRUE
PROPERTIES
    LateWriterIsHarmless
