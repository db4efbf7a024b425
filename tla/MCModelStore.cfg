SPECIFICATION Spec
CONSTANTS
    Rev <- MCRev
    MaxDownloads = 3
    MaxFaults = 2
CHECK_DEADLOCK FALSE
INVARIANTS
    LoadedIsProven
PROPERTIES
    ReadyIsKept
