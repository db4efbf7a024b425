SPECIFICATION Spec
CHECK_DEADLOCK FALSE
CONSTANTS
    MaxChunks = 2
    F = 2
    MaxCrashes = 2
    MaxFaults = 1
INVARIANTS
    RecordsAgree
    ManifestAheadOfDatabase
PROPERTIES
    ImplementsArchive
    PartialsAreSalvaged
