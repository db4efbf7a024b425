SPECIFICATION Spec
CHECK_DEADLOCK FALSE
CONSTANTS
    p1 = p1
    p2 = p2
    Proc = {p1, p2}
    HeadVersion = 2
    Statements = 2
    MaxFaults = 1
    Stages = 1
    Persons = 2
    NoRows <- FirstRows
    Ceiling <- MCCeiling
    DefaultCapacity = 1
    MaxEvents = 4
INVARIANTS
    SchemaIsWhole
    TrailTellsTheState
    RosterFits
