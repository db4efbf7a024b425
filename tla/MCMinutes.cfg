SPECIFICATION Spec
CHECK_DEADLOCK FALSE
SYMMETRY Symmetry
CONSTANTS
    p1 = p1
    p2 = p2
    Proc = {p1, p2}
    MaxScripts = 2
    MaxChanges = 1
    MaxCuts = 1
    MaxMinutes = 2
    MaxMonth = 2
INVARIANTS
    CurrentIsWhole
PROPERTIES
    NothingCurrentIsLost
    NumbersAreFinal
