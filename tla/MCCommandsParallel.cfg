SPECIFICATION CommandsSpec
CONSTANTS
    Printers = {p1, p2}
    Logins = {l1}
    Logouts = {o1}
    Imports = {}
    Stored = Stored
    Nothing = Nothing
SYMMETRY MCSymmetry
PROPERTIES
    ParallelRotationIsSeen
CHECK_DEADLOCK FALSE
