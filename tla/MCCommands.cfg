SPECIFICATION CommandsSpec
CONSTANTS
    Printers = {p1, p2}
    Logins = {l1}
    Logouts = {o1}
    Imports = {i1}
    Stored = Stored
    Nothing = Nothing
SYMMETRY MCSymmetry
INVARIANTS
    NoDeadTokenLeft
PROPERTIES
    PrintsSavedAndFresh
    LogoutRevokesWhatItDeletes
CHECK_DEADLOCK FALSE
