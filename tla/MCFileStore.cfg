SPECIFICATION Spec
CONSTANTS
    s1 = s1
    s2 = s2
    l1 = l1
    l2 = l2
    d1 = d1
    Saves <- MCSaves
    Loads <- MCLoads
    Deletes <- MCDeletes
    Initial = Initial
    NoFile = NoFile
    MaxCrashes = 2
SYMMETRY MCSymmetry
INVARIANTS
    NeverTorn
    NoRollbackPastSave
    NoStrayTemp
PROPERTIES
    ActsAsRegister
CHECK_DEADLOCK FALSE
