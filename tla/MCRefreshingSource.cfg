SPECIFICATION FairSpec
CONSTANTS
    c1 = c1
    c2 = c2
    c3 = c3
    Calls <- MCCalls
    LoginCredential = LoginCredential
    Nothing = Nothing
INVARIANTS
    NeverPresentsDeadToken
    SavedBeforeUse
PROPERTIES
    EveryCallReturns
    ReplacesOnlyStale
CHECK_DEADLOCK FALSE
