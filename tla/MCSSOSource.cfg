SPECIFICATION FairSpec
CONSTANTS
    c1 = c1
    c2 = c2
    c3 = c3
    Calls <- MCCalls
    NoCall = NoCall
    MaxInvalidations = 1
INVARIANTS
    SingleFlight
    NoLoginFromBeforeInvalidate
    OneFreshLoginPerGeneration
PROPERTIES
    EveryCallReturns
    CancelledCallReturns
CHECK_DEADLOCK FALSE
