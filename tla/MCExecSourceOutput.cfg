SPECIFICATION FairSpec
CONSTANTS
    Limit = 2
    Timeout = 3
    MaxWritten = 4
    MaxTime <- MCMaxTime
INVARIANTS
    OutputIsBounded
CHECK_DEADLOCK FALSE
