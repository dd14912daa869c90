SPECIFICATION FairSpec
CONSTANTS
    Limit = 2
    Timeout = 3
    MaxWritten = 4
    MaxTime <- MCMaxTime
INVARIANTS
    WholeOutputOnly
    EndsWithinTwoTimeouts
PROPERTIES
    CredentialReturns
CHECK_DEADLOCK FALSE
