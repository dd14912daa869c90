SPECIFICATION FairSpec
CONSTANTS
    NoTime = NoTime
    Unreadable = Unreadable
    NoID = NoID
    NoAlias = NoAlias
    Nothing = Nothing
    Second = 4
    Lifetime = 8
    Skew = 2
    FirstInstant <- MCFirstInstant
    LastInstant = 20
    Given <- MCGiven
    Foreign <- MCForeign
    RetryFor = 5
    RetryWait = 2
    Late = 1
    Moments <- MCMoments
    MaxTime = 8
    Contended <- MCContended
INVARIANTS
    SavedIsLoadable
    SecondSaveChangesNothing
    NoticesRelease
PROPERTIES
    EveryCallReturns
CHECK_DEADLOCK FALSE
