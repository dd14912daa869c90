SPECIFICATION FairSpec
CONSTANTS
    Lifetimes <- MCLifetimes
    Intervals <- MCIntervals
    SlowDownStep = 2
    RequestTimeout = 3
    Deadlines <- MCDeadlines
    MaxTime = 14
PROPERTIES
    ActsAsSession
    PollsSpacedOut
    DeviceLoginReturns
CHECK_DEADLOCK FALSE
