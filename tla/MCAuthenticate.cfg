SPECIFICATION FairSpec
CONSTANTS
    t1 = t1
    t2 = t2
    Teams <- MCTeams
    NoTeam = NoTeam
    ExpiresIns <- MCExpiresIns
    Unsaid = Unsaid
    MaxWait = 4
    LegacyLifetime = 3
    RequestTimeout = 3
    PollInterval = 1
    Second = 2
    MaxInt = 7
    Answers <- MCAnswers
    Deadlines <- MCDeadlines
    MaxTime = 6
INVARIANTS
    CredentialInTime
    CredentialForSelectedTeam
    BlamesTheRightDeadline
PROPERTIES
    ActsAsSession
    NothingBegunTooLate
    PollsNotBeforeAsked
    AuthenticateReturns
CHECK_DEADLOCK FALSE
