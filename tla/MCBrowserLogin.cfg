SPECIFICATION FairBrowserSpec
CONSTANTS
    l1 = l1
    l2 = l2
    p1 = p1
    p2 = p2
    Logins <- MCLogins
    Ports <- MCPorts
    Nobody = Nobody
INVARIANTS
    RedeemsOwnCode
    ListenersHeldExactly
    FallsBackBeforeSession
    FirstCallbackCounts
PROPERTIES
    EveryLoginEnds
CHECK_DEADLOCK FALSE
