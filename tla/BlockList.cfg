\* Three addresses, one of them filtered, four instants, three events.
CONSTANTS
    Addresses = {1, 2, 3}
    Net24 <- MCNet24
    Net16 <- MCNet16
    IpLimits <- MCIpLimits
    Net24Limits <- MCNet24Limits
    Net16Limits <- MCNet16Limits
    Day = 2
    PurgeDays = 1
    Period = 1
    Filtered = {3}
    StaticNets = {{1}}
    Prepared <- MCPrepared
    NULL = NULL
    MaxTime = 3
    MaxEvents = 3
SPECIFICATION Spec
INVARIANTS
    ListMatches
    NoOverlap
    InForce
PROPERTIES
    
    MaintenanceInvisible
