SPECIFICATION FairSpec
CONSTANTS
    Configured = {0, 1}
    Good = {1}
    RetryLimit = 2
    Modulus = 4
    QueueDepth = 2
    CmdDepth = 2
    MaxLosses = 2
    MaxFaults = 1
INVARIANTS
    LinkConsistent
PROPERTIES
    Connects
    FollowsWifi
