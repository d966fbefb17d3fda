SPECIFICATION PeersSpec
CONSTANTS
    a = a
    b = b
    c = c
    d = d
    a2 = a2
    Keys = {a, b, c, d, a2}
    IpOf <- MCIpOf
    NoKey = NoKey
    PriorityIp = c
    MaxPeers = 2
    CacheSize = 3
    QueueDepth = 3
    ClockSize = 6
    ClockWraps = FALSE
    MaxChanges = 4
    MaxBreaks = 2
CHECK_DEADLOCK FALSE
INVARIANTS
    TableIsWhole
    TableFollows
    CacheIsRecent
