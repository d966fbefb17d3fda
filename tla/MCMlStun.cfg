SPECIFICATION FairSpec
CONSTANTS
    QueueDepth = 2
    MaxRetries = 1
    Resolved = {"primary", "fallback"}
    HasIPv6 = TRUE
    Symmetric = FALSE
    MaxMoves = 1
    MaxFlight = 2
INVARIANTS
    VerdictIsSound
PROPERTY
    EndpointIsTold
