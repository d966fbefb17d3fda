SPECIFICATION FairSpec
CONSTANTS
    Producers = {lwip}
    Depth = 2
    MaxAttempts = 3
    TxBurst = 2
    RxBurst = 1
    MaxOutages = 1
    MaxRebinds = 2
    MaxRequests = 1
INVARIANTS
    ConnectionIsTold
    TornIsAbandoned
    HandshakesFirst
PROPERTY
    Reconnects
