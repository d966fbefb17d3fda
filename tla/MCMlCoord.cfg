SPECIFICATION FairSpec
CONSTANTS
    CmdDepth = 2
    MaxFaults = 2
    MaxRebinds = 2
    MaxWire = 2
    MaxStream = 11
CHECK_DEADLOCK FALSE
INVARIANTS
    SocketStateOK
    ListensInStep
    SetUpInOrder
PROPERTIES
    AlwaysReconnects
    StopsCleanly
