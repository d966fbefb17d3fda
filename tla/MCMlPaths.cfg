SPECIFICATION PathsSpec
CONSTANTS
    Keys = {a, b}
    NoKey = NoKey
    MaxPeers = 2
    MaxProbes = 2
    Trust = 1
    MaxUpdates = 2
    MaxBlocks = 1
SYMMETRY Symmetric
INVARIANTS
    PeersAgree
PROPERTIES
    OnlyReuseMisleads
    NoEndlessRetries
