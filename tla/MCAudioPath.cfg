SPECIFICATION FairSpec
CONSTANTS
    Streams = {s1, s2}
    Contexts = {c1, c2}
    NoContext = NoContext
    CloseCanFail = TRUE
INVARIANTS
    CaptureKeepsItsOwn
    CaptureExcludesPlayback
    PlayerIsOwned
PROPERTIES
    AbortIsTransient
