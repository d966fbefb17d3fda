SPECIFICATION Spec
CONSTANTS
    Tokens = {t1, t2}
    NoToken = NoToken
    Questions = {q1, q2, q3}
    NoQuestion = NoQuestion
    QueueDepth = 2
    Buttons = {"cancel", "retry", "toggle"}
    MaxTouches = 4
    CloseCanFail = TRUE
    MaxFailures = 1
CHECK_DEADLOCK FALSE
SYMMETRY Symmetric
VIEW Live
INVARIANTS
    AppConsistent
    WavsAreKept
PROPERTY UsesAudioPath
