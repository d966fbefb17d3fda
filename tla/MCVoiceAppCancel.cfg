SPECIFICATION Spec
CONSTANTS
    Tokens = {t1, t2}
    NoToken = NoToken
    Questions = {q1, q2, q3}
    NoQuestion = NoQuestion
    QueueDepth = 2
    Buttons = {"cancel"}
    MaxTouches = 4
    CloseCanFail = FALSE
    MaxFailures = 0
CHECK_DEADLOCK FALSE
PROPERTY CancelKeepsItsWord
