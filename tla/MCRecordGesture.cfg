SPECIFICATION FairGestureSpec
CONSTANT
    RELEASE_GRACE = 3
INVARIANT
    GestureHoldsTogether
PROPERTIES
    JitterEndsNothing
    LiftEndsGesture
