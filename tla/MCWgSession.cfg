SPECIFICATION Spec
CONSTANTS
    Node = {a, b}
    Callers = {a}
    Window = 2
    Modulus = 8
    RekeyAfter = 1
    RejectAfter = 3
    RekeyTimeout = 1
    Keepalive = 1
    MaxUptime = 4
    MaxIndex = 4
    MaxPackets = 1
    MaxRestarts = 1
CHECK_DEADLOCK FALSE
INVARIANTS
    EndsAgree
    NoNonceReuse
    OnlyConfirmersRepeat
    NewerInitiationIsHeard
