SPECIFICATION ClientFairSpec
CONSTANTS
    Sockets = {s1, s2, s3}
    None = None
    MaxMounts = 3
CHECK_DEADLOCK FALSE
INVARIANTS
    OneConnectionPerStart
    StatusIsHonest
    StopIsFinal
PROPERTY Reconnects
