SPECIFICATION LosslessSpec
CONSTANTS
    a = a
    b = b
    s = s
    t = t
    Device = {a, b}
    Listeners <- Pair
    SpecialCode = {s}
    MaxConnectionId = 4
    Initiators = {a}
    MaxConnects = 1
    MaxRepeats = 0
    MaxBeats = 9
PROPERTY BothDisconnect
CHECK_DEADLOCK FALSE
