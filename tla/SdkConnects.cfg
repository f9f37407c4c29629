SPECIFICATION Spec
CONSTANTS
    a = a
    b = b
    s = s
    t = t
    Device = {a, b}
    Listeners <- Pair
    SpecialCode = {s, t}
    MaxConnectionId = 6
    Initiators = {a, b}
    MaxConnects = 2
    MaxRepeats = 1
    MaxBeats = 0
INVARIANT SameSession
INVARIANT ActiveHasPeer
INVARIANT ThreeWay
INVARIANT TablesAgree
INVARIANT SdkInv
SYMMETRY Alike
CHECK_DEADLOCK FALSE
