SPECIFICATION FairSpec
CONSTANTS
    a = a
    b = b
    s = s
    t = t
    Device = {a, b}
    Listeners <- Pair
    SpecialCode = {s, t}
    MaxConnectionId = 9
    Initiators = {a}
    MaxConnects = 1
    MaxRepeats = 2
    MaxBeats = 9
INVARIANT TypeOK
INVARIANT OneAnswer
PROPERTY NoResurrection
PROPERTY ConnectAnswered
CHECK_DEADLOCK FALSE
