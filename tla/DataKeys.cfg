SPECIFICATION DataSpec
CONSTANTS
    a = a
    b = b
    Device = {a, b}
    Listeners <- Pair
    SpecialCode = {1}
    MaxConnectionId = 4
    Initiators = {a}
    MaxConnects = 1
    MaxRepeats = 0
    MaxBeats = 4
    KeyId = {1, 2}
    Secret = {"secret", "other"}
    FirstKeys <- Prepared
    FirstKey = 1
    MessageLimit <- OneEach
    ConfigLimit = 2
INVARIANTS DataInv ReadAsSent HeardWhenEstablished
CHECK_DEADLOCK FALSE
