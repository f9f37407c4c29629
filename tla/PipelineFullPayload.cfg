SPECIFICATION Spec
CONSTANTS
    a = a
    b = b
    c = c
    Device = {a, b, c}
    BitWidth <- DefaultWidths
    MaxPayloadBytes = 65535
    PayloadSizes = {65535}
    LifeLimit <- Lives
    PackageLimit <- Packages
    MaxFailures = 0
INVARIANT WorkersSurvive
CHECK_DEADLOCK FALSE
