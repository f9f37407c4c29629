SPECIFICATION FairSpec
CONSTANTS
    a = a
    b = b
    c = c
    Device = {a, b, c}
    BitWidth <- DefaultWidths
    MaxPayloadBytes = 65535
    PayloadSizes = {65531}
    LifeLimit <- Lives
    PackageLimit <- Packages
    MaxFailures = 1
INVARIANT TypeOK
INVARIANT PipelineInv
INVARIANT Conveyed
INVARIANT WorkersSurvive
PROPERTY Arrives
CHECK_DEADLOCK FALSE
