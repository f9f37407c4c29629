SPECIFICATION Spec
CONSTANTS
    MaxNumber = 1
    MaxId = 2
    Products <- OneNumber
    MayCall <- AsDocumented
INVARIANT NothingPulledAway
CHECK_DEADLOCK FALSE
