SPECIFICATION Spec
CONSTANTS
    MaxNumber = 2
    MaxId = 3
    Products <- TwoNumbers
    MayCall <- Harmless
INVARIANT ThreadsInv
INVARIANT NothingPulledAway
INVARIANT NoCircularWait
PROPERTY ToldOnce
INVARIANT QuietAfterShutdown
