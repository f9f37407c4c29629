SPECIFICATION Spec
CONSTANTS
    a = a
    b = b
    Device = {a, b}
    Listeners <- Pair
    MaxPacketSize = 1
    MaxMessageId = 3
    MaxPackageId = 4
    MaxFragmentsCount = 2
    MaxFragmentId = 1
    MaxAttempts = 3
    MaxInterval = 2
    Sizes = {2}
    MessageLimit <- OneSends
    MaxDuplicates = 0
    MaxReconfigurations = 1
INVARIANT TypeOK
INVARIANT Lockstep
INVARIANT IndexMatchesPending
INVARIANT NotifiedMeansArrived
INVARIANT SessionInv
