SPECIFICATION FairSpec
CONSTANTS
    a = a
    b = b
    Device = {a, b}
    Listeners <- Pair
    MaxPacketSize = 1
    MaxMessageId = 2
    MaxPackageId = 3
    MaxFragmentsCount = 2
    MaxFragmentId = 1
    MaxAttempts = 2
    MaxInterval = 1
    Sizes = {2, 3}
    MessageLimit <- TwoSends
    MaxDuplicates = 1
    MaxReconfigurations = 0
INVARIANT DeliveredIntact
INVARIANT OneOutcome
INVARIANT PromiseInv
PROPERTY KeepsPromise
PROPERTY Resolved
