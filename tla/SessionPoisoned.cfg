SPECIFICATION Spec
CONSTANTS
    a = a
    b = b
    Device = {a, b}
    Listeners <- Pair
    MaxPacketSize = 1
    MaxMessageId = 3
    MaxPackageId = 4
    MaxFragmentsCount = 2
    MaxFragmentId = 1
    MaxAttempts = 2
    MaxInterval = 1
    Sizes = {2}
    MessageLimit <- OneSends
    MaxDuplicates = 0
    MaxReconfigurations = 0
INVARIANT NotifiedMeansDelivered
