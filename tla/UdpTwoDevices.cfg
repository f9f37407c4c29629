SPECIFICATION FairSpec
CONSTANTS
    computer = computer
    controller = controller
    Device = {computer, controller}
    PhysicalLayer <- Layers
    Remote <- Peers
    FrameLimit <- Limits
    TooLong <- LastOne
    MaxErrors = 2
    SocketLimit = 1
    MaxDisturbed = 1
    Streams <- Endless
INVARIANTS TypeOK Accounted OvertakenWhenFull DeadOnlyByLength UdpInv
PROPERTIES CarriesDatagrams AllHandled StopEnds
CHECK_DEADLOCK FALSE
