\* The writer is closed once, by its owner.
CONSTANTS
    DataChCap = 2
    HandlerService = "echo.Echoer"
    MethodShape <- MCMethodShape
    MaxHandlerOps = 2
    HandlerSendsEmpty = FALSE
    MaxPeerPackets = 3
    PeerTargets <- MCStreamTargets
    PeerLeadsWithData = FALSE
    PeerSendsEmpty = FALSE
    PeerCancels = FALSE
    PeerErrors = {"app"}
SPECIFICATION Spec
INVARIANT WriterClosedOnce
