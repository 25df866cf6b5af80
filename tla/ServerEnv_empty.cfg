\* A zero-length message (dataIsZero) sent by the peer must reach the handler.
CONSTANTS
    DataChCap = 2
    HandlerService = "echo.Echoer"
    MethodShape <- MCMethodShape
    MaxHandlerOps = 2
    HandlerSendsEmpty = FALSE
    MaxPeerPackets = 3
    PeerTargets <- MCStreamTargets
    PeerLeadsWithData = FALSE
    PeerSendsEmpty = TRUE
    PeerCancels = FALSE
    PeerErrors = {"app"}
SPECIFICATION Spec
INVARIANT HandlerSeesPeerStream
