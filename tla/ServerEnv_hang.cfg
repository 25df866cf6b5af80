\* A peer that sends CallData before CallStart and then closes the stream:
\* the server must still release the call. Deadlock is not checked: a
\* stuck read pump is the outcome under test, reported by the property.
CONSTANTS
    DataChCap = 2
    HandlerService = "echo.Echoer"
    MethodShape <- MCMethodShape
    MaxHandlerOps = 1
    HandlerSendsEmpty = FALSE
    MaxPeerPackets = 3
    PeerTargets <- MCStreamTargets
    PeerLeadsWithData = TRUE
    PeerSendsEmpty = FALSE
    PeerCancels = FALSE
    PeerErrors = {"app"}
SPECIFICATION FairSpec
PROPERTY PeerCloseReleases
CHECK_DEADLOCK FALSE
