\* Every kind of CallStart (each call shape, service omitted, another
\* service, an unknown method, an invalid one) is dispatched as the mux
\* rule says; a streaming handler receives exactly what the peer streams,
\* whether the peer repeats CallStart, sends data after completing, an
\* error, CallStartResp or a final CallCancel; and once the peer closes the stream the
\* server releases the call whatever the handler was doing.
CONSTANTS
    DataChCap = 2
    HandlerService = "echo.Echoer"
    MethodShape <- MCMethodShape
    MaxHandlerOps = 2
    HandlerSendsEmpty = FALSE
    MaxPeerPackets = 3
    PeerTargets <- MCCallTargets
    PeerLeadsWithData = FALSE
    PeerSendsEmpty = FALSE
    PeerCancels = TRUE
    PeerErrors = {"app"}
SPECIFICATION FairSpec
INVARIANT TypeOK
INVARIANT HandlerSeesPeerStream
INVARIANT InvokeMatchesCall
PROPERTY PeerCloseReleases
