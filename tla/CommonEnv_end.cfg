\* The peer ends the stream by EOF or reset, or sends a CallStart the client
\* cannot handle: the reader's stream must not end cleanly unless the peer
\* completed or the application closed.
CONSTANTS
    HasCall = TRUE
    PeerErrors = {"app"}
    LocalMessages = 1
    MaxPeerPackets = 2
    PeerSendsCancel = FALSE
    PeerEnds = {"eof", "reset"}
SPECIFICATION Spec
INVARIANT ReceiveEndsAsCaused
