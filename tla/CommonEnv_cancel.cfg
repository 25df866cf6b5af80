\* A peer that sends CallCancel and then more data: nothing after the
\* cancellation may reach the reader.  The peer never ends the stream, so
\* the endpoint may wait for it forever.
CONSTANTS
    HasCall = TRUE
    PeerErrors = {"app"}
    LocalMessages = 1
    MaxPeerPackets = 2
    PeerSendsCancel = TRUE
    PeerEnds = {}
SPECIFICATION Spec
INVARIANT ReceiveMatchesPeer
CHECK_DEADLOCK FALSE
