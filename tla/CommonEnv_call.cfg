\* The TypeScript endpoint against any peer, writer and application close:
\* the reader gets exactly the peer's messages, and every end of the
\* incoming stream releases the reader.
CONSTANTS
    HasCall = TRUE
    PeerErrors = {"app"}
    LocalMessages = 1
    MaxPeerPackets = 3
    PeerSendsCancel = FALSE
    PeerEnds = {"eof", "reset", "transport"}
SPECIFICATION FairSpec
INVARIANT ReceiveMatchesPeer
PROPERTY EndReleasesReader
