\* The outgoing packets of a call whose writer, application close and
\* protocol errors interleave: nothing may follow the first terminal packet.
CONSTANTS
    HasCall = TRUE
    PeerErrors = {"app"}
    LocalMessages = 1
    MaxPeerPackets = 2
    PeerSendsCancel = FALSE
    PeerEnds = {"eof"}
SPECIFICATION Spec
INVARIANT TerminalIsLastOut
