\* The handshake with and without waitAck, an empty or a named component,
\* every getter result, the opener's close and a transport abort at any
\* point; then writes of one or two bytes, up to three, read through
\* buffers of one or two bytes.
CONSTANTS
    MaxBytes = 6
    UpMaxBytes = 3
    MaxChunk = 3
    MaxRead = 2
    ComponentIds = {"", "c"}
SPECIFICATION FairSpec
INVARIANT AckAgreement
PROPERTY OpenerUnblocked
PROPERTY ImplementsByteStream
