------------------------------ MODULE CommonRPC ------------------------------
(***************************************************************************)
(* The TypeScript call endpoint CommonRPC, the class in lines 88-288 of   *)
(* src/srpc/msg-stream.go.  One call: the sink task reads                  *)
(* the peer's packets, handlePacket feeds the rpcDataSource pushable read  *)
(* by the application, and writeCallDataFromSource and close write to the  *)
(* outgoing source pushable.                                               *)
(*                                                                         *)
(* JavaScript runs one task at a time, but every await is a point where    *)
(* another task may run.  An action is the code between two awaits.  The  *)
(* close() calls that are not awaited run up to their await on            *)
(* writeCallCancel; their finally block is the separate action            *)
(* CloseFinish, in the order the closes were called.                      *)
(***************************************************************************)
EXTENDS Naturals, Sequences, SrpcPackets

CONSTANTS
    HasCall,        \* service and method were set (the client subclass sets them in its constructor)
    LocalMessages   \* messages the application's dataSource yields to writeCallDataFromSource

ASSUME HasCall \in BOOLEAN /\ LocalMessages \in Nat

\* Error codes of a stream reset or abort, which the sink does not close on.
ResetErr     == "reset"
TransportErr == "transport"

VARIABLES
    inbox,      \* packets the peer has written, in order
    transport,  \* "open", or how the incoming stream ended: "eof", ResetErr, TransportErr
    pos,        \* packets the sink's for-await loop has taken from inbox
    sink,       \* the sink task: "loop", "caught" (in its catch block), "done"
    sinkErr,    \* the error the sink caught
    rdsMsgs,    \* messages pushed to rpcDataSource, as the application reads them
    rdsEnd,     \* "open", or how rpcDataSource ended: NoError or an error
    src,        \* packets pushed to the outgoing source, as the transport sends them
    srcEnded,   \* the outgoing source has ended
    closing,    \* errors of the close() calls suspended at their await, oldest first
    wpc,        \* writeCallDataFromSource: "loop", "done", "failed"
    sent        \* messages it has written

peerVars == <<inbox, transport>>
rpcVars  == <<pos, sink, sinkErr, rdsMsgs, rdsEnd, src, srcEnded, closing, wpc, sent>>

Init ==
    /\ inbox = <<>> /\ transport = "open"
    /\ pos = 0 /\ sink = "loop" /\ sinkErr = NoError
    /\ rdsMsgs = <<>> /\ rdsEnd = "open"
    /\ src = <<>> /\ srcEnded = FALSE /\ closing = <<>>
    /\ wpc = "loop" /\ sent = 0

\* it-pushable: a push after end is dropped, and the first end wins.
RdsPush(d) == rdsMsgs' = IF rdsEnd = "open" THEN Append(rdsMsgs, d) ELSE rdsMsgs
RdsEnd(e)  == rdsEnd' = IF rdsEnd = "open" THEN e ELSE rdsEnd

\* writePacket: push to the outgoing source.
WritePacket(p) == src' = IF srcEnded THEN src ELSE Append(src, p)

\* close(err) up to its await: writeCallCancel pushes CallCancel.
CloseStart(err) ==
    /\ WritePacket(CallCancel)
    /\ closing' = Append(closing, err)

\* close's finally block: end rpcDataSource with err and the source.
CloseFinish ==
    /\ closing # <<>>
    /\ RdsEnd(Head(closing))
    /\ srcEnded' = TRUE
    /\ closing' = Tail(closing)
    /\ UNCHANGED <<peerVars, pos, sink, sinkErr, rdsMsgs, src, wpc, sent>>

\* pushRpcData: dataIsZero delivers an empty message; an absent or empty
\* payload without it is not a message.
PushRpcDataNoZero(d, z) == IF d = 0 THEN UNCHANGED rdsMsgs ELSE RdsPush(d)
PushRpcData(d, z) ==
    IF z THEN RdsPush(0) ELSE IF d = 0 THEN UNCHANGED rdsMsgs ELSE RdsPush(d)

\* handleCallData, past its guard: push the payload, then end on error or
\* complete.
CallDataEnd(p) ==
    IF p.error # NoError THEN RdsEnd(p.error)
    ELSE IF p.complete THEN RdsEnd(NoError) ELSE UNCHANGED rdsEnd

\* The packets whose handler throws: handleCallStart always, handleCallData
\* when service or method is unset.
Throws(p) == p.kind = "CallStart" \/ (p.kind = "CallData" /\ ~HasCall)

SinkReady == sink = "loop" /\ pos < Len(inbox)
Pkt       == inbox[pos + 1]

\* handlePacket of a CallData, or of a packet its switch has no case for
\* (CallCancel, CallStartResp): the latter are ignored.
HandlePacket ==
    /\ SinkReady /\ ~Throws(Pkt)
    /\ IF Pkt.kind = "CallData"
         THEN PushRpcData(Pkt.data, Pkt.dataIsZero) /\ CallDataEnd(Pkt)
         ELSE UNCHANGED <<rdsMsgs, rdsEnd>>
    /\ pos' = pos + 1
    /\ UNCHANGED <<peerVars, sink, sinkErr, src, srcEnded, closing, wpc, sent>>

\* handlePacket's catch: close(asError) without await, then rethrow to the
\* sink, whose await resumes it in its own catch block.
HandlePacketThrows ==
    /\ SinkReady /\ Throws(Pkt)
    /\ CloseStart(ErrProtocol)
    /\ pos' = pos + 1 /\ sink' = "caught" /\ sinkErr' = ErrProtocol
    /\ UNCHANGED <<peerVars, rdsMsgs, rdsEnd, srcEnded, wpc, sent>>

\* The for-await loop ends: the incoming stream ended cleanly.
SinkEOF ==
    /\ sink = "loop" /\ pos = Len(inbox) /\ transport = "eof"
    /\ sink' = "done" /\ RdsEnd(NoError)
    /\ UNCHANGED <<peerVars, pos, sinkErr, rdsMsgs, src, srcEnded, closing, wpc, sent>>

\* The for-await loop throws the incoming stream's error.
SinkStreamErr ==
    /\ sink = "loop" /\ pos = Len(inbox) /\ transport \in {ResetErr, TransportErr}
    /\ sink' = "caught" /\ sinkErr' = transport
    /\ UNCHANGED <<peerVars, pos, rdsMsgs, rdsEnd, src, srcEnded, closing, wpc, sent>>

\* The sink's last statement, after its catch: end rpcDataSource.
SinkCatchKeeps == UNCHANGED rdsEnd
SinkCatchEnds == RdsEnd(NoError)

\* The sink's catch: close(err) without await unless the stream was reset
\* or aborted, then end rpcDataSource.
SinkCatch ==
    /\ sink = "caught"
    /\ IF sinkErr = ResetErr THEN UNCHANGED <<src, closing>> ELSE CloseStart(sinkErr)
    /\ SinkCatchEnds
    /\ sink' = "done"
    /\ UNCHANGED <<peerVars, pos, sinkErr, rdsMsgs, srcEnded, wpc, sent>>

\* writeCallDataFromSource: each yielded message is one writeCallData(data),
\* a present message whose dataIsZero says it is empty.
HasMore == sent < LocalMessages
WriteData ==
    /\ wpc = "loop" /\ HasMore
    /\ WritePacket(NewCallDataPacket(sent + 1, TRUE, FALSE, NoError))
    /\ sent' = sent + 1
    /\ UNCHANGED <<peerVars, pos, sink, sinkErr, rdsMsgs, rdsEnd, srcEnded, closing, wpc>>

\* The dataSource is done: writeCallData(undefined, true).
WriteComplete ==
    /\ wpc = "loop" /\ ~HasMore
    /\ WritePacket(CallData(0, FALSE, TRUE, NoError))
    /\ wpc' = "done"
    /\ UNCHANGED <<peerVars, pos, sink, sinkErr, rdsMsgs, rdsEnd, srcEnded, closing, sent>>

\* The dataSource throws: close(err) without await.
WriteFail ==
    /\ wpc = "loop"
    /\ CloseStart(AppErr)
    /\ wpc' = "failed"
    /\ UNCHANGED <<peerVars, pos, sink, sinkErr, rdsMsgs, rdsEnd, srcEnded, sent>>

SinkStep == HandlePacket \/ HandlePacketThrows \/ SinkEOF \/ SinkStreamErr \/ SinkCatch
WriterStep == WriteData \/ WriteComplete \/ WriteFail

RpcNext == SinkStep \/ WriterStep \/ CloseFinish

\* The event loop runs every ready continuation, so the sink and pending
\* close() calls make progress; the writer waits on the application's
\* dataSource, which need not yield, so it has no fairness.
RpcFairness ==
    WF_<<peerVars, rpcVars>>(SinkStep) /\ WF_<<peerVars, rpcVars>>(CloseFinish)

TypeOK ==
    /\ pos \in 0..Len(inbox) /\ sink \in {"loop", "caught", "done"}
    /\ rdsMsgs \in Seq(Nat) /\ srcEnded \in BOOLEAN
    /\ wpc \in {"loop", "done", "failed"} /\ sent \in 0..LocalMessages
====
