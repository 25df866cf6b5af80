----------------------------- MODULE RpcStream -----------------------------
(***************************************************************************)
(* The RpcStream tunnel end to end (rpcstream, src/unnamed/part_000 lines *)
(* 28-154): OpenRpcStream on the opener's side, HandleRpcStream on the    *)
(* handler's side, over one outer call.  The opener sends Init, waits for  *)
(* the Ack if waitAck is set, and then reads the tunnel through an         *)
(* RpcStreamReadWriter whose read pump runs at once.  The handler receives *)
(* Init, asks the getter for the component's mux, sends the Ack, and       *)
(* serves the mux until the call ends; its deferred release runs when it   *)
(* returns.                                                                *)
(*                                                                         *)
(* Each direction of the tunnel is an RpcStreamRW.  Handler to opener (RW): *)
(* frames are the Ack and the Data frames the served mux writes, closed is *)
(* "the opener's Recv fails after the frames".  Opener to handler (Up):    *)
(* after Init, the Data frames the opener's Writes send, read by the      *)
(* served ServerRPC's read pump; closed when the opener's Close half-closes *)
(* the call or the transport fails.                                       *)
(***************************************************************************)
EXTENDS Naturals, Sequences

CONSTANTS
    MaxBytes,   \* bound on the bytes the served mux writes
    UpMaxBytes, \* bound on the bytes the opener writes
    MaxChunk,   \* largest buffer of one Write
    MaxRead,    \* largest buffer of one Read of the opener's read pump
    ComponentIds \* componentID arguments of OpenRpcStream, "" among them

NoErr     == ""
GetterErr == "getter"                           \* an error the getter returns
NoServer  == "no server for that component"

VARIABLES
    frames, closed, wrote, rpos, buf, got, rerr,   \* RW: handler to opener
    upFrames, upClosed, upWrote, upRpos, upBuf, upGot, upErr,  \* Up: opener to handler
    waitAck,    \* OpenRpcStream's waitAck argument
    compId,     \* its componentID argument
    opc,        \* the opener: "send", "wait" (for the Ack), "open", "failed"
    call,       \* the outer call: "open", or "closed" by the opener or the transport
    initSent,   \* the Init packet is on its way to the handler
    hpc,        \* the handler: "recv", "lookup", "ack", "serve", "done"
    gres,       \* what the getter returned: mux and release present, err
    herr,       \* the handler's err after the lookup, the Ack's error
    served,     \* the handler started a ServerRPC on the mux
    released    \* calls of the getter's release function

RW == INSTANCE RpcStreamRW WITH AckErrors <- {GetterErr, NoServer}
Up == INSTANCE RpcStreamRW WITH AckErrors <- {}, MaxBytes <- UpMaxBytes,
        frames <- upFrames, closed <- upClosed, wrote <- upWrote, rpos <- upRpos,
        buf <- upBuf, got <- upGot, rerr <- upErr

rwVars  == <<frames, closed, wrote, rpos, buf, got, rerr>>
upVars  == <<upFrames, upClosed, upWrote, upRpos, upBuf, upGot, upErr>>
opVars  == <<waitAck, compId, opc, initSent>>
hVars   == <<hpc, gres, herr, served, released>>
vars    == <<rwVars, upVars, opVars, call, hVars>>

\* A getter may return any combination of mux, release and error.
GetterResults == [mux : BOOLEAN, rel : BOOLEAN, err : {NoErr, GetterErr}]
NoLookup == [mux |-> FALSE, rel |-> FALSE, err |-> NoErr]

Init ==
    /\ RW!Init /\ Up!Init
    /\ waitAck \in BOOLEAN /\ compId \in ComponentIds
    /\ opc = "send" /\ call = "open" /\ initSent = FALSE
    /\ hpc = "recv" /\ gres = NoLookup /\ herr = NoErr
    /\ served = FALSE /\ released = 0

(* ---------------------------- the opener ------------------------------ *)

\* rpcStream.Close(), MsgStream.Close: CloseSend, so the handler reads EOF
\* after what was sent, then the close callback, which ends the call.
CloseStream == upClosed' = TRUE /\ call' = "closed" /\ closed' = TRUE

\* Send Init; a failed Send closes the stream and returns the error.
OpenSendInit ==
    /\ opc = "send"
    /\ IF call = "open"
         THEN initSent' = TRUE /\ opc' = IF waitAck THEN "wait" ELSE "open"
         ELSE UNCHANGED initSent /\ opc' = "failed"
    /\ UNCHANGED <<rwVars, upVars, waitAck, compId, call, hVars>>

\* The error the opener makes of the packet it waited for.
AckErrIgnored(f) == IF f.kind = "Ack" THEN NoErr ELSE "expected ack packet"
AckErr(f) ==
    IF f.kind # "Ack" THEN "expected ack packet"
    ELSE IF f.error # NoErr THEN "remote: " \o f.error ELSE NoErr

\* waitAck: Recv one packet; an error, a failed Ack or another packet
\* closes the stream and fails the open.  Recv fails after the frames
\* once the handler has returned, and at any point once the call is
\* closed, an Ack already sent included.
OpenRecvAck ==
    /\ opc = "wait"
    /\ \/ /\ rpos < Len(frames)
          /\ rpos' = rpos + 1
          /\ IF AckErr(frames[rpos + 1]) = NoErr
               THEN opc' = "open" /\ UNCHANGED <<call, closed, upClosed>>
               ELSE opc' = "failed" /\ CloseStream
       \/ /\ (rpos = Len(frames) /\ closed) \/ call = "closed"
          /\ opc' = "failed" /\ CloseStream
          /\ UNCHANGED rpos
    /\ UNCHANGED <<frames, wrote, buf, got, rerr, upFrames, upWrote, upRpos, upBuf, upGot, upErr, waitAck, compId, initSent, hVars>>

\* The opener's read pump reads the tunnel.
OpenRead(k) ==
    /\ opc = "open" /\ RW!Read(k)
    /\ UNCHANGED <<upVars, opVars, call, hVars>>

\* Once the call is closed, the opener's Recv may fail before the frames
\* still in flight (ClientRPC cancels its context on close and on a
\* transport error).
OpenRecvCanceled ==
    /\ opc = "open" /\ call = "closed" /\ RW!RecvCanceled
    /\ UNCHANGED <<upVars, opVars, call, hVars>>

\* The opener writes to the tunnel (RpcStreamReadWriter.Write, whose Send
\* fails once the call is closed).
OpenWrite(len) ==
    /\ opc = "open" /\ call = "open" /\ Up!Write(len)
    /\ UNCHANGED <<rwVars, opVars, call, hVars>>

\* The opener closes the ReadWriter: rpcStream.Close(), which is
\* MsgStream.Close: CloseSend half-closes the call, so the handler's Recv
\* returns EOF after the frames, then the close callback ends the call.
OpenClose ==
    /\ opc = "open" /\ call = "open"
    /\ CloseStream
    /\ UNCHANGED <<frames, wrote, rpos, buf, got, rerr, upFrames, upWrote, upRpos, upBuf, upGot, upErr, opVars, hVars>>

\* The transport fails the outer call under both ends.
Abort ==
    /\ call = "open"
    /\ call' = "closed" /\ closed' = TRUE /\ upClosed' = TRUE
    /\ UNCHANGED <<frames, wrote, rpos, buf, got, rerr, upFrames, upWrote, upRpos, upBuf, upGot, upErr, opVars, hVars>>

(* ---------------------------- the handler ----------------------------- *)

\* The deferred release, registered only when the getter returned a mux
\* and a release function.
Deferred == IF gres.mux /\ gres.rel THEN 1 ELSE 0

\* HandleRpcStream returns: its deferred release runs and the outer call
\* ends, so the opener's Recv fails after the frames already sent.
\* Mutant: the return leaves the outer call open.
ReturnKeepsCall ==
    /\ hpc' = "done" /\ released' = released + Deferred
    /\ closed' = closed

Return ==
    /\ hpc' = "done" /\ released' = released + Deferred
    /\ closed' = TRUE

\* Recv the Init packet; a Recv error or an empty componentID returns.
HandleRecvInit ==
    /\ hpc = "recv"
    /\ \/ initSent /\ compId # "" /\ hpc' = "lookup" /\ UNCHANGED <<closed, released>>
       \/ initSent /\ compId = "" /\ Return
       \/ call = "closed" /\ Return
    /\ UNCHANGED <<frames, wrote, rpos, buf, got, rerr, upVars, opVars, call, gres, herr, served>>

\* getter(ctx, componentID); no mux and no error is "no server".
HandleLookup(g) ==
    /\ hpc = "lookup"
    /\ gres' = g /\ hpc' = "ack"
    /\ herr' = IF g.err = NoErr /\ ~g.mux THEN NoServer ELSE g.err
    /\ UNCHANGED <<rwVars, upVars, opVars, call, served, released>>

\* Send the Ack; return on err or on a failed Send, else serve the mux.
HandleAck ==
    /\ hpc = "ack"
    /\ frames' = IF call = "open" THEN Append(frames, RW!AckFrame(herr)) ELSE frames
    /\ IF herr = NoErr /\ call = "open"
         THEN hpc' = "serve" /\ served' = TRUE /\ UNCHANGED <<closed, released>>
         ELSE Return /\ UNCHANGED served
    /\ UNCHANGED <<wrote, rpos, buf, got, rerr, upVars, opVars, call, gres, herr>>

\* The ServerRPC on the mux writes to the tunnel while the call is open.
ServeWrite(len) ==
    /\ hpc = "serve" /\ call = "open" /\ RW!Write(len)
    /\ UNCHANGED <<upVars, opVars, call, hVars>>

\* The served ServerRPC's read pump reads the tunnel.
ServeRead(k) ==
    /\ hpc = "serve" /\ Up!Read(k)
    /\ UNCHANGED <<rwVars, opVars, call, hVars>>

\* The served read pump's Recv is the outer call's MsgRecv, whose select
\* may return context.Canceled with frames still queued once the call is
\* closed (the opener's Close ends it right after CloseSend).
ServeRecvCanceled ==
    /\ hpc = "serve" /\ call = "closed" /\ Up!RecvCanceled
    /\ UNCHANGED <<rwVars, opVars, call, hVars>>

\* serverRPC.Wait(ctx) returns: the served call ended, or the outer call
\* was closed and ctx canceled.
ServeReturn ==
    /\ hpc = "serve" /\ Return
    /\ UNCHANGED <<frames, wrote, rpos, buf, got, rerr, upVars, opVars, call, gres, herr, served>>

\* Both ends have stopped.
Finished ==
    /\ hpc = "done" /\ (opc = "failed" \/ rerr # NoErr)
    /\ UNCHANGED vars

Next ==
    \/ OpenSendInit \/ OpenRecvAck \/ OpenClose \/ Abort
    \/ \E k \in 1..MaxRead : OpenRead(k)
    \/ OpenRecvCanceled
    \/ \E len \in 1..MaxChunk : OpenWrite(len)
    \/ HandleRecvInit \/ \E g \in GetterResults : HandleLookup(g) \/ HandleAck
    \/ \E len \in 1..MaxChunk : ServeWrite(len)
    \/ \E k \in 1..MaxRead : ServeRead(k)
    \/ ServeRecvCanceled
    \/ ServeReturn
    \/ Finished

\* Goroutines run: OpenRpcStream, the opener's read pump and
\* HandleRpcStream progress when they can; Wait returns once ctx is
\* canceled, but the served call need not end by itself.
HandlerFair == HandleRecvInit \/ (\E g \in GetterResults : HandleLookup(g))
               \/ HandleAck \/ (call = "closed" /\ ServeReturn)
Fairness ==
    /\ WF_vars(OpenSendInit \/ OpenRecvAck)
    /\ WF_vars(\E k \in 1..MaxRead : OpenRead(k))
    /\ WF_vars(HandlerFair)

Spec == Init /\ [][Next]_vars
FairSpec == Spec /\ Fairness

-----------------------------------------------------------------------------

\* OpenRpcStream with waitAck agrees with HandleRpcStream: the opener
\* returns a ReadWriter only when the handler accepted Init, found a mux
\* and started serving it; and when the handler serves, the opener fails
\* only because the call was closed under it, never on the Ack itself.
AckAgreement ==
    waitAck =>
        /\ opc = "open" => served
        /\ opc = "failed" /\ served => call = "closed"

\* HandleRpcStream's return ends the outer call: whatever made the handler
\* return (empty component, getter error, failed Ack, the served call
\* ending), the opener then stops waiting, its open failing or its read
\* pump returning an error, so the PacketReadWriter over the tunnel is not
\* left blocked in Recv.
OpenerUnblocked == (hpc = "done") ~> (opc = "failed" \/ rerr # NoErr)

\* The tunnel is an ordered byte stream both ways: the opener's read pump
\* sees the handler's writes, with or without waiting for the Ack, and the
\* served ServerRPC's read pump sees the opener's writes; when the call is
\* closed with frames in flight, either reader is cut off with an error,
\* never with an EOF that hides lost bytes.
ImplementsByteStream == RW!ImplementsByteStream /\ Up!ImplementsByteStream

TypeOK ==
    /\ opc \in {"send", "wait", "open", "failed"} /\ call \in {"open", "closed"}
    /\ hpc \in {"recv", "lookup", "ack", "serve", "done"}
    /\ gres \in GetterResults /\ released \in 0..1
====
