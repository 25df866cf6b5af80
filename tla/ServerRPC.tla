------------------------------ MODULE ServerRPC ------------------------------
(***************************************************************************)
(* The server side of one call (src/srpc/server-rpc.go): the read pump     *)
(* that feeds HandlePacket, the invokeRPC goroutine that runs the handler  *)
(* found by the mux, the handler itself as the generated InvokeMethod_X    *)
(* wrapper of its call shape (protoc-gen-go-starpc, src/unnamed/part_001)  *)
(* around nondeterministic user code, and the stream operations the        *)
(* handler calls (src/srpc/msg-stream.go).                                 *)
(*                                                                         *)
(* The far end of the byte stream writes inbox and peerEOF; this module    *)
(* only reads them.  inbox is kept whole (pumpPos marks what the pump has  *)
(* read) so that properties can relate what the handler saw to what the   *)
(* peer sent.                                                              *)
(***************************************************************************)
EXTENDS Naturals, Sequences, SrpcPackets

CONSTANTS
    DataChCap,       \* buffer of dataCh: make(chan []byte, 5) in NewServerRPC
    HandlerService,  \* GetServiceID() of the one registered handler
    MethodShape,     \* [method ID -> call shape] of the registered handler
    MaxHandlerOps,   \* bound on the stream operations the user code performs
    HandlerSendsEmpty \* may the user code send zero-length messages?

Shapes == {"unary", "serverStream", "clientStream", "bidi"}

ASSUME /\ DataChCap \in Nat \ {0}
       /\ MaxHandlerOps \in Nat /\ HandlerSendsEmpty \in BOOLEAN
       /\ \A m \in DOMAIN MethodShape : MethodShape[m] \in Shapes

VARIABLES
    inbox,         \* packets the peer wrote to the stream, in order
    peerEOF,       \* the peer closed the stream: the pump reads EOF after inbox
    pumpPos,       \* packets of inbox the read pump has handled
    pump,          \* "run" | "exited" (ReadPump returned) | "closed" (Close ran)
    service,       \* ServerRPC.service
    method,        \* ServerRPC.method
    dataCh,        \* ServerRPC.dataCh: queued payloads
    dataChClosed,  \* ServerRPC.dataChClosed (dataCh is closed with it)
    clientErr,     \* ServerRPC.clientErr
    ctxDone,       \* ServerRPC.ctx is canceled
    inv,           \* invokeRPC goroutine: "none" | "spawned" | "handler" | "ret" | "done"
    hpc,           \* position in the handler: "none" | "recvReq" | "impl" | "implEOF" | "returned"
    retErr,        \* error InvokeMethod returned (ErrUnimplemented if not recognized)
    ops,           \* stream operations the user code has performed
    pend,          \* the MsgSend past its ctx check: [data, cont], or NoPend
    out,           \* packets the writer has written, in order
    writerCloses,  \* calls of writer.Close()
    recvd,         \* history: payloads the handler's MsgRecv returned, in order
    recvEnd,       \* history: the error that ended the handler's receiving, or "none"
    result         \* history: error field of invokeRPC's terminal packet, "lost", or "none"

peerVars    == <<inbox, peerEOF>>
pumpVars    == <<pumpPos, pump>>
\* The ServerRPC struct's fields; ctx is ctxDone, writer is writerVars and
\* mux the constants HandlerService and MethodShape.
rpcVars     == <<service, method, dataCh, dataChClosed, clientErr, ctxDone>>
invokeVars  == <<inv, hpc, retErr, ops, pend>>
writerVars  == <<out, writerCloses>>
historyVars == <<recvd, recvEnd, result>>
serverVars  == <<pumpVars, rpcVars, invokeVars, writerVars, historyVars>>

-----------------------------------------------------------------------------
(* Helpers translated from code outside the ServerRPC methods.             *)

\* Mux.InvokeMethod (spec 4.3) delegating to the generated
\* InvokeMethod: an empty service ID matches any handler, otherwise it must
\* equal GetServiceID(); the method ID must be one of the handler's.
Recognized(svc, mth) ==
    /\ svc = "" \/ svc = HandlerService
    /\ mth \in DOMAIN MethodShape

\* Packet.Validate: a CallStart naming neither service nor method is invalid.
Valid(p) == p.kind = "CallStart" => (p.service # "" \/ p.method # "")

\* First position of the generated InvokeMethod_X wrapper: shapes whose
\* client does not stream read the request message first.
Entry(mth) ==
    IF MethodShape[mth] \in {"unary", "serverStream"} THEN "recvReq" ELSE "impl"

\* Messages the user code may send as its n-th operation: numbered by n so
\* that their order is observable, or empty.
SendPayloads(n) == {n} \cup (IF HandlerSendsEmpty THEN {0} ELSE {})

NoPend == [data |-> 0, cont |-> "none"]

\* writer.MsgSend: a packet is written only while the writer is open.
WriteOut(p) == out' = IF writerCloses = 0 THEN Append(out, p) ELSE out

\* Error writer.MsgSend returns.
WriteErr == IF writerCloses = 0 THEN NoError ELSE ErrClosed

-----------------------------------------------------------------------------
Init ==
    /\ inbox = <<>> /\ peerEOF = FALSE
    /\ pumpPos = 0 /\ pump = "run"
    /\ service = "" /\ method = ""
    /\ dataCh = <<>> /\ dataChClosed = FALSE
    /\ clientErr = NoError /\ ctxDone = FALSE
    /\ inv = "none" /\ hpc = "none" /\ retErr = NoError /\ ops = 0 /\ pend = NoPend
    /\ out = <<>> /\ writerCloses = 0
    /\ recvd = <<>> /\ recvEnd = "none" /\ result = "none"

-----------------------------------------------------------------------------
(* The read pump: one HandlePacket call per packet, in order.  An error    *)
(* returned by HandlePacket ends the pump (pump' = "exited").              *)

PumpReady == pump = "run" /\ pumpPos < Len(inbox)
Pkt       == inbox[pumpPos + 1]
Consume   == pumpPos' = pumpPos + 1
Fail      == pump' = "exited"

\* HandlePacket: Validate rejects the packet.
HandleInvalid ==
    /\ PumpReady /\ ~Valid(Pkt)
    /\ Consume /\ Fail
    /\ UNCHANGED <<peerVars, rpcVars, invokeVars, writerVars, historyVars>>

\* Mutant: the "sent only once" check dropped.
NotStartedAlways == TRUE

\* HandleCallStart's check that no CallStart was processed before.
NotStarted == method = "" /\ service = ""

\* Mutant: dataCh treated as unbounded.
DataChUnbounded == TRUE

\* A send on dataCh would not block.
DataChHasRoom == Len(dataCh) < DataChCap

\* HandleCallStart.
HandleCallStart ==
    /\ PumpReady /\ Valid(Pkt) /\ Pkt.kind = "CallStart"
    /\ Consume
    /\ IF ~NotStarted \/ dataChClosed
          THEN /\ Fail
               /\ UNCHANGED <<rpcVars, inv>>
          ELSE /\ method' = Pkt.method /\ service' = Pkt.service
               /\ IF Pkt.data = 0
                     THEN /\ inv' = "spawned" /\ UNCHANGED <<dataCh, pump>>
                     ELSE IF DataChHasRoom
                     THEN /\ dataCh' = Append(dataCh, Pkt.data)
                          /\ inv' = "spawned" /\ UNCHANGED pump
                     ELSE /\ Fail /\ UNCHANGED <<dataCh, inv>>
               /\ UNCHANGED <<dataChClosed, clientErr, ctxDone>>
    /\ UNCHANGED <<peerVars, hpc, retErr, ops, pend, writerVars, historyVars>>

\* HandleCallData.  The send on dataCh is a select with ctx.Done(): it
\* blocks (the action is disabled) while dataCh is full and ctx is live,
\* and either case may be taken when both are ready.
HandleCallData ==
    /\ PumpReady /\ Pkt.kind = "CallData"
    /\ Consume
    /\ IF dataChClosed
          THEN Fail /\ UNCHANGED rpcVars
          ELSE LET closing == Pkt.complete \/ Pkt.error # NoError
                   finish  == /\ dataChClosed' = (dataChClosed \/ closing)
                              /\ clientErr' = IF Pkt.error # NoError
                                                 THEN Pkt.error ELSE clientErr
               IN \/ /\ Pkt.data = 0
                     /\ finish /\ UNCHANGED <<dataCh, pump>>
                  \/ /\ Pkt.data # 0 /\ ctxDone
                     /\ Fail /\ UNCHANGED <<dataCh, dataChClosed, clientErr>>
                  \/ /\ Pkt.data # 0 /\ DataChHasRoom
                     /\ dataCh' = Append(dataCh, Pkt.data)
                     /\ finish /\ UNCHANGED pump
    /\ UNCHANGED <<peerVars, service, method, ctxDone, invokeVars,
                   writerVars, historyVars>>

\* HandleCallStartResp: client-side calls are not supported.
HandleCallStartResp ==
    /\ PumpReady /\ Pkt.kind = "CallStartResp"
    /\ Consume /\ Fail
    /\ UNCHANGED <<peerVars, rpcVars, invokeVars, writerVars, historyVars>>

\* HandlePacket's default case: CallCancel is accepted and ignored.
HandleOther ==
    /\ PumpReady /\ Pkt.kind = "CallCancel"
    /\ Consume
    /\ UNCHANGED <<peerVars, pump, rpcVars, invokeVars, writerVars, historyVars>>

\* ReadPump reads EOF after the last packet and returns.
PumpEOF ==
    /\ pump = "run" /\ pumpPos = Len(inbox) /\ peerEOF
    /\ pump' = "exited"
    /\ UNCHANGED <<peerVars, pumpPos, rpcVars, invokeVars, writerVars, historyVars>>

\* Mutant: Close without its ctxCancel().
CloseKeepsCtx == ctxDone' = ctxDone

\* Close's ctxCancel(): the call context is canceled.
CloseCancels == ctxDone' = TRUE

\* Close, run once the pump has returned: it closes the writer only when
\* service is empty, meaning "invokeRPC has not been called".
Close ==
    /\ pump = "exited"
    /\ pump' = "closed"
    /\ CloseCancels
    /\ writerCloses' = IF service = "" THEN writerCloses + 1 ELSE writerCloses
    /\ UNCHANGED <<peerVars, pumpPos, service, method, dataCh, dataChClosed,
                   clientErr, invokeVars, out, historyVars>>

-----------------------------------------------------------------------------
(* The invokeRPC goroutine and the handler it runs.                        *)

\* Mutant: the err == nil && !ok check dropped.
InvokeErrPlain(ok, err) == err

\* invokeRPC: InvokeMethod's (ok, err) as the error of the terminal packet.
InvokeErr(ok, err) == IF err = NoError /\ ~ok THEN ErrUnimplemented ELSE err

\* invokeRPC up to the call into the mux: a method no handler recognizes
\* returns (false, nil) at once.
InvokeStart ==
    /\ inv = "spawned"
    /\ IF Recognized(service, method)
          THEN /\ inv' = "handler" /\ hpc' = Entry(method)
               /\ UNCHANGED retErr
          ELSE /\ inv' = "ret" /\ retErr' = InvokeErr(FALSE, NoError)
               /\ UNCHANGED hpc
    /\ UNCHANGED <<peerVars, pumpVars, rpcVars, ops, pend, writerVars, historyVars>>

\* The generated wrapper or the user code returns err to invokeRPC.
Return(err) ==
    /\ hpc' = "returned" /\ inv' = "ret" /\ retErr' = err

\* MsgRecv on the handler's stream (ReadOne: a select over ctx.Done() and
\* dataCh).  A message moves the handler to onMsg; EOF (dataCh closed and
\* drained) to onEOF, or it returns EOF when onEOF is "returned";
\* cancellation makes it return.  Blocks while dataCh is empty and open.
MsgRecv(onMsg, onEOF) ==
    /\ \/ /\ dataCh # <<>>
          /\ dataCh' = Tail(dataCh) /\ recvd' = Append(recvd, Head(dataCh))
          /\ hpc' = onMsg
          /\ UNCHANGED <<inv, retErr, recvEnd>>
       \/ /\ dataCh = <<>> /\ dataChClosed
          /\ recvEnd' = ErrEOF
          /\ IF onEOF = "returned" THEN Return(ErrEOF)
                                   ELSE hpc' = onEOF /\ UNCHANGED <<inv, retErr>>
          /\ UNCHANGED <<dataCh, recvd>>
       \/ /\ ctxDone
          /\ recvEnd' = ErrCanceled /\ Return(ErrCanceled)
          /\ UNCHANGED <<dataCh, recvd>>

\* MsgSend's select on ctx.Done(): the context is already canceled.
SendCanceled == ctxDone

\* MsgSend(d) as called from position cont, in two steps: the select on
\* ctx.Done(), and, if it fell through, MarshalVT and WriteCallData
\* (MsgSendWrite).  The context can be canceled between the two.  Every
\* caller returns the error of a failed MsgSend.
MsgSendCheck(d, cont) ==
    IF SendCanceled THEN Return(ErrCanceled) /\ UNCHANGED pend
                    ELSE hpc' = "send" /\ pend' = [data |-> d, cont |-> cont]
                         /\ UNCHANGED <<inv, retErr>>

\* CloseSend: writes CallData{complete}, whatever the state of ctx.
CloseSend == WriteOut(NewCallDataPacket(0, FALSE, TRUE, NoError))

\* The rest of MsgSend: WriteCallData(data, false, nil).  A failed write
\* makes the caller return its error; otherwise the unary wrapper returns
\* nil, SendAndClose goes on with CloseSend and returns, and streaming user
\* code resumes where it was.
MsgSendWrite ==
    /\ inv = "handler" /\ hpc = "send"
    /\ LET msg == NewCallDataPacket(pend.data, TRUE, FALSE, NoError)
       IN IF WriteErr # NoError
            THEN Return(WriteErr) /\ UNCHANGED out
            ELSE /\ out' = IF pend.cont = "closeSend"
                             THEN Append(Append(out, msg), NewCallDataPacket(0, FALSE, TRUE, NoError))
                             ELSE Append(out, msg)
                 /\ IF pend.cont \in {"returned", "closeSend"}
                      THEN Return(NoError)
                      ELSE hpc' = pend.cont /\ UNCHANGED <<inv, retErr>>
    /\ pend' = NoPend
    /\ UNCHANGED <<peerVars, pumpVars, rpcVars, ops, writerCloses, recvd, recvEnd, result>>

Shape == MethodShape[method]
UserStep == inv = "handler" /\ ops < MaxHandlerOps /\ ops' = ops + 1

\* Wrapper of unary and server-streaming methods: MsgRecv(req), returning
\* its error (EOF included).
RecvRequest ==
    /\ inv = "handler" /\ hpc = "recvReq"
    /\ MsgRecv("impl", "returned")
    /\ UNCHANGED <<peerVars, pumpVars, service, method, dataChClosed,
                   clientErr, ctxDone, ops, pend, writerVars, result>>

\* Unary: out, err := impl(ctx, req); if err != nil return err;
\* return strm.MsgSend(out).
UnaryImpl ==
    /\ inv = "handler" /\ hpc = "impl" /\ Shape = "unary"
    /\ \/ Return(AppErr)
          /\ UNCHANGED pend
       \/ \E d \in SendPayloads(ops + 1) : MsgSendCheck(d, "returned")
    /\ UNCHANGED <<peerVars, pumpVars, rpcVars, ops, writerVars, historyVars>>

\* User code of the streaming shapes receives a message (Recv).  A
\* streaming receiver stops receiving at EOF and goes on.
ImplRecv ==
    /\ UserStep /\ hpc = "impl" /\ Shape \in {"clientStream", "bidi"}
    /\ MsgRecv("impl", "implEOF")
    /\ UNCHANGED <<peerVars, pumpVars, service, method, dataChClosed,
                   clientErr, ctxDone, pend, writerVars, result>>

\* User code sends a message (Send = MsgSend) and returns its error.
ImplSend ==
    /\ UserStep /\ hpc \in {"impl", "implEOF"}
    /\ Shape \in {"serverStream", "bidi"}
    /\ \E d \in SendPayloads(ops + 1) : MsgSendCheck(d, hpc)
    /\ UNCHANGED <<peerVars, pumpVars, rpcVars, writerVars, historyVars>>

\* Client-streaming user code ends with return strm.SendAndClose(m):
\* MsgSend(m), then CloseSend() if that succeeded.
ImplSendAndClose ==
    /\ UserStep /\ hpc \in {"impl", "implEOF"} /\ Shape = "clientStream"
    /\ \E d \in SendPayloads(ops + 1) : MsgSendCheck(d, "closeSend")
    /\ UNCHANGED <<peerVars, pumpVars, rpcVars, writerVars, historyVars>>

\* Bidirectional user code half-closes (CloseSend) and goes on.
ImplCloseSend ==
    /\ UserStep /\ hpc \in {"impl", "implEOF"} /\ Shape = "bidi"
    /\ CloseSend
    /\ UNCHANGED <<peerVars, pumpVars, rpcVars, inv, hpc, retErr, pend,
                   writerCloses, historyVars>>

\* Streaming user code returns nil or an application error.
ImplReturn ==
    /\ inv = "handler" /\ hpc \in {"impl", "implEOF"} /\ Shape # "unary"
    /\ \E err \in {NoError, AppErr} : Return(err)
    /\ UNCHANGED <<peerVars, pumpVars, rpcVars, ops, pend, writerVars, historyVars>>

\* invokeRPC after InvokeMethod returned: write the terminal
\* CallData{complete, error}, cancel ctx, close the writer.
InvokeFinish ==
    /\ inv = "ret"
    /\ WriteOut(NewCallDataPacket(0, FALSE, TRUE, retErr))
    /\ result' = IF writerCloses = 0 THEN retErr ELSE "lost"
    /\ ctxDone' = TRUE
    /\ writerCloses' = writerCloses + 1
    /\ inv' = "done"
    /\ UNCHANGED <<peerVars, pumpVars, service, method, dataCh, dataChClosed,
                   clientErr, hpc, retErr, ops, pend, recvd, recvEnd>>

-----------------------------------------------------------------------------
PumpStep ==
    \/ HandleInvalid \/ HandleCallStart \/ HandleCallData
    \/ HandleCallStartResp \/ HandleOther \/ PumpEOF

HandlerStep ==
    \/ RecvRequest \/ UnaryImpl \/ ImplRecv \/ ImplSend
    \/ ImplSendAndClose \/ ImplCloseSend \/ ImplReturn \/ MsgSendWrite

\* The server's own steps; the peer's are added by the composing module.
ServerNext ==
    \/ PumpStep \/ Close
    \/ InvokeStart \/ HandlerStep \/ InvokeFinish

\* Every goroutine of the server is scheduled: the pump, the invokeRPC
\* goroutine and the handler it runs (user code is assumed not to hang
\* on anything but the stream).
ServerFairness ==
    /\ WF_serverVars(PumpStep) /\ WF_serverVars(Close)
    /\ WF_serverVars(InvokeStart) /\ WF_serverVars(HandlerStep)
    /\ WF_serverVars(InvokeFinish)

-----------------------------------------------------------------------------
TypeOK ==
    /\ pumpPos \in 0..Len(inbox)
    /\ pump \in {"run", "exited", "closed"}
    /\ dataCh \in Seq(Nat) /\ Len(dataCh) <= DataChCap
    /\ dataChClosed \in BOOLEAN /\ ctxDone \in BOOLEAN
    /\ inv \in {"none", "spawned", "handler", "ret", "done"}
    /\ hpc \in {"none", "recvReq", "impl", "implEOF", "send", "returned"}
    /\ ops \in 0..MaxHandlerOps
    /\ writerCloses \in 0..2
    /\ recvd \in Seq(Nat)
=============================================================================
