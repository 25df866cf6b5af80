------------------------------ MODULE CommonEnv ------------------------------
(***************************************************************************)
(* CommonRPC against an arbitrary peer and application.  The peer writes   *)
(* any packets of the wire schema and then may end the incoming stream by *)
(* EOF, reset or a transport error; the application may call close().     *)
(***************************************************************************)
EXTENDS CommonRPC, SequencesExt

CONSTANTS
    MaxPeerPackets,   \* bound on the packets the peer writes
    PeerSendsCancel,  \* may the peer send CallCancel?
    PeerEnds,         \* how the peer may end the stream: subset of {"eof", ResetErr, TransportErr}
    PeerErrors        \* error strings the peer may put in CallData.error

ASSUME /\ MaxPeerPackets \in Nat /\ PeerSendsCancel \in BOOLEAN
       /\ PeerEnds \subseteq {"eof", ResetErr, TransportErr}
       /\ NoError \notin PeerErrors

VARIABLE appClosed   \* the application has called close()

vars == <<peerVars, rpcVars, appClosed>>

EnvInit == Init /\ appClosed = FALSE

\* Payloads: absent, a message numbered by its position, an empty message.
Payloads(n) == {<<0, FALSE>>, <<n, FALSE>>, <<0, TRUE>>}

PeerPackets(n) ==
    { CallData(pl[1], pl[2], c, NoError) :
          <<pl, c>> \in (Payloads(n) \X BOOLEAN) \ {<<<<0, FALSE>>, FALSE>>} }
    \cup { CallData(0, FALSE, FALSE, e) : e \in PeerErrors }
    \cup { CallStart("svc", "m", 0, FALSE), CallStartResp }
    \cup (IF PeerSendsCancel THEN {CallCancel} ELSE {})

PeerSend ==
    /\ transport = "open" /\ Len(inbox) < MaxPeerPackets
    /\ \E p \in PeerPackets(Len(inbox) + 1) : inbox' = Append(inbox, p)
    /\ UNCHANGED <<transport, rpcVars, appClosed>>

PeerEnd ==
    /\ transport = "open"
    /\ \E e \in PeerEnds : transport' = e
    /\ UNCHANGED <<inbox, rpcVars, appClosed>>

\* The application calls close() once, without await.
AppClose ==
    /\ ~appClosed
    /\ CloseStart(NoError)
    /\ appClosed' = TRUE
    /\ UNCHANGED <<peerVars, pos, sink, sinkErr, rdsMsgs, rdsEnd, srcEnded, wpc, sent>>

\* Every task of the endpoint has ended and the application has closed it.
Finished ==
    /\ sink = "done" /\ closing = <<>> /\ wpc # "loop" /\ appClosed
    /\ UNCHANGED vars

Next == PeerSend \/ PeerEnd \/ AppClose \/ (RpcNext /\ UNCHANGED appClosed) \/ Finished

Spec == EnvInit /\ [][Next]_vars

\* The peer eventually ends the stream; the event loop runs the endpoint.
FairSpec == Spec /\ WF_vars(PeerEnd) /\ RpcFairness

-----------------------------------------------------------------------------
(* Reference definitions from spec section 4.5, independent of the code.   *)

\* The messages a client delivers from packets ps: CallData payloads, an
\* empty one when dataIsZero is set, up to a terminal CallData; CallStartResp
\* is ignored; a CallStart or a CallCancel ends the call.
RECURSIVE ClientExpected(_)
ClientExpected(ps) ==
    IF ps = <<>> THEN <<>>
    ELSE LET p   == Head(ps)
             msg == IF p.kind = "CallData" /\ CarriesMessage(p) THEN <<p.data>> ELSE <<>>
         IN CASE p.kind = "CallData" /\ IsTerminal(p) -> msg
              [] p.kind = "CallData"      -> msg \o ClientExpected(Tail(ps))
              [] p.kind = "CallStartResp" -> ClientExpected(Tail(ps))
              [] OTHER                    -> <<>>

\* The peer's clean half-close has been handled.
PeerCompleted ==
    \E i \in 1..pos : inbox[i].kind = "CallData" /\ inbox[i].complete
                      /\ inbox[i].error = NoError

-----------------------------------------------------------------------------
(* Properties.                                                             *)

\* handlePacket, handleCallData and pushRpcData: the application reads
\* exactly the peer's messages in order, empty ones included, and nothing
\* after a terminal packet or a cancellation.
ReceiveMatchesPeer ==
    IsPrefix(rdsMsgs, IF HasCall THEN ClientExpected(inbox) ELSE <<>>)

\* The sink and close: rpcDataSource ends cleanly only when the peer
\* completed or the application closed; a protocol error, a transport EOF
\* or reset before the peer's complete reaches the reader as an error
\* (spec 7: transport errors are surfaced as the underlying I/O error).
ReceiveEndsAsCaused == rdsEnd = NoError => PeerCompleted \/ appClosed

\* close and the sink: the outgoing source ends with CallCancel as its last
\* packet, and nothing follows the first terminal packet it carries
\* (spec 4.8: a terminal event is the last event from its sender).
TerminalIsLastOut ==
    \A i \in 1..Len(src) - 1 : ~(IsTerminal(src[i]) \/ src[i] = CallCancel)

\* The incoming stream ending eventually ends what the application reads.
EndReleasesReader == transport # "open" ~> rdsEnd # "open"
====
