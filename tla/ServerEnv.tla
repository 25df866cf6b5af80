------------------------------ MODULE ServerEnv ------------------------------
(***************************************************************************)
(* ServerRPC against an arbitrary peer: the far end of the byte stream     *)
(* writes any sequence of packets drawn from the wire schema and then may  *)
(* close the stream.  The peer is the remote program, not code of this     *)
(* repository, so its steps are the environment; the constants below      *)
(* choose which misbehaviour it may show.                                  *)
(***************************************************************************)
EXTENDS ServerRPC, SequencesExt

CONSTANTS
    MaxPeerPackets,     \* bound on the packets the peer writes
    PeerTargets,        \* <<service, method>> pairs the peer may name in CallStart
    PeerLeadsWithData,  \* may the peer send CallData before any CallStart?
    PeerSendsEmpty,     \* may the peer send zero-length messages (dataIsZero)?
    PeerCancels,        \* may the peer send CallCancel, as its last packet?
    PeerErrors          \* error strings the peer may put in CallData.error

ASSUME /\ MaxPeerPackets \in Nat \ {0}
       /\ PeerLeadsWithData \in BOOLEAN /\ PeerSendsEmpty \in BOOLEAN
       /\ PeerCancels \in BOOLEAN
       /\ NoError \notin PeerErrors

vars == <<peerVars, serverVars>>

\* Payload of the peer's next packet: absent, or a fresh message numbered
\* by its position (so order is observable), or an empty message.
Payloads(n) ==
    {<<0, FALSE>>, <<n, FALSE>>} \cup (IF PeerSendsEmpty THEN {<<0, TRUE>>} ELSE {})

PeerPackets(n) ==
    { CallStart(t[1], t[2], pl[1], pl[2]) : t \in PeerTargets, pl \in Payloads(n) }
    \cup { CallData(pl[1], pl[2], c, NoError) :
              <<pl, c>> \in (Payloads(n) \X BOOLEAN) \ {<<<<0, FALSE>>, FALSE>>} }
    \cup { CallData(0, FALSE, FALSE, e) : e \in PeerErrors }
    \cup {CallStartResp}
    \cup (IF PeerCancels THEN {CallCancel} ELSE {})

\* A peer that sent CallCancel sends nothing more (spec 3: a terminal
\* event is the last event from its sender).
PeerCanceled == \E i \in 1..Len(inbox) : inbox[i].kind = "CallCancel"

PeerSend ==
    /\ ~peerEOF /\ Len(inbox) < MaxPeerPackets /\ ~PeerCanceled
    /\ \E p \in PeerPackets(Len(inbox) + 1) :
          /\ inbox = <<>> /\ ~PeerLeadsWithData => p.kind = "CallStart"
          /\ inbox' = Append(inbox, p)
    /\ UNCHANGED <<peerEOF, serverVars>>

PeerClose ==
    /\ ~peerEOF
    /\ peerEOF' = TRUE
    /\ UNCHANGED <<inbox, serverVars>>

\* All goroutines have finished and the stream is closed on both ends.
Finished ==
    /\ peerEOF /\ pump = "closed" /\ inv \in {"none", "done"}
    /\ UNCHANGED vars

Next == PeerSend \/ PeerClose \/ ServerNext \/ Finished

Spec == Init /\ [][Next]_vars

\* The peer eventually closes the stream; the server is scheduled fairly.
FairSpec == Spec /\ WF_vars(PeerClose) /\ ServerFairness

-----------------------------------------------------------------------------
(* Reference definitions from the spec, independent of the code above.     *)

\* Spec 4.3: with one registered handler, a call is dispatched when its
\* service is empty or the handler's and its method is one of the handler's.
Dispatches(t) == t[1] \in {"", HandlerService} /\ t[2] \in DOMAIN MethodShape

\* Spec 3 and 4.6: the messages the handler should receive from packets ps.
\* The first packet must be a valid CallStart; its payload and those of the
\* following CallData frames are delivered, an empty payload included when
\* dataIsZero is set; a terminal CallData is the last; CallCancel is a
\* terminal event too (spec 3: "abort the call"); a second CallStart, a
\* CallStartResp, or data before CallStart end the call.
RECURSIVE Expected(_, _)
Expected(ps, started) ==
    IF ps = <<>> THEN <<>>
    ELSE LET p   == Head(ps)
             msg == IF CarriesMessage(p) THEN <<p.data>> ELSE <<>>
         IN CASE p.kind = "CallStart" /\ ~started /\ Valid(p)
                     -> msg \o Expected(Tail(ps), TRUE)
              [] p.kind = "CallData" /\ started /\ IsTerminal(p) -> msg
              [] p.kind = "CallData" /\ started
                     -> msg \o Expected(Tail(ps), TRUE)
              [] OTHER -> <<>>

\* The CallStart that opened the call, if the peer sent one.
FirstStart == SelectInSeq(inbox, LAMBDA p : p.kind = "CallStart")

-----------------------------------------------------------------------------
(* Properties.                                                             *)

\* HandleCallStart/HandleCallData and MsgRecv: the handler receives exactly
\* the peer's messages in order, nothing from a repeated CallStart or from
\* after the peer's terminal CallData, every empty message included.
HandlerSeesPeerStream == IsPrefix(recvd, Expected(inbox, FALSE))

\* invokeRPC and the mux: the handler runs only for a call the mux
\* dispatches, and the terminal packet says ErrUnimplemented exactly when
\* the opening CallStart names a method no handler serves.
InvokeMatchesCall ==
    /\ hpc # "none" => FirstStart # 0 /\ Dispatches(<<inbox[FirstStart].service,
                                                       inbox[FirstStart].method>>)
    /\ result \notin {"none", "lost"} =>
          (result = ErrUnimplemented
             <=> ~Dispatches(<<inbox[FirstStart].service, inbox[FirstStart].method>>))

\* Close and invokeRPC: once the peer has closed the stream, the server
\* eventually cancels the call context, ends the handler and closes its
\* writer: nothing is left waiting on a call nobody will finish.
PeerCloseReleases ==
    peerEOF ~> (ctxDone /\ writerCloses > 0 /\ inv \in {"none", "done"})

\* HandleCallData and the handler's MsgRecv: when the peer ends its stream
\* with CallData{error}, the handler's receive ends with that error, not
\* with a clean EOF (spec 7: "the remote msgRecv returns that error").
ClientErrorSurfaced == recvEnd = ErrEOF => clientErr = NoError

WriterClosedOnce == writerCloses <= 1
=============================================================================
