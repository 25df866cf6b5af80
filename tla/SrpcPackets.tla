---------------------------- MODULE SrpcPackets ----------------------------
(***************************************************************************)
(* The wire packets of srpc (rpcproto.proto, spec section 6), with their   *)
(* payloads abstracted.  A payload is a natural number: 0 stands for the   *)
(* zero-length byte string, d > 0 for a non-empty encoded message whose    *)
(* identity is d.  A packet with no payload carries data = 0 and           *)
(* dataIsZero = FALSE, exactly as protobuf decodes an absent bytes field.  *)
(***************************************************************************)
EXTENDS Naturals

\* Error strings carried by packets and returned by stream operations.
NoError          == ""
ErrUnimplemented == "unimplemented"
ErrCompleted     == "completed"
ErrCanceled      == "canceled"
ErrEOF           == "eof"
ErrClosed        == "closed"
ErrProtocol      == "protocol"
AppErr           == "app"

CallStart(svc, mth, d, z) ==
    [kind |-> "CallStart", service |-> svc, method |-> mth,
     data |-> d, dataIsZero |-> z]

CallData(d, z, complete, err) ==
    [kind |-> "CallData", data |-> d, dataIsZero |-> z,
     complete |-> complete, error |-> err]

CallCancel    == [kind |-> "CallCancel"]
CallStartResp == [kind |-> "CallStartResp"]

\* NewCallDataPacket(data, complete, err): dataIsZero marks a present but
\* empty payload (spec 4.4: dataIsZero = (len == 0) for a sent message).
NewCallDataPacket(d, present, complete, err) ==
    CallData(d, present /\ d = 0, complete, err)

IsTerminal(p) == p.kind = "CallData" /\ (p.complete \/ p.error # NoError)

\* A payload the receiver must deliver: non-empty, or empty with dataIsZero.
CarriesMessage(p) == p.data # 0 \/ p.dataIsZero
=============================================================================
