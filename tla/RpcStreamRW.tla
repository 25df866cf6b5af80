---------------------------- MODULE RpcStreamRW ----------------------------
(***************************************************************************)
(* RpcStreamReadWriter (rpcstream, src/unnamed/part_000 lines 156-240):    *)
(* an io.ReadWriteCloser over an RpcStream call.  Write sends each buffer  *)
(* as one Data frame; Read receives frames, copies what fits into the      *)
(* caller's buffer and keeps the rest in buf for the next Read.            *)
(*                                                                         *)
(* One direction of the tunnel: the far end's Write produces frames, the   *)
(* near end's read pump calls Read.  Bytes are numbered in the order they  *)
(* are written, so a lost, repeated or reordered byte is visible.  The     *)
(* module RpcStream drives these actions: the handler's Ack is the first   *)
(* frame, which an OpenRpcStream that did not wait for it reads here, and  *)
(* closed is set when the call ends.                                       *)
(***************************************************************************)
EXTENDS Naturals, Sequences, SequencesExt

CONSTANTS
    MaxBytes,   \* bound on the bytes the far end writes
    MaxChunk,   \* largest buffer passed to one Write
    MaxRead,    \* largest buffer passed to one Read
    AckErrors   \* errors the Ack may carry

ASSUME MaxBytes \in Nat /\ MaxChunk \in Nat \ {0} /\ MaxRead \in Nat \ {0}

NoErr    == ""
EOF      == "EOF"
Canceled == "context canceled"

DataFrame(d) == [kind |-> "Data", data |-> d, error |-> NoErr]
AckFrame(e)  == [kind |-> "Ack", data |-> <<>>, error |-> e]

VARIABLES
    frames,   \* RpcStreamPackets the far end has sent, in order
    closed,   \* the far end has ended the call: Recv returns an error after frames
    wrote,    \* bytes written so far
    rpos,     \* frames this end's Recv has returned
    buf,      \* r.buf: bytes of a frame not yet returned by Read
    got,      \* bytes Read has returned, in order
    rerr      \* the error Read returned, after which the read pump stops

vars == <<frames, closed, wrote, rpos, buf, got, rerr>>

Init ==
    /\ frames = <<>> /\ closed = FALSE /\ wrote = 0
    /\ rpos = 0 /\ buf = <<>> /\ got = <<>> /\ rerr = NoErr

AckFailed == \E i \in 1..Len(frames) : frames[i].error # NoErr

\* Write(p): an empty p returns at once; otherwise one Data frame.
Write(len) ==
    /\ len # 0 /\ wrote + len <= MaxBytes
    /\ ~closed /\ ~AckFailed
    /\ frames' = Append(frames, DataFrame([i \in 1..len |-> wrote + i]))
    /\ wrote' = wrote + len
    /\ UNCHANGED <<closed, rpos, buf, got, rerr>>

\* The part of data that did not fit into the caller's buffer.
RestLost(data, rn) == <<>>
Rest(data, rn) == SubSeq(data, rn + 1, Len(data))

Result(ready, out, b, pos, err) ==
    [ready |-> ready, out |-> out, buf |-> b, pos |-> pos, err |-> err]

\* The loop of Read(p) with room bytes of p left and out already copied:
\* drain buf; once something is copied return rather than wait; receive
\* a frame, fail on an Ack error, skip an empty one, copy what fits and
\* buffer the rest.  ready is FALSE where Recv would block.
RECURSIVE ReadLoop(_, _, _, _)
ReadLoop(room, out, b, pos) ==
    IF room = 0 THEN Result(TRUE, out, b, pos, NoErr)
    ELSE IF b # <<>>
      THEN LET rn == IF room < Len(b) THEN room ELSE Len(b)
           IN ReadLoop(room - rn, out \o SubSeq(b, 1, rn), Rest(b, rn), pos)
    ELSE IF out # <<>> THEN Result(TRUE, out, b, pos, NoErr)
    ELSE IF pos = Len(frames) THEN Result(closed, out, b, pos, EOF)
    ELSE LET f == frames[pos + 1]
         IN IF f.error # NoErr THEN Result(TRUE, out, b, pos + 1, f.error)
            ELSE IF f.data = <<>> THEN ReadLoop(room, out, b, pos + 1)
            ELSE LET rn == IF room < Len(f.data) THEN room ELSE Len(f.data)
                 IN ReadLoop(room - rn, out \o SubSeq(f.data, 1, rn),
                             Rest(f.data, rn), pos + 1)

\* Read(p) with len(p) = k, called by the read pump until it fails.
Read(k) ==
    /\ rerr = NoErr
    /\ LET r == ReadLoop(k, <<>>, buf, rpos)
       IN /\ r.ready
          /\ got' = got \o r.out /\ buf' = r.buf /\ rpos' = r.pos /\ rerr' = r.err
    /\ UNCHANGED <<frames, closed, wrote>>

\* Once the call has ended, Recv may fail with the frames not yet received
\* (the outer MsgRecv's select takes ctx.Done() over queued data, or the
\* transport fails); Read returns that error only from a Recv, that is
\* when buf is empty and nothing was copied yet.
RecvCanceled ==
    /\ rerr = NoErr /\ closed /\ buf = <<>>
    /\ rerr' = Canceled
    /\ UNCHANGED <<frames, closed, wrote, rpos, buf, got>>

-----------------------------------------------------------------------------
(* Refinement: the reader sees an ordered byte stream.                     *)

\* Stream items, encoded as ByteStream encodes them.
ByteOf(b) == [kind |-> "byte", val |-> b]
EndOf(e)  == [kind |-> "end", val |-> e]

\* The bytes and end a frame puts on the stream.
FrameItems(f) ==
    IF f.error # NoErr THEN <<EndOf(f.error)>>
    ELSE [i \in 1..Len(f.data) |-> ByteOf(f.data[i])]

BS == INSTANCE ByteStream WITH
        Bytes  <- 1..MaxBytes,
        Ends   <- {EOF} \cup AckErrors,
        Failures <- {Canceled},
        stream <- FlattenSeq([i \in 1..Len(frames) |-> FrameItems(frames[i])])
                  \o (IF closed /\ ~AckFailed THEN <<EndOf(EOF)>> ELSE <<>>),
        got    <- [i \in 1..Len(got) |-> ByteOf(got[i])]
                  \o (IF rerr # NoErr THEN <<EndOf(rerr)>> ELSE <<>>)

\* Read and Write: whatever the chunking of writes and reads, the Ack and
\* the end of the call, the read pump gets the written bytes in order, each
\* Read between one byte and its buffer's size, then the end; a call that
\* ends before every frame was received cuts it off with an error, never
\* with a clean EOF.
ImplementsByteStream == BS!Spec

TypeOK ==
    /\ rpos \in 0..Len(frames) /\ wrote \in 0..MaxBytes
    /\ buf \in Seq(1..MaxBytes) /\ got \in Seq(1..MaxBytes)
====
