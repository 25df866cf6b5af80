----------------------------- MODULE ByteStream -----------------------------
(***************************************************************************)
(* What an io.ReadWriteCloser over a reliable ordered transport promises   *)
(* its reader: the bytes written come out in order, each Read returning    *)
(* between one byte and the size of the caller's buffer, and once the      *)
(* bytes run out an end (EOF or an error) is returned, after which the    *)
(* reader stops.  A failed transport or a canceled call may cut the      *)
(* reader off early, but only with an error: a clean end is returned only *)
(* after every byte written.                                              *)
(*                                                                         *)
(* stream is what the writer has put on the stream: bytes and, at most    *)
(* once and last, an end; got is what the reader has returned.  An item  *)
(* is a ByteItem or an EndItem.                                           *)
(***************************************************************************)
EXTENDS Naturals, Sequences

CONSTANTS
    Bytes,     \* the values a byte may take
    Ends,      \* the ends the writer may put on the stream
    Failures,  \* errors that may cut the reader off once the stream has ended
    MaxRead    \* largest buffer of one Read

VARIABLES stream, got

ByteItem(b) == [kind |-> "byte", val |-> b]
EndItem(e)  == [kind |-> "end", val |-> e]

IsEnd(x) == x.kind = "end"
Ended(s) == s # <<>> /\ IsEnd(s[Len(s)])

Init == stream = <<>> /\ got = <<>>

\* The writer appends one or more bytes, or ends the stream.  Write is
\* stated as a relation between stream and stream', so this module is a
\* property for TLC to check, not a specification it can run.
Write ==
    /\ ~Ended(stream)
    /\ Len(stream') > Len(stream) /\ SubSeq(stream', 1, Len(stream)) = stream
    /\ \A i \in Len(stream) + 1..Len(stream') : stream'[i] \in {ByteItem(b) : b \in Bytes}
    /\ UNCHANGED got
End(e) == ~Ended(stream) /\ stream' = Append(stream, EndItem(e)) /\ UNCHANGED got

\* A Read into a buffer of k bytes returns the next 1..k bytes, stopping
\* at an end token; with no byte left it returns the end.
Unread == SubSeq(stream, Len(got) + 1, Len(stream))
Read(k) ==
    /\ Unread # <<>> /\ ~Ended(got)
    /\ \/ /\ ~IsEnd(Unread[1])
          /\ \E n \in 1..k :
                /\ n <= Len(Unread)
                /\ \A i \in 1..n : ~IsEnd(Unread[i])
                /\ got' = got \o SubSeq(Unread, 1, n)
       \/ /\ IsEnd(Unread[1])
          /\ got' = Append(got, Unread[1])
    /\ UNCHANGED stream

\* Once the writer has ended the stream, the reader may be handed an error
\* in place of whatever it has not read yet.
Fail(e) ==
    /\ Ended(stream) /\ ~Ended(got)
    /\ got' = Append(got, EndItem(e))
    /\ UNCHANGED stream

Next ==
    \/ Write
    \/ \E e \in Ends : End(e)
    \/ \E k \in 1..MaxRead : Read(k)
    \/ \E e \in Failures : Fail(e)

Spec == Init /\ [][Next]_<<stream, got>>
====
