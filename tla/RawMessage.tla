----------------------------- MODULE RawMessage -----------------------------
(***************************************************************************)
(* RawMessage (src/srpc/message.go): a protobuf message that is only a    *)
(* byte slice, copied or retained according to its copy flag.              *)
(*                                                                         *)
(* Memory is a set of backing arrays, each with a capacity and contents;   *)
(* a slice is a backing array and a length (every slice here starts at     *)
(* index 0, as m.data[:n] and make do).  The caller allocates arrays,     *)
(* writes into those it owns, and passes any slice to SetData or           *)
(* UnmarshalVT.  Ownership follows the doc comments: the array given to    *)
(* NewRawMessage is retained, SetData with copy=false retains its          *)
(* argument, GetData and MarshalVT with copy=false return the message's    *)
(* own array; an array the caller made, or MarshalVT with copy=true        *)
(* returned, is the caller's.                                              *)
(***************************************************************************)
EXTENDS Naturals, Sequences

CONSTANTS
    NBufs,    \* backing arrays that can ever be allocated
    MaxCap,   \* largest capacity of an array
    Vals      \* byte values

Bufs   == 1..NBufs
NoBuf  == 0
Nil    == [buf |-> NoBuf, len |-> 0]   \* the nil slice
Zero   == CHOOSE v \in Vals : TRUE     \* what make fills an array with

VARIABLES
    capOf,    \* capacity of each allocated array; 0..MaxCap
    mem,      \* contents of each array, [1..MaxCap -> Vals]
    free,     \* arrays not yet allocated
    mdata,    \* m.data
    mcopy,    \* m.copy
    owned,    \* arrays the caller may write
    mine,     \* what the caller last put in each array it owns
    val       \* the bytes the message was last given

vars == <<capOf, mem, free, mdata, mcopy, owned, mine, val>>

Content(s) == [i \in 1..s.len |-> mem[s.buf][i]]
Cap(s)     == IF s.buf = NoBuf THEN 0 ELSE capOf[s.buf]

\* Slices of allocated arrays the caller can pass, the nil slice among them.
Slices == {Nil} \cup
          UNION {{[buf |-> b, len |-> n] : n \in 0..capOf[b]} : b \in Bufs \ free}

\* make([]byte, n) on array b.
Make(b, n) ==
    /\ free' = free \ {b}
    /\ capOf' = [capOf EXCEPT ![b] = n]

\* NewRawMessage(data, copy): the data slice, of an array the caller
\* filled, is retained as m.data.
Init ==
    /\ mcopy \in BOOLEAN
    /\ \E n \in 0..MaxCap, c \in 0..MaxCap, fill \in [1..MaxCap -> Vals] :
         /\ n <= c /\ \A i \in 1..MaxCap : i > c => fill[i] = Zero
         /\ capOf = [b \in Bufs |-> IF b = 1 THEN c ELSE 0]
         /\ mem = [b \in Bufs |-> IF b = 1 THEN fill ELSE [i \in 1..MaxCap |-> Zero]]
         /\ \/ mdata = [buf |-> 1, len |-> n] /\ free = Bufs \ {1}
            \/ mdata = Nil /\ free = Bufs /\ n = 0 /\ c = 0
    /\ owned = {} /\ mine = [b \in Bufs |-> [i \in 1..MaxCap |-> Zero]]
    /\ val = Content(mdata)

\* GetData returns m.data without copying.
GetData == mdata

\* The copy branch of SetData when m.data is too small: a new array, with
\* or without the data copied into it.
ReallocNoCopy(data, b) ==
    /\ Make(b, data.len)
    /\ mdata' = [buf |-> b, len |-> data.len]
    /\ mem' = [mem EXCEPT ![b] = [i \in 1..MaxCap |-> Zero]]
ReallocCopy(data, b) ==
    /\ Make(b, data.len)
    /\ mdata' = [buf |-> b, len |-> data.len]
    /\ mem' = [mem EXCEPT ![b] = [i \in 1..MaxCap |->
                                    IF i <= data.len THEN mem[data.buf][i] ELSE Zero]]

\* m.data's capacity holds data.
FitsOffByOne(data) == Cap(mdata) + 1 >= data.len
Fits(data) == Cap(mdata) >= data.len

\* SetData(data): with copy, reuse m.data's array when its capacity holds
\* data, else make one, then copy; without copy, retain data.
SetData(data) ==
    /\ IF mcopy
         THEN IF Fits(data)
                THEN /\ mdata' = [mdata EXCEPT !.len = data.len]
                     /\ mem' = IF data.len = 0 THEN mem ELSE
                               [mem EXCEPT ![mdata.buf] = [i \in 1..MaxCap |->
                                  IF i <= data.len THEN mem[data.buf][i] ELSE @[i]]]
                     /\ UNCHANGED <<capOf, free, owned>>
                ELSE /\ \E b \in free : ReallocCopy(data, b)
                     /\ UNCHANGED owned
         ELSE /\ mdata' = data
              /\ owned' = owned \ {data.buf}
              /\ UNCHANGED <<capOf, mem, free>>
    /\ val' = Content(data)
    /\ UNCHANGED <<mcopy, mine>>

\* UnmarshalVT(data) is SetData(data).
UnmarshalVT(data) == SetData(data)

\* MarshalVT handing out m.data in both modes.
MarshalVTNoCopy ==
    IF ~mcopy \/ mdata.buf = NoBuf THEN UNCHANGED vars
    ELSE /\ owned' = owned \cup {mdata.buf}
         /\ mine' = [mine EXCEPT ![mdata.buf] = mem[mdata.buf]]
         /\ UNCHANGED <<capOf, mem, free, mdata, mcopy, val>>

\* MarshalVT: without copy the caller gets m.data itself; with copy a new
\* array holding m.data's bytes, which is the caller's.
MarshalVT ==
    IF ~mcopy THEN UNCHANGED vars
    ELSE \E b \in free :
           /\ Make(b, mdata.len)
           /\ mem' = [mem EXCEPT ![b] = [i \in 1..MaxCap |->
                        IF i <= mdata.len THEN mem[mdata.buf][i] ELSE Zero]]
           /\ owned' = owned \cup {b} /\ mine' = [mine EXCEPT ![b] = mem'[b]]
           /\ UNCHANGED <<mdata, mcopy, val>>

(* The caller: it makes arrays and writes into the ones it owns.          *)
CallerMake(n) ==
    /\ \E b \in free :
         /\ Make(b, n)
         /\ owned' = owned \cup {b} /\ mine' = [mine EXCEPT ![b] = mem[b]]
    /\ UNCHANGED <<mem, mdata, mcopy, val>>

CallerWrite(b, i, v) ==
    /\ b \in owned /\ i <= capOf[b]
    /\ mem' = [mem EXCEPT ![b][i] = v] /\ mine' = [mine EXCEPT ![b][i] = v]
    /\ UNCHANGED <<capOf, free, mdata, mcopy, owned, val>>

Next ==
    \/ \E s \in Slices : SetData(s) \/ UnmarshalVT(s)
    \/ MarshalVT
    \/ \E n \in 0..MaxCap : CallerMake(n)
    \/ \E b \in Bufs, i \in 1..MaxCap, v \in Vals : CallerWrite(b, i, v)

Spec == Init /\ [][Next]_vars

-----------------------------------------------------------------------------

\* The message holds the bytes it was last given: whatever the caller does
\* to the arrays it owns, GetData (and so MarshalVT) returns exactly the
\* data of the last SetData or UnmarshalVT, or of NewRawMessage.
MessageIntact == Content(GetData) = val

\* The message never writes into the caller's memory: an array the caller
\* owns, one it made or one MarshalVT gave it, holds what the caller last
\* put there, whatever SetData copies afterwards.
CallerMemoryIntact == \A b \in owned : mem[b] = mine[b]

TypeOK ==
    /\ mdata \in Slices /\ mcopy \in BOOLEAN
    /\ owned \subseteq Bufs \ free /\ val \in Seq(Vals)
====
