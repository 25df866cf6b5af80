# TLA+ models of starpc

This directory holds TLA+ models of the starpc streaming-RPC runtime, the TLC
configurations that check them, and `PROJECT.json`. `PROJECT.json` lists the
components, runs, mutants, the source-line map, the findings and the hazards.
Every action is translated from the code under `src/`. Code that the spec
describes but that is not in `src/` is modelled from `spec.md`, and is marked
`spec_modelled` in the map. Examples are the packet read/writer, `Packet.Validate`
and the Go `RPCStream`/`ClientRPC`.

## 1. Inventory

### Components, their state and operations

| Component | Source | State | Operations |
|---|---|---|---|
| **ServerRPC** (Go server end of one call) | `src/srpc/server-rpc.go` | `service`, `method`, `dataCh` (buffered channel, capacity 5), `dataChClosed`, `clientErr`, `ctx`/`ctxCancel`, `writer` | `NewServerRPC`, `HandlePacket` → `HandleCallStart` / `HandleCallData` / `HandleCallStartResp`, `invokeRPC` (a goroutine), `Close` |
| **MsgStream** (Go stream given to user code) | `src/srpc/msg-stream.go` 1–87 | `ctx`, the read/writer, `closeCb` | `MsgSend` (checks ctx, then writes CallData), `MsgRecv` (ReadOne), `CloseSend` (CallData{complete}), `Close` (CloseSend, then closeCb) |
| **Generated stubs** (protoc-gen-go-starpc) | `src/unnamed/part_000` 241–755 | none (code generator) | server: `InvokeMethod` dispatch (service must be empty or equal), `InvokeMethod_X` for each call shape, `Send`/`Recv`/`SendAndClose`; client: `Invoke`/`NewStream`, `CloseSend`, `CloseAndRecv` |
| **CommonRPC** (TypeScript call endpoint) | `src/srpc/msg-stream.go` 88–288 | `service`, `method`, `_source` (outgoing packet pushable), `_rpcDataSource` (incoming message pushable) | `writeCallData`, `writeCallCancel`, `writeCallDataFromSource`, `handlePacket`, `handleCallData`, `pushRpcData`, `close`, the sink loop |
| **RpcStream tunnel** | `src/unnamed/part_000` 1–240 | read/writer: `buf` (bytes left from the last Data frame) | `OpenRpcStream` (Init, optional wait for Ack), `HandleRpcStream` (Init, getter, Ack, nested ServerRPC, release), `RpcStreamReadWriter.Read`/`Write`/`Close` |
| **RawMessage** | `src/srpc/message.go` | `data`, `copy` | `SetData`, `MarshalVT`, `UnmarshalVT` |
| **Server pipe** | `src/srpc/server-pipe.go` | none | opens a `net.Pipe`, starts `HandleConn` and the client read pump |
| **HTTP/WebSocket server** | `src/unnamed/part_002` | none | accept loop; `HandleConn` for each stream |
| Not in `src/` | spec §4.1–4.3, §4.5 | | packet codec and framing, packet read/writer (ReadPump, MsgSend, Close), Mux registry, Go ClientRPC |

### How they interact

A call runs over one byte stream. The client writes CallStart, then CallData
frames, then CallData{complete}. On the server a **read pump** goroutine
reads packets and calls `ServerRPC.HandlePacket` for each one.
`HandleCallStart` records the service and method, queues any inline data on
`dataCh`, and spawns `invokeRPC`. `invokeRPC` calls the mux, which runs the
generated `InvokeMethod_X` wrapper around user code. The user code
reads `dataCh` through its stream (`MsgRecv`) and writes through the shared
writer (`MsgSend`, `CloseSend`). When the handler returns, `invokeRPC`
writes a terminal `CallData{complete, error}`, cancels the context and
closes the writer. When the pump stops (EOF or a `HandlePacket` error),
`Close` cancels the context and closes the writer if `service` is empty.

So two goroutines share one ServerRPC: the pump, and `invokeRPC` together
with the user code. They meet in three places:
- the bounded `dataCh`;
- `ctx`;
- the writer.

The peer is a third, independent actor. The RpcStream tunnel nests a whole
second session inside one bidirectional call. Its read/writer turns the
outer call's `Data` frames back into a byte stream for an inner packet
read/writer.
`HandleRpcStream` serves that inner session through an srpc API that differs
from the one in `src/srpc/server-rpc.go`. It calls
`srpc.NewServerRPC(ctx, mux, prw)`, starts
`prw.ReadPump(serverRPC.HandlePacket, serverRPC.HandleStreamClose)`, and
returns `serverRPC.Wait(ctx)`. In `src/`, `NewServerRPC` takes other
arguments, and `HandleStreamClose` and `Wait` do not exist. So the model takes
the served call's behaviour from the spec: `ServeRead`, `ServeWrite`,
`ServeRecvCanceled` and `ServeReturn`.

### What is hard

- **Interleaving.** The pump and `invokeRPC` run concurrently. `Close` guesses
  from `service == ""` whether `invokeRPC` ran. Go's `select` picks at random
  between a canceled context and a free slot in `dataCh`.
- **Backpressure and bounds.** `dataCh` holds 5 payloads. The pump blocks when
  it is full. The non-blocking send in `HandleCallStart` fails when it is full.
- **Protocol order from an arbitrary peer.** A peer can send data before
  CallStart, repeat CallStart, send data after complete, or send CallCancel or
  CallStartResp.
- **Terminal events.** Several writers can emit `complete`: the user's
  `CloseSend`, the generated `SendAndClose`, and `invokeRPC`.
- **Cancellation and release.** A handler blocked in `MsgRecv` must be released
  when the peer goes away.
- **Empty messages.** `dataIsZero` separates an empty message from no message.
- **Tunnel.** The ack handshake, the getter's release callback, and partial
  reads that buffer the rest of a frame.

### What makes each component correct

- ServerRPC:
  - the handler receives exactly the peer's messages, in order;
  - each call is dispatched once, and an unknown method ends with ErrUnimplemented;
  - one terminal packet per call;
  - the writer is closed once, by its owner;
  - a closed peer always leads to the call's release.
- MsgStream: no payload after the side's terminal packet; the next send
  fails once the context is canceled.
- CommonRPC: the first terminal cause wins; a peer's CallCancel or error is
  surfaced; no packet is handled before CallStart.
- RpcStream: the opener opens only when the handler serves; a handler that
  returns frees the opener; the byte view delivers exactly the bytes written,
  in order, however they are chunked. A call cut off early ends the reader
  with an error, never with a clean EOF.
- RawMessage: the message keeps the bytes it was last given, and never
  writes into an array the caller owns, in either copy mode.

## 2. Plan

The modules, in order. The most important behaviour comes first.

1. **`SrpcPackets`** (done): packet records and error names shared by all modules.
2. **`ServerRPC`** (done): the Go server end of a call. It has the pump,
   `invokeRPC`, the user code in each call shape, and the stream operations.
   **`ServerEnv`** (done) composes it with an arbitrary peer. **`MCServerEnv`**
   (done) gives the model values: the README's Echoer service with one method
   of each shape.
3. **`CommonRPC`** and **`CommonEnv`** (done): the TypeScript endpoint against an arbitrary peer:
   - first terminal cause wins;
   - CallCancel handling;
   - `dataIsZero` handling in `pushRpcData`;
   - double `close`.
4. **`ClientCall`** and **`SrpcCall`** (open): the client end (generated client
   methods, MsgStream with its close callback, and a spec-modelled Go ClientRPC).
   `SrpcCall` composes it with ServerRPC over two FIFO channels. Its properties
   are end-to-end:
   - order preservation in both directions;
   - one terminal event per side;
   - cancellation liveness.
5. **`ByteStream`** (abstract) and **`RpcStreamRW`** (done): the tunnel's read/writer.
   `RpcStreamRW` is checked to refine `ByteStream` with `INSTANCE ... WITH`,
   mapping the bytes read so far and the buffered remainder.
6. **`RpcStream`** (done): `OpenRpcStream`/`HandleRpcStream` with the getter, the
   Ack and the release callback, composed with `RpcStreamRW`; its run replaced
   the standalone `rpcstream_rw` run.
7. **`RawMessage`** (done): buffer ownership under `copy` true and false.
8. **`MsgSend` in two steps** (done): its `ctx.Done()` check and its write are
   separate steps of `ServerRPC`, so Close can cancel between them. No
   property is stated about this. Spec §5 promises only that the next send
   fails, and that is `MsgSendCheck`'s guard.
9. **Both tunnel directions** (done): `RpcStream` drives a second
   `RpcStreamRW` for the opener's writes, closed by `MsgStream.Close`.

Item 4 stays open: its runs would need a Go `ClientRPC` that is not in
`src/`, and every property it would check end to end rests on that
spec-modelled client.

## 3. Modules and runs so far

### `ServerRPC.tla`

The variables are the fields of `ServerRPC`, plus:
- the pump's position in the peer's packet history (`inbox`, `pumpPos`, `pump`);
- the `invokeRPC` goroutine (`inv`) and the handler's program counter (`hpc`, `retErr`, `ops`);
- the writer (`out` and `writerCloses`);
- `pend`, the `MsgSend` that has passed its context check and not yet written;
- history variables (`recvd`, `recvEnd`, `result`).

The actions and the code they model:

| Action | Code |
|---|---|
| `HandleInvalid` | `HandlePacket`, when Validate fails |
| `HandleCallStart` | `HandleCallStart` (server-rpc.go 73–96) |
| `HandleCallData` | `HandleCallData` (100–125). The select is a disjunction. The action is disabled while the channel is full and the context is live, which is the blocked send. |
| `HandleCallStartResp` | `HandleCallStartResp` |
| `HandleOther` | the default case of `HandlePacket` (CallCancel is ignored) |
| `PumpEOF` | ReadPump returns at EOF (spec-modelled) |
| `Close` | `Close` (150–156) |
| `InvokeStart`, `InvokeFinish` | `invokeRPC` before and after `InvokeMethod` |
| `MsgSendCheck`, `MsgSendWrite` | `MsgStream.MsgSend` (msg-stream.go 46–59) in two steps: the select on `ctx.Done()`, then `MarshalVT` and `WriteCallData`. Another goroutine can cancel the context between them. `MsgSendWrite` also finishes the caller: the unary wrapper returns, `SendAndClose` goes on with `CloseSend`, streaming user code resumes. |
| `RecvRequest`, `UnaryImpl` | the generated wrappers (`MsgRecv(req)`; `out, err := impl(...); return MsgSend(out)`) |
| `ImplRecv`, `ImplSend`, `ImplSendAndClose`, `ImplCloseSend`, `ImplReturn` | user code of the streaming shapes. It calls the generated `Recv`/`Send`/`SendAndClose` and `CloseSend`, and returns nil or an error. It stops receiving at EOF and returns a receive or send error. |

Payloads are numbers, so order is observable. 0 is the zero-length payload.
The writer drops packets after it is closed, and `MsgSend` then returns an
error.

`ServerEnv.tla` adds the peer. It writes any packet from the wire schema, up
to `MaxPeerPackets`, and may then close the stream. Constants choose whether
it may send data before CallStart, empty messages, or CallCancel. CallCancel
is always the peer's last packet, because spec §3 makes it a terminal event. The module
also defines the spec's reference behaviour:
- `Expected` is a RECURSIVE operator: the messages spec §4.6 says the handler
  receives from a packet sequence. Following spec §3 and §4.5, CallCancel is a
  terminal event, so nothing after it is expected.
- `Dispatches` is the mux rule of spec §4.3.

### Runs (`MCServerEnv`)

| Run | cfg | Expect | What it shows |
|---|---|---|---|
| server_call | ServerEnv_call.cfg | pass | `TypeOK` and `HandlerSeesPeerStream`: the peer opens with CallStart and may then repeat CallStart, send data after completing, an error, CallStartResp or a final CallCancel. The handler still receives exactly the peer's messages, in order, and `dataCh` never exceeds its capacity. `InvokeMatchesCall` and `PeerCloseReleases`: the calls cover every shape, an omitted service, another service, an unknown method and an invalid CallStart. The handler runs only for a dispatched call, and ErrUnimplemented is sent exactly for an undispatched one. After the peer closes the stream, ctx is canceled, the handler ends and the writer is closed (1.3M states, about 2 min). |
| server_empty | ServerEnv_empty.cfg | violation | an empty message (dataIsZero) never reaches the handler |
| server_clienterr | ServerEnv_clienterr.cfg | violation | the peer's error reaches the handler as a clean EOF |
| server_terminal | ServerEnv_terminal.cfg | violation | SendAndClose followed by invokeRPC's terminal gives two terminal packets |
| server_closeonce | ServerEnv_closeonce.cfg | violation | a service-less call has its writer closed by Close under a running handler, then again by invokeRPC |
| server_hang | ServerEnv_hang.cfg | violation | data before CallStart is accepted. When it fills `dataCh` it blocks the pump forever. |

The findings in `PROJECT.json` explain each violation against the spec text
or code comment that it contradicts.

Two divergences are known but have no run. Each is stated as a hazard in
`PROJECT.json`:
- **CallCancel.** `HandlePacket` has no case for CallCancel, so the call goes on
  after the peer cancels. A peer that ends with CallCancel gets the outcome
  the spec wants anyway, because nothing follows it, and `server_call` checks
  that case. A peer that sends after its CallCancel would have its data
  delivered. That case is not modelled here; `client_cancel` shows the same
  gap on the TypeScript side.
- **Data before CallStart.** With `PeerLeadsWithData = TRUE`,
  `HandlerSeesPeerStream` fails, because the leading data reaches the handler
  that a later CallStart starts. `server_hang` shows the worse outcome of the
  same missing check.

For this reason `server_call` keeps `PeerLeadsWithData` FALSE.

### Bounds and why they suffice

- **`DataChCap = 2`, not the code's 5.** The code depends on capacity only
  through "full" versus "has room". With 2, the peer can fill the channel in
  4 packets, so blocking, the failed non-blocking send in `HandleCallStart`
  and the unblocking by cancellation all occur.
- **`MaxPeerPackets = 3`.** CallStart, then any two of data, complete, error,
  repeated CallStart, CallStartResp or a final CallCancel, over every target. Two data
  packets fill `dataCh`, so the capacity check is reached. The stream and
  dispatch checks share one run because the liveness check makes 4 packets
  take over 15 minutes.
- **`MaxHandlerOps = 2`.** This lets user code receive then send, send then
  half-close, or receive twice, which are the orders that matter to the
  properties.
- **Call targets.** They cover each shape, an omitted service, another
  service, an unknown method and an invalid CallStart.

### Fairness

`ServerFairness` puts weak fairness on five groups of steps:
- the pump's steps;
- `Close`;
- `InvokeStart`;
- the handler's steps;
- `InvokeFinish`.

These are goroutines that the Go scheduler runs whenever they can proceed. For
the handler, this assumes that user code blocks on nothing but its stream.
The peer's `PeerClose` is weakly fair only in the liveness runs. The
property's premise is that the peer closes the stream.

### `CommonRPC.tla` and `CommonEnv.tla`

These model the TypeScript `CommonRPC` class (lines 88-288 of
`src/srpc/msg-stream.go`). JavaScript runs one task at a time, so an action is
the code of one async function between two `await`s. Three tasks touch one
call:
- **the sink loop:** actions `HandlePacket`, `HandlePacketThrows`, `SinkEOF`,
  `SinkStreamErr` and `SinkCatch`;
- **`writeCallDataFromSource`:** actions `WriteData`, `WriteComplete` and
  `WriteFail`;
- **calls to `close(err)`:** `handlePacket`'s catch, the sink's catch and the
  writer call `close` without awaiting it. `CloseStart` is the code up to its
  `await` on `writeCallCancel`, which pushes CallCancel. `CloseFinish` is its
  `finally` block. Pending closes are the sequence `closing`, and they finish in
  the order they were called, as equal-depth microtasks do.

The two `it-pushable` queues are `src`/`srcEnded` (outgoing packets) and
`rdsMsgs`/`rdsEnd` (what the application reads). The model follows that
library: a push after `end` is dropped, and the first `end` wins.

`CommonEnv` adds three actors:
- **the peer:** it writes any packet and then ends the stream by EOF, reset
  or a transport error;
- **the application:** it may call `close()`;
- **the reference `ClientExpected`:** a RECURSIVE operator giving the messages
  spec §4.5 says the client delivers.

The TypeScript client and server subclasses are not in `src/`. `HasCall`
stands for what their constructors set.

| Run | cfg | Expect | What it shows |
|---|---|---|---|
| client_call | CommonEnv_call.cfg | pass | `ReceiveMatchesPeer`: the reader gets exactly the peer's messages in order, empty ones included, and nothing after a terminal packet. `EndReleasesReader`: every way the stream ends ends the reader's queue (1.8M states, about 1.5 min). `CommonRPC`'s `TypeOK` is not in the run. It bounds `sent` by the environment's `LocalMessages`, so no mutant of the code can break it. |
| client_cancel | CommonEnv_cancel.cfg | violation | a peer's CallCancel is ignored, and data after it is delivered |
| client_end | CommonEnv_end.cfg | violation | EOF or reset before the peer's complete ends the reader's queue cleanly. A packet that fails to handle loses its error to the same clean end: the sink's catch runs one microtask before close's `finally`. |
| client_terminal | CommonEnv_terminal.cfg | violation | close() lets the writer push data after its CallCancel, and adds a terminal packet after the writer's complete |

The bounds are 3 peer packets (2 in the violation runs) and 1 local message.
The peer can then send data, an empty message, an error and a CallStart in
every order, and every await point in the writer and in close() interleaves
with them.

`RpcFairness` is weak fairness on the sink and on pending closes. The event
loop runs every ready continuation. The writer gets no fairness, because it
waits on the application's data source, which need not yield.

### `ByteStream.tla` and `RpcStreamRW.tla`

`RpcStreamRW` models one direction of the rpcstream tunnel's
`RpcStreamReadWriter` (`src/unnamed/part_000` 156-240):
- `Write` sends one Data frame per non-empty buffer;
- `Read` is the RECURSIVE operator `ReadLoop` that the `Read` action evaluates.
  It drains `buf`, returns once it has copied something, and skips empty
  frames. It fails on an Ack error, copies what fits and buffers the rest
  (`Rest`).

The Ack that `HandleRpcStream` sends may be the first frame. That is what an
`OpenRpcStream` with `waitAck` false sees.

`ByteStream` is what any `io.ReadWriteCloser` promises its reader:
- the written bytes come out in order;
- each Read returns between one byte and the buffer size;
- the stream then ends.

The refinement mapping flattens the frames into the abstract stream: bytes,
then the Ack's error or EOF. The bytes read so far are mapped to `got`,
followed by the error `Read` returned.

Once the call has ended, `RecvCanceled` lets `Recv` fail with frames still
unreceived. This is the outer `MsgRecv`'s select taking `ctx.Done()` over
queued data, or a failed transport. `Read` can return that error only from a
`Recv`, that is, with `buf` empty and nothing copied yet. `ByteStream`'s
`Fail` is the abstract counterpart. Once the writer has ended the stream, the
reader may be handed an error in place of what it has not read yet, but a
clean EOF still comes only after every byte.

`RpcStreamRW` has no run of its own: `RpcStream` drives its `Write` and
`Read` and checks the same refinement.

The byte bounds in the `rpcstream` run are 6 bytes, in writes of 1 to 3 and
reads of 1 or 2. So a frame can be longer than the buffer, split over three
reads, or read together with the rest of an earlier frame.

### `RpcStream.tla`

`RpcStream` models the whole tunnel (`src/unnamed/part_000` 28-154), with one
action per step between two blocking points. Each direction of the tunnel is
an instance of `RpcStreamRW`: `RW` carries the handler's Ack and writes to the
opener, `Up` carries the opener's writes to the served ServerRPC.

The opener (`OpenRpcStream`) has these actions:
- `OpenSendInit`: send Init.
- `OpenRecvAck`: wait for the Ack. `AckErr` is its switch. An Ack error, any
  other packet or a Recv error closes the call.
- `OpenRead`: the read pump `NewRpcStreamOpenStream` starts, reading through
  `RpcStreamRW`'s `Read`.
- `OpenRecvCanceled`: once the call is closed, the opener's `Recv` may fail
  before frames still in flight. This is spec-modelled, from the Go
  `ClientRPC`, which cancels its context on close and on a transport error.
  `OpenRecvAck` fails the same way while it waits for the Ack.
- `OpenWrite`: `RpcStreamReadWriter.Write` through `Up`'s `Write`, while the
  call is open.
- `OpenClose`: `RpcStreamReadWriter.Close`, which is `MsgStream.Close`
  (`CloseStream`, msg-stream.go 75-83): `CloseSend` half-closes the call, and
  the close callback then ends the call. So the handler reads either EOF
  after the opener's frames, or, through `ServeRecvCanceled`,
  `context.Canceled` before some of them. The failed-Ack paths of `OpenRecvAck` close the same
  way.

The handler (`HandleRpcStream`) has these actions:
- `HandleRecvInit`: Recv Init. An empty component ID or a Recv error returns
  at once.
- `HandleLookup`: the getter, over all 8 combinations of mux, release and
  error. No mux and no error becomes "no server".
- `HandleAck`: send the Ack. The handler returns on an error or a failed Send,
  and otherwise serves.
- `ServeWrite`: the served mux writes Data through `RW`'s `Write`.
- `ServeRead`: the served ServerRPC's read pump (line 152) reads through
  `Up`'s `Read`.
- `ServeRecvCanceled`: once the call is closed, that read pump's `Recv`, which
  is the outer `MsgRecv`, may return `context.Canceled` with frames queued.
- `ServeReturn`: `serverRPC.Wait` returns.

Every return runs `Return`, which calls the deferred release if `Deferred`
(line 127) says so, and ends the outer call. `Abort` is the transport failing
the outer call at any time. It is the fault that makes a handler's Ack Send
fail, or an opener's Recv fail. After an abort, either reader may still
receive the frames already sent, or be cut off by the canceled `Recv`. The
model also lets a reader that got every byte see EOF after an abort. That is
more permissive than the code, where the reader would see an error, but it
hides no lost byte.

The environment is:
- `waitAck`, drawn from both values;
- the component ID, `""` or a name;
- the getter's result.

| Run | cfg | Expect | What it shows |
|---|---|---|---|
| rpcstream | RpcStream.cfg | pass | `AckAgreement`: with waitAck, the opener opens only when the handler went on to serve a mux. After a good Ack, the opener fails only because the call was closed under it, for example by an abort before the Ack arrived. `OpenerUnblocked`: whatever makes the handler return, the opener's open then fails or its read pump ends, so nothing is left blocked in Recv. `ImplementsByteStream`: both directions refine `ByteStream`. The opener's read pump gets the handler's bytes in order, with or without waiting for the Ack. The served ServerRPC gets the opener's bytes in order. When the opener's Close or an abort ends the call with frames in flight, either reader is cut off with `context.Canceled`, never with a clean EOF that hides lost bytes (314k states, about 1.7 min). |

`UpMaxBytes = 3` bounds the opener's direction. A write of 3 bytes read
through a buffer of 2 still splits a frame across two Reads, and the smaller
bound keeps the product of both directions within a minute.

The fairness is weak fairness on three goroutines: `OpenRpcStream`, the
opener's read pump, and the handler up to `Wait`. `ServeReturn` is fair only
once the call is closed, since `Wait` then returns on the canceled ctx. The
served call need not end by itself, and neither `OpenClose` nor `Abort` is
fair. The canceled `Recv`s are not fair either: Go's select need not take
them. `OpenerUnblocked` needs only the opener's two fair groups: once the
handler has returned, the call has ended, so the open or the next Read
fails.

### `RawMessage.tla`

`RawMessage` (`src/srpc/message.go`) models memory as backing arrays, each
with a capacity and contents. A slice is an array and a length. Every slice
the code makes starts at index 0, since `m.data[:n]` and `make` do.

The message's operations are actions:
- `Init` is `NewRawMessage`, with a nil slice or a retained array.
- `SetData`, and `UnmarshalVT`, which calls it:
  - with copy, reuse `m.data`'s array when `Fits`, or make a new one
    (`ReallocCopy`), then copy;
  - without copy, retain the argument.
- `MarshalVT`: with copy, a new array; otherwise `m.data`.

`GetData` is `m.data`.

The caller makes arrays (`CallerMake`) and writes into those it owns
(`CallerWrite`). Ownership follows the doc comments on `NewRawMessage` and
`SetData`:
- the constructor's array and a copy=false argument are retained by the
  message;
- `GetData` and a copy=false `MarshalVT` return the message's own array;
- arrays the caller made, and `MarshalVT`'s copies, are the caller's.

| Run | cfg | Expect | What it shows |
|---|---|---|---|
| rawmessage | RawMessage.cfg | pass | `MessageIntact`: GetData always returns the bytes last given to NewRawMessage, SetData or UnmarshalVT. `CallerMemoryIntact`: an array the caller owns holds what the caller last wrote. Both hold in both copy modes, through reallocation, in-place reuse and MarshalVT copies. `TypeOK` includes that no slice reaches past its capacity (430k states, about 25 s). |

The bounds are 4 arrays of capacity up to 2, and byte values 0 and 1. That is
enough for:
- a copy to be reused in place after a reallocation;
- a MarshalVT copy to be held while SetData rewrites `m.data`;
- the boundary `cap = len` and empty and nil slices.

### Not modelled, and why

The following are not modelled:
- **Protobuf encoding and varint framing.** Packets are records. The framing
  code is not in `src/`.
- **Logging, name formatting in the code generator, and WebSocket accept.**
  None of these changes the state of a call.
- **The Go `ClientRPC`, `Mux.Register` and `Server.HandleConn`.** Their code is
  not in `src/`. The parts that the server model needs are spec-modelled, and
  the Go client is not modelled.
- **The TypeScript `ClientRPC`/`ServerRPC` subclasses.** Their code is not in
  `src/`. `CommonEnv`'s `HasCall` and `AppClose` stand for what they do to
  `CommonRPC`.
- **`NewRpcStreamClient`, and the object construction in
  `NewRpcStreamOpenStream`.** They only build objects. The read pump that
  `NewRpcStreamOpenStream` starts is `OpenRead`.
- **`HandleRpcStream`'s "expected init packet" path.** `OpenRpcStream` always
  sends Init first, so the path is unreachable between these two functions.
- **`NewServerPipe`** (`src/srpc/server-pipe.go`). It opens a `net.Pipe`, runs
  `HandleConn` on one end and a `PacketReadWriter` read pump on the other, and
  closes that read/writer when its pump fails. None of `HandleConn`,
  `NewPacketReadWriter`, `ReadPump` or `Close` is in `src/`, so a model would be
  made only of spec-modelled calls. The call it carries is the modelled
  `ServerRPC`.
- **`HTTPServer.ServeHTTP`** (`src/unnamed/part_002`). It is a WebSocket
  accept loop with logging. Each stream it accepts is handed to the server.
- **A second `MsgStream.Close`.** `Close` is modelled once, as the RpcStream
  opener's `CloseStream`. Called again it would send another
  CallData{complete} and call the close callback again, although spec
  invariant 6 says close is idempotent. The callback is the Go `ClientRPC`'s,
  which is not in `src/`, so nothing modelled observes the repeat.
- **The getter's deferred release.** `Return` adds it when `Deferred` holds,
  but no property states when it runs. It runs after `serverRPC.Wait`
  returns, and `Wait` is not in `src/`. A property about the release would
  restate `Deferred`, or rest on the assumed fairness of `ServeReturn`.
