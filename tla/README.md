# sansrpc in TLA+

sansrpc is a small RPC library in Rust, written sans-io: a protocol state that
does no I/O, adapters that drive it over a Tokio or a Compio socket, and a
service that multiplexes requests, responses, streams and oneshots over one
connection. This directory holds TLA+ models of it, the TLC runs that check
them, and TLAPS proofs about the protocol state, the two adapters and the
services of two peers.

## 1. Inventory

| Component | Source | State it keeps | Operations | Talks to |
|---|---|---|---|---|
| ConnectionState | `sansrpc-proto/src/connection_state.rs` | send queue, send buffer; receive buffer, receive queue | `feed_item`, `process_write`, `consume_bytes`, `consume_all`, `available_space`, `write_queue_empty`; `feed_bytes`, `process_read`, `consume_item` | an adapter calls it |
| Messages, coders | `sansrpc-proto/src/{message,encoder,bincode,json}.rs` | none | `encode`, `decode` | ConnectionState |
| Tokio adapter | `sansrpc-tokio/src/tcp.rs` | ConnectionState, `ReadState`, `WriteState` (each Idle or a stored future) | `poll_ready`, `start_send`, `poll_flush`, `poll_close`, `poll_next` | socket; used as Stream and Sink |
| Compio adapter | `sansrpc-compio/src/{lib,tcp}.rs` | the same, also as two split halves | the same | socket |
| SansService | `sansrpc-service/src/sans_service.rs` | tables id -> oneshot sender and id -> stream sender; streams of outgoing responses and items; interaction channel | `next_message`, `recv_request`, `recv_stream` | reader and writer; handle; caller |
| ServiceHandle | `sansrpc-service/src/handle.rs` | sender of the interaction channel | `send_request`, `send_stream`, `send_oneshot`, drop | SansService, by a channel |
| ServiceInner | `sansrpc-service/src/service.rs` | a SansService and a service | `run`; spawns a task per message | handlers, by oneshot and item channels |
| Facade crate | `sansrpc/src/lib.rs` | none | `Runtime::spawn`; `MyServiceImpl::run`, the loop of its example service, which awaits the handlers; `serve` | SansService |
| Macros | `sansrpc-macros/src` | none | return their input | - |

What is hard in each, and what makes it correct:

* **ConnectionState.** Chunks of any size cross frame boundaries; buffers refuse
  and overshoot; either coder may fail in the middle of a queue. Correct: every
  byte in one place and in order, messages out as they went in, errors that
  cost no more than they must.
* **Adapters.** An operation can be dropped at any await and leaves a
  half-written future behind; a stored future that has completed panics when
  polled; sockets fill, reset and end. Correct: a flush that returned has
  written everything, the end of the stream after a close means everything was
  received, no bytes of two batches are interleaved, no operation hangs.
* **SansService.** Four sources selected at random, one socket, `writer.send`
  awaited inside an arm, unwraps on channels whose other end belongs to
  somebody else. Correct: an answer goes to its own call, items stay in order
  on their stream, a call returns, a service panics for no other reason than
  those one can name.
* **ServiceHandle and the loops.** A caller gives up while its answer is under
  way and uses the id again; a handle is dropped, after which the select loop is
  always ready; a handler fails, or takes its time in the loop that should read;
  either service goes at any moment. Correct: a call is handled at most once and
  answered by its own handler, an end of a stream comes after its items, and
  whoever waits for something that cannot come any more is told.

Every hazard, at its line, with the properties that cover it or the reason none
does, is in `PROJECT.json` under `hazards`.

## 2. Modules

    MessageChannel            what one direction of a connection promises
         ^   ^ implements
         |   '---- TokioConnection, CompioConnection    one adapter each
         |                   | extend
         |          SocketConnection                    what they share
         |                   | extends
    FramedLink --> ConnectionState                      the two halves' operations

    CallService               what two peers promise to their applications
         ^ implements
    RpcSystem                 handles, the two loops, handlers, two peers
         | extends
    SansService               next_message, recv_request, recv_stream

    ConnectionState_proofs    lemmas on runs of bytes, frames and the two loops
      |-- FramedLink_proofs           about FramedLink
      '-- SocketConnection_proofs     the invariants and steps the adapters share
            |-- TokioConnection_proofs
            '-- CompioConnection_proofs
    RpcInvariant              the inductive invariants of RpcSystem
    RpcSystem_proofs -> RpcInvariant_proofs -> RpcResults_proofs

### ConnectionState

One action per method of `ConnectionWriteState` and `ConnectionReadState`. The
loops of the two `process` methods are described by their turns (`EncodeNext`,
`EncodeError`, `EncodeDone`; `DecodeNext`, `DecodeError`, `DecodeDone`), and the
modules that use them keep the half busy until a turn returns, as `&mut self`
does. The module describes one direction, a write half and the read half of the
peer; `into_split` shows that the halves of one connection share nothing.

A byte is its position in the sender's stream, and the history variable `frames`
says which message each frame carries, so a lost, repeated or moved byte is
visible and a buffer can be compared with what it should hold. A coder is a body
length for each message and two sets, the messages it rejects when encoding and
when decoding. Reading a length prefix is reading the frame that begins at the
first byte of the buffer. If the buffer did not begin at a frame, no decoding
step would be enabled; `ByteConservation` shows that this does not happen.

### FramedLink and MessageChannel

`FramedLink` drives the two halves as liberally as their interface allows: feed,
process, consume a portion or all, offer a chunk of any size up to `MaxChunk`,
consume an item, in any order, with encoding and decoding interleaved with the
peer's calls. It keeps what `feed_bytes` refuses. It is what ConnectionState
asks of an adapter. It implements `MessageChannel` with `sent` the encoded
messages and `received` the consumed ones: in order, none skipped, up to the
first message the receiver's coder rejects.

### SocketConnection, TokioConnection, CompioConnection

One direction between two adapters of a kind. The sending task runs `feed`,
`flush` or `close` of `SinkExt`, one at a time, and may drop it while it is
pending (`Cancel`); each turn of a `poll_*` loop is a step, and a poll that only
returns Pending is no step. `write_state` and `read_state` are the variants of
the enums, `writing` is what the stored `write_all` has left, `buf` is what was
read and not yet fed, and `write_fut`, `read_fut` say whether the stored future
has already completed, since polling it again panics. The socket holds
`SocketCapacity` bytes. The receiving task calls `poll_next` until the end of
the stream and goes on after an error. Faults: the owner drops the connection
(`"drop"`), the network resets it (`"break"`).

`SocketConnection` holds the state and what the two adapters do alike, with the
properties. `map` names the Tokio lines for it; the Compio code is the same up to
names. What differs is in the two other modules:

| | Tokio | Compio |
|---|---|---|
| `poll_ready` while closing | pending, no waker (142) | ready, then ConnectionReset (257, 263) |
| message handed back by `feed_item` | ignored (152) | WouldBlock (268) |
| a write that was submitted | goes on when polled | goes on in the kernel (`KernelWrites`) |
| read buffer | twice the receive buffer (26) | as long as it (32) |
| a refused chunk | kept and fed again (91) | dropped (110) |
| `poll_flush` | writes what is encoded | processes the queue first (285) |
| at the end of the stream | the completed read stays stored | the reader is kept (132) |

### SansService, RpcSystem, CallService

`SansService` is `next_message` with one action per arm and message kind, plus
`recv_request` and `recv_stream`. An arm that sends moves the loop to `"send"`,
where it does not read, until the message is on the connection (`FinishSend`)
or the send fails (`FailSend`): because the peer is gone, and with the peer
alive because the connection is reset or the coder rejects the message
(`start_send`'s InvalidInput). A failed read (`TakeEnd`, the `?` of line 60) has
the same causes, the coder's being that it cannot decode what arrived. Sending a
call unwraps the result and panics, a response or an item returns the error.
`loop` also says that the caller runs a handler
before it calls `next_message` again (`"handle"`), and how `next_message` ended:
`"ended"` (Ok(None)), `"failed"` (Err), `"panicked"`.

`RpcSystem` adds the application's calls through the handle, the loops that
serve the peer's calls, their handlers, and the connection between two peers as
a message channel each way, which is what FramedLink and the adapters implement,
holding `ChannelSize` messages. Either peer may make calls. A call is the data
of its messages; the tables are indexed by the id the application gave it.

| In the model | In the code |
|---|---|
| `caller[c] = "waiting"` | `send_request` awaits `rx`; it has `&mut self`, so the handle is not free (`HandleFree`) |
| `"answered"`, `"cancelled"`, `"panicked"` | it returned; its future was dropped; `rx.await.unwrap()` panicked |
| `"open"`, `"dropped"` | the receiver of `send_stream` is read; the application dropped it |
| `"ended"`, `"cut"` | the receiver saw its end: after `CloseStream`; because its sender went with the service. To the application they look the same |
| `handler[c]` | `"called"`: awaited in the loop; `"running"`: a spawned task; then how it ended; `"closed"`: and the peer was told so |
| `outgoing_responses[c]`, `outgoing_stream[c]` | the oneshot in the `FuturesUnordered`; the channel in the `SelectAll` |
| `Spinning(p)` | all handles dropped and their channel empty: the interaction arm is ready with None and continues |
| `p \notin Inline` | `ServiceInner::run` (`service.rs`): a spawned task for each call |
| `p \in Inline` | `MyServiceImpl::run` (`sansrpc/src/lib.rs`): handlers are awaited in the loop, and what emits a stream's items is spawned afterwards |
| `p \in OneThread` | the executor has one thread, for the loop, the handlers and the I/O: while the loop spins none of them runs (`Starved`) |
| `Reused` | ids the application gives to a request again after it gave up the one that had it; the others it does not (`IdFree`) |

When `run` ends the service is dropped and with it its tables and the handler it
awaits, as in the tests, where the service is moved into the task that runs it.
Faults: a caller drops `send_request` (`"cancel"`), a stream's receiver
(`"drop_stream"`) or the handle (`"drop_handle"`); a handler returns an error
or, awaited in the loop, panics there or is handed data of another kind
(`"fail"`; `FailInline`, the `unreachable!()` of `sansrpc/src/lib.rs` 226, 242
and 250); the task that emits a stream's items is lost unnoticed (`"spawn"`:
line 51 ignores that a dispatcher refused it, line 39 drops the handle of the
task, which may cancel it); a service is dropped (`"stop"`); the network resets
the connection (`"reset"`); a coder rejects a message, at either end (`"code"`);
a peer sends `CloseStream` (`"close"`), which
`next_message` handles and no code here sends, so that action is external.

A reset has no state of its own: a service with `"reset"` among the faults may
meet it in any read or send, and is gone then. Until it does, the messages that
the reset will lose count as on the connection, which is how far `NoCallLost`
goes. Since a service that met it is gone, its peer meets the end or an error in
turn (`BothEnd`).

`CallService` is the promise to an application, without ids, tables, messages
and connection: a call is made, executed at most once, answered at most once and
only after its own handler returned; items arrive in order without a gap, and a
stream ends after the last. `RpcSystem` implements it with `Phase` and
`Execution` as the mapping; a call that got another's answer counts as lost.

Definitions whose name ends in `_mutant` are the definition they are named after
with a plausible mistake. They are used nowhere in the specifications;
`PROJECT.json` says which property of which run notices each of them.

## 3. Runs

| Run | Question | Distinct states |
|---|---|---|
| `FramedLink_errors` | Does any driver and chunking keep order and bytes, with messages either coder rejects? Is the channel implemented, liveness included? | 77 000 |
| `FramedLink_space` | Does `available_space` count the free places, as its comment says? **No.** | - |
| `TokioConnection_faults` | Do cancellation, drop, reset, coder errors and an oversized frame leave the bytes in order, mean flush and close what they return, and has a receiver that sleeps returned what was flushed? | 1 230 000 |
| `TokioConnection_live` | Without faults: does a flush return, does what it covered arrive, is a close seen? | 69 000 |
| `TokioConnection_feed` | Does a feed return, also after a close? **No.** | - |
| `CompioConnection_faults` | The same for Compio: what can be lost or left behind, and can anything come out of order? | 1 840 000 |
| `CompioConnection_live` | Without faults and long frames: is nothing lost, does a feed return, also after a close, is a close seen? | 92 000 |
| `CompioConnection_end` | Does an ordinary end after a successful close mean everything arrived, as the test asserts? **No.** | - |
| `RpcSystem_requests` | Does each request get its own answer, what panics a caller or a service, and is CallService implemented, with ids used again too early and messages a coder rejects? | 1 210 000 |
| `RpcSystem_streams` | Do two streams sharing a connection with a request stay in order and end after their items, to a service that awaits its handlers and panics with them? | 660 000 |
| `RpcSystem_calls` | Does every request of either peer return or panic, whatever fails? Is one ever lost between its stations, or everybody stuck? | 400 000 |
| `RpcSystem_sends` | Is a blocked send freed, and does every item of an open stream arrive? Does a service end when its peer did, and does each step bring the end nearer, on a connection that may be reset? | 81 000 |

### Bounds

* `FramedLink_errors`: four accepted messages of one to three body bytes with a
  prefix of two, so chunks cut the prefix and the body; queues of two, so both
  fill with a third message waiting; a receive buffer of four and chunks of up
  to three, so refusals and overshoots happen. The frames that are decoded have
  three bytes and the undecodable one four: liveness needs every frame to fit
  the buffer.
* `TokioConnection_faults`, `CompioConnection_faults`: three messages out of an ordinary, an undecodable,
  an unencodable and one whose frame is longer than the receive buffer; a
  socket of six bytes, too small for the long frame and another, so write_all
  is pending and can be cancelled half way.
* `TokioConnection_live`, `CompioConnection_live`: a socket of three bytes, the
  longest frame; oversized frames are left out, since Tokio's `poll_next` then
  never returns and Compio's drops bytes (`RefusesOnlyLongFrames` in `TokioConnection_faults`
  shows for the feeding code they share that this is the only case).
* All RpcSystem runs: channels of one message, so that senders block. A message
  is in the connection at most once, so longer channels add interleavings, not
  kinds of state.
* `RpcSystem_requests`: three requests of one client and two ids, one of which
  is used again too early. Three are the least with which a request whose answer
  went astray can itself get a third one's answer, the chain `AnswersOwnCall`
  allows. One client is enough for what these properties say: a peer's own calls
  and the calls it serves use different tables.
* `RpcSystem_streams`: two streams of two items and a request, so that items of
  each can be before and behind the other's and the response; dropped receivers,
  lost tasks, closed streams and handlers that panic in the loop.
* `RpcSystem_calls`: a request and a oneshot of each peer, so that both can be
  sending, each to a full channel; the server awaits its handlers and has one
  thread.
* `RpcSystem_sends`: a stream of two items against two oneshots, the least with
  which the items of one peer and the calls of the other fill both channels.
* Faults: each run has those its properties are about, and between them the runs
  have all. A coder that rejects messages (`requests`, `calls`) makes reads and
  sends fail whenever there is a message, a reset (`sends`) at any time; to a
  service the two are the same but for a read with nothing to read.
* Ids of open streams are not used again (`IdFree`): nothing in the code says
  what an application may choose.

Deadlock is not checked where the system may stop: both tasks may have ended or
panicked, all calls may be over. It is checked in the FramedLink runs.

### Fairness

* FramedLink: a driver makes its calls in rotation, as the loops of `poll_next`
  and `poll_flush` do, hence strong fairness of the calls that can be enabled
  and disabled by others; a loop under way goes on (weak). The application is
  not obliged to send.
* TokioConnection, CompioConnection: weak fairness of the sending task's step
  and the receiving task's step, the executor polling a task that was woken, and
  for Compio of the kernel's operations. Nothing obliges the
  sending task to begin an operation, to cancel one or to drop anything.
* RpcSystem: some step of a loop, a handler or a woken caller is taken while one
  can be (weak fairness of `Progress`). Every call makes finitely many messages
  and items, so no step repeats for ever (`StepsAdvance`), and this is as much as fairness of each
  arm of `select!`, which polls them in a random order, and of each task. What
  an executor starved by a spinning loop would have to do is not in it
  (`Starved`). Nothing obliges an application to make a call, a handler to emit
  an item, or anything to fail.

### What the three violations show

* `available_space` (`connection_state.rs:235`) subtracts the *larger* of the
  queue's length and size and is always 0, where the comment says it is the
  space counted in items.
* `poll_ready` (`sansrpc-tokio/src/tcp.rs:142`) is pending without a waker once
  the connection is closing. `feed` or `send` after a close hangs instead of
  failing with the ConnectionReset `start_send` has for it. The Compio adapter
  has no such state: `FeedReturns` holds in `CompioConnection_live`.
* Compio's `poll_next` (`sansrpc-compio/src/lib.rs:110` and `:179`) keeps
  `buf[..fed]` of a refused chunk where it should keep `buf[fed..]`. A message
  whose frame is longer than the receive buffer, and all behind it, is lost
  without an error. `ReceivedIntact` and `EndMissesOnlyLongFrames` show the
  extent of it: nothing is lost otherwise, and nothing wrong is decoded.

### What the passing properties say that one may not expect

* `RecvBufferBound` (proved): `recv_buffer_size` can be exceeded, by less than a
  chunk.
* `DecodeErrorIsFinal` (Tokio): messages decoded ahead of an undecodable one in
  the same call are never returned.
* `AcceptedOnStream`: the branches for a full queue and for a failed `process`
  in `poll_flush` (Compio, 268 and 288) cannot be taken; the second would make
  the next poll panic.
* `EndIsComplete` needs the close to have succeeded: without it a peer that was
  dropped in the middle of a frame is an ordinary end of stream.
* `ServicePanicsOnlyFor`: a handler that gives no answer, dropping a stream's
  receiver, and a call that cannot be sent take the whole service down, with
  every other call on the connection. A call that the coder rejects is enough
  for the last; the property says that the call is lost then, and that no failed
  response, item or read is a reason.
* `AnswersOwnCall`: an application that uses the id of a request it gave up may
  get the late answer to that request, and its own answer goes on to whoever has
  the id next. Nothing in the messages tells them apart.
* `StreamsInOrder`: the receiver of a stream cannot tell the end of the stream
  from the end of its own service. As long as the peer never closes a stream, a
  receiver whose handler has finished waits until its own service ends.
* `SleepMissesNothingFlushed`: `poll_next` does not go to sleep over a frame it
  could decode or a message in its queue, although `process_read` stops at a full
  queue and is called once in a turn. In the Compio adapter the bytes behind a
  long frame are the exception (`SleepMissesOnlyLongFrames`, proved).
* `NoCallLost`: handing a call over, from the handle's channel to the connection
  to its handler, and its outcome back, never drops it while both services run
  (a reset shows in a read or a send, after which one does not); when one is gone, `CallPanicsOnlyWithoutService` and `StreamsInOrder` say what
  the caller sees.
* `NobodyIsStuck`, `StepsAdvance`: what the liveness properties below consist of,
  state by state and step by step (section 4).
* `BothEnd`: a service whose peer is gone ends too, whatever it was doing: it
  need not send anything, the arm that reads meets the end. Only a loop that
  spins on its only thread never comes to it.
* `CallsReturn`, `SendsEnd`, `ItemsArrive`: two exceptions are needed. Two
  services may each await a send to a full connection (`MutualWait`): neither
  reads, and no call of either returns (`sans_service.rs:80`). And once every
  handle is dropped `next_message` never yields again (`sans_service.rs:89`):
  with a thread of its own it burns it and still serves its peer, on a
  single-threaded executor its peer waits for ever. With either exception left
  out TLC refutes each of the three. So they do not say that a call returns, but
  that nothing else keeps one from returning.

## 4. Proofs

### FramedLink

`FramedLink_proofs` proves, for every value of the constants that
`ConfigAssumption` and `LinkAssumption` allow (sizes are positive, as
`NonZeroUsize` says; bodies have a length):

* `TypeCorrect`: `SafeSpec => []TypeOK`, with the queue bounds in it;
* `BytesConserved`, `DeliveredInOrder`, `BufferBounded`: `ByteConservation`,
  `InOrder` and `RecvBufferBound` always hold;
* `FailureIsFinal`: `SafeSpec => DecodeErrorIsFinal`;
* `OnlyRejectedMissing`: `SafeSpec => []OnlyUnencodableMissing`;
* `ImplementsChannelSafety`: `SafeSpec => Channel!SafeSpec`.

The argument: `ByteConservation` alone is not inductive. A decoding step takes
the frame whose first byte is the first of the buffer; that this is the *next*
frame needs `FramesContiguous` (each frame begins where the previous one ends)
and `FramesOrdered` (so a position belongs to one frame). `InOrder` relates the
queues to the frames decoded, and `FailedAtFront` keeps the undecodable frame at
the front, which is what makes a failure final. `IInv` is the conjunction of
these with `TypeOK` and `RecvBufferBound`; there is a lemma for each action
that moves bytes (`EncodeNextInv`, `TakeInv`, `OfferInv`, `DecodeNextInv`,
`DecodeErrorInv`, `ConsumeInv`), `NextIInv` assembles them, and the refinement
maps `EncodeNext` to `Send`, `Consume` to `Receive` and all else to a stutter.
The lemmas on runs, frames and the turns of the two loops are in
`ConnectionState_proofs`, for the adapters need them too.

`OnlyUnencodableMissing` is inductive with `TypeOK`. It says by a witness, not by
filtering a sequence, which accepted messages are on the stream: `place` maps the
frames, in order, to the accepted messages that left the queue, and what it does
not reach is unencodable. `EncodeNext` extends `place` by one, `EncodeError` leaves
it alone, and nothing else changes what it is about (`NextMissing`).

### The adapters

For every value of the constants that `ConfigAssumption` and `SocketAssumption`
allow, in particular receive buffers smaller than a length prefix and any
capacity of the kernel, with drops and resets:

* Tokio: `TypeCorrect`, `StreamHolds`, `AcceptedHolds`, `FlushHolds`, `EndHolds`,
  `RefusalHolds`, `SleepHolds`, `PanicHolds`, `ErrorIsFinal` and
  `ImplementsTheChannel`: every safety property of its runs;
* Compio: `TypeCorrect`, `NothingMisread`, `AcceptedHolds`, `FlushHolds`,
  `PanicHolds`, `EndHolds`, `ImplementsTheChannel`: the safety properties of
  `CompioConnection_faults`; `SleepHolds` and `ErrorIsFinal`; and
  `CompleteWithoutLongFrames`: when every frame fits the receive buffer, also
  `StreamIntact` and `EndIsComplete`. So the counterexample of `CompioConnection_end` needs the long frame it has.

`StreamIntact` is not inductive: which bytes are in which place depends on what
the variants of `WriteState` and `ReadState` allow. The invariant is `ConnInv`,
`Intact` and `EndOK` (`SocketConnection_proofs`):

* `InOrder`, `ReceiverBytes`: what is queued and returned are the first frames,
  and the receive buffer begins with the next, as in FramedLink;
* `Intact`: each of the other four places begins where the one before it ends;
  what lies behind the kernel's buffer only until a reset;
* `AcceptedOK`: the send queue holds one message between `feed_item` and the
  `process` of the same `start_send`, and none otherwise. Hence start_send may
  ignore what `feed_item` returns;
* `WriterOK`: nothing is left to write in `Idle`, nothing at all in `Closing`, and
  the peer sees a shutdown only from there or from a drop. Hence a frame cannot
  be encoded behind the end;
* `ReaderOK`, `FailedAtFront`: when poll_next asks for bytes there is no complete
  frame left. With `Intact`, a read of no bytes means that everything was
  returned (`EndSeen`), and with `FlushOK` a reader that finds nothing on its way
  has returned what was flushed (`FlushedReturned`);
* `EndOK`: what was accepted when the end was seen was returned, and nothing is
  accepted afterwards.

In the Compio adapter `Intact` holds up to the first refused chunk. From then on
the receiver is `Blocked`: its buffer is full with the beginning of a frame that
does not fit, so it takes and decodes nothing any more. `Intact \/ Blocked` is
what is inductive there. Each shared step has a lemma that it `Keeps` all four
(`SharedKeeps` assembles them), and each adapter adds the steps of its own.

Two more theorems of each adapter are what can be proved of the `_live` runs. No
run checks them: they say in terms of states and steps what the liveness
properties say of behaviours.

* `WritersHaveReaders`: `SafeSpec => []PendingWriteHasReader`. A write that waits
  for room in the kernel waits for a receiving task that goes on: it has neither
  stopped nor panicked, and if it asks for bytes there are some. `ConnInv` is
  inductive without what this needs besides, that only a reset makes a read fail
  (`FailsByReset`).
* `EveryStepAdvances`: `SafeSpec => StepsAdvance`. But for the beginning of an
  operation every step lowers `Rank`, a list of naturals compared at the first
  that differs. It follows the bytes: what is to be encoded ranks before what is
  to be written, to be read, to be fed, to be decoded and to be returned, so each
  hand-over lowers it. The definition names the two steps that do not, both of
  them turns of poll_next that leave everything as it was: it meets the
  undecodable message again, or (Tokio only) it is refused the chunk again behind
  the beginning of a long frame. So poll_next does not spin otherwise, and no
  write_all goes on without writing. For Compio this needs `SubmittedOK`: a
  write_all submits an operation only while it has bytes left, and a shutdown is
  carried out once.

An operation that never returned would, by fairness, have to be pending for ever
while no step is possible, or while one of the two repeats; the first is what
`WritersHaveReaders` excludes of a write, but for a `feed` of Tokio while closing
(`FeedReturns`, violated). That the guards
of the steps make them enabled, and fairness, stay with TLC.

### RpcSystem

For all sets of calls and ids, any channel size and number of items, any choice
of `Inline`, `OneThread`, `Reused` and `Faults` that `ServiceAssumption` and
`RpcAssumption` allow (two peers, an id to choose, a connection that holds a
message):

* `TypeCorrect`: `SafeSpec => []TypeOK`;
* `Invariance`: `SafeSpec => []IInv`, and from it
* `OwnAnswers`, `StreamOrder`, `CallsPanic`, `ServicePanics`: the four
  invariants of the runs;
* `Implementation`: `SafeSpec => ImplementsCallService`;
* `CallsAreCarried`: `SafeSpec => []NoCallLost`;
* `WaitersGoOn`: `SafeSpec => []NobodyIsStuck`;
* `StepsComeToAnEnd`: `SafeSpec => StepsAdvance`.

None of the four invariants is inductive: each says what an application sees, and depends
on what is in the tables, in the channels and on the way. `IInv`
(`RpcInvariant`) says how these fit together:

* `CallsOK`, `CalledOK`: caller, handler and outgoing side of a call fit
  together, and a loop awaits one handler;
* `MessagesOK`, `MessagesOrdered`, `QueueOK`: a message agrees with the state of
  its call, at most one message of a call is on its way in one direction, items
  and what follows them excepted, and a call in the handle's channel is nowhere
  else. So a handler runs at most once;
* `WaitingOK`: while the handle is borrowed by a `send_request` its call is the
  last in the channel or in the table. This is what makes `SenderExists` hold,
  and it rests on the exclusive borrow: no later call can take the entry;
* `TablesOK`, `IdsOK`: entries are under their id at their owner, and ids in use
  differ. With `MessagesOK`, a response meets its own call or none;
* `StreamTableOK`, `ItemsOK`: a stream that is open stays in the table until its
  `CloseStream` is taken, and what its receiver lacks is on its way in order
  (`ItemsFollow`), up to the last item sent (`AllOnTheWay`). So a close cannot
  overtake an item, and cannot be unwrapped without an entry.

`ServicePanicsOnlyFor` is proved beside `IInv`, from it and from what a step
does (`NextPanics`). A reason, once there, stays: the receiver stays dropped
(`CallerStays`), the handler failed (`HandlerStays`), and a call that could not
be sent is never on its way again, for its service is gone (`UnsentStays`). And
of the steps that panic a service (`PanicSteps`) each leaves a reason behind:
`FailedCall` shows that the message a failed send loses was the only trace of
its call, `ClosePanicsNot` that a `CloseStream` finds its entry.

`RpcSystem_proofs` has the lemmas on messages on their way and on what taking one
does, type correctness, and what each part of the invariant depends on (a part holds after a step that
leaves what it depends on alone, or only takes messages away),
`RpcInvariant_proofs` one lemma per action and the theorems.
`RpcResults_proofs` maps every action to a step of `CallService` or a
stutter; it uses `IInv` before and after the step, as the phase of a call
depends on whether its answer is its own.

The other three theorems are what can be proved of the liveness properties. All
steps but those of `Progress` are choices of an application or faults, so if
something waits for ever, a step of `Progress` is either enabled for ever or
taken again and again. `StepsAdvance` rules out that steps are taken for ever:
each lowers `Rank`, a list of functions into the naturals compared at the first
that differs, and with finitely many calls such a list cannot be lowered for
ever. Its order is the argument: what a step produces (a call its message, a
handler its response, an item its place in a channel) ranks after what the step
uses up. So from some point on nothing happens, and by fairness no step of
`Progress` is enabled. `NobodyIsStuck` says that nothing waits then, but in the
two exceptions, where `CanGoOn` are the guards of the steps of `Progress`. That
they enable them is ENABLED and left to the liveness runs, as is fairness.
`Progress` counts on a failed send or read only when the peer is gone: resets
and coder errors may happen and need not.

`NobodyIsStuck` is a consequence of `IInv` and `ProgressInv` (`RpcInvariant`),
which adds what `IInv`, about where things may be, does not say, that they must
be somewhere:

* `NoCallLost`: a call made is in the handle's channel or on its way until its
  handler has it, and the outcome of an awaited request is ready or on its way;
* `HandleOK`: a loop that awaits a handler has one, which can return;
* `EndedOK`: a stream that ended is not in the table, so an item that finds an
  entry finds a receiver;
* `HeldOK`: the handle a request borrows cannot be dropped, so its own loop does
  not spin;
* `EmittedOK`: a handler emits no more than the model's bound, which keeps its
  place in `Rank` a natural.

The proof follows the message: if the request waits, its message or the answer
is in a channel; if the reader of that channel is in its select the head can be
taken; if it sends, either there is room, or the other one's loop is looked at
in the same way; both sending to full connections is `MutualWait`.

### Only model-checked

Liveness, that is the fairness part of `MessageChannel` in FramedLink, the
properties of the `_live` runs but `StreamIntact`, and `CallsReturn`, `SendsEnd`,
`ItemsArrive`, `BothEnd`. The prover has no rule for fairness and ENABLED. Every
invariant and action property of a passing run is a theorem. The other way round the runs leave out some of
what is proved: `InOrder`, `RecvBufferBound`, `DecodeErrorIsFinal` of FramedLink and of
Compio, `SleepMissesOnlyLongFrames`, `StepsAdvance` and `PendingWriteHasReader` of the
adapters, and their types. They hold on the instances of the runs, too.

## 5. Not modelled

* Byte formats of bincode and JSON, and a length prefix that no encoder wrote:
  the peer is another sansrpc peer.
* `write_queue_empty` has no operator of its own: it is `send_queue = <<>>`.
* `CompioSansListener` and the constructors in `sansrpc-compio/src/tcp.rs`: bind,
  accept, build.
* Memory: buffers and unbounded channels grow as far as the bounds let them.
* `serve` of the facade crate, which accepts connections and runs one loop for
  each, and its re-exports: the connections share no state of the library.
* `Runtime::spawn` but for the progress of the tasks, and that it may lose one.
* A connection that dies without a reset: a read on it is pending for ever, and
  nothing in the code has a timeout.
* A service used again after `next_message` returned an error: neither loop does
  that.
* That a particular message is rejected by the coder each time: at the services
  any message may be. The adapters tell the messages apart.
* `shutdown` of the Service trait: nobody calls it. `OpenBiDirectionalStream`: not
  part of `Message`.
* Macros: they return their input.
* Service and connection together byte by byte: RpcSystem takes the connection to be
  the message channel that FramedLink and the adapters are shown to implement.
* Time: the 100 ms sleep in `poll_next` is a step like any other.

## 6. What is left

Nothing is left of the plan: every module it named is written, and every safety
property of a passing run is proved. A rank of steps like that of RpcSystem is
not stated of the adapters: their tasks may begin and cancel operations, and ask
for a message after an error, as often as they like. A change of the
code that adds an operation to an adapter or a message kind to the service needs
an action here, a lemma that it keeps the invariant, and a run that fires it.
