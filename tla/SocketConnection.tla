-------------------------- MODULE SocketConnection --------------------------
(***************************************************************************)
(* What the Tokio and the Compio adapter (sansrpc-tokio/src/tcp.rs,        *)
(* sansrpc-compio/src/lib.rs) have in common: one direction of a           *)
(* connection between two peers, made of the Sink half of the one that     *)
(* sends, a TCP connection, and the Stream half of the one that receives.  *)
(* TokioConnection and CompioConnection add what differs and the           *)
(* specification.  The module uses the actions of ConnectionState for what *)
(* both halves do with their protocol state.                               *)
(*                                                                         *)
(* The sending task is a SinkExt user: it runs one of feed, flush, close   *)
(* at a time, and may drop that future whenever its poll is pending.  The  *)
(* receiving task polls the stream.  A turn of a poll_* loop is a step; a  *)
(* poll that only returns Pending changes nothing and is not a step, so a  *)
(* step of a pending operation is the poll its waker asks for.             *)
(*                                                                         *)
(* An operator whose name ends in _mutant is the definition it is named    *)
(* after with a plausible mistake; PROJECT.json says which property        *)
(* notices it.                                                             *)
(***************************************************************************)
EXTENDS ConnectionState

CONSTANTS
  SocketCapacity,  \* bytes the kernel buffers between the peers
  Faults,          \* {} or some of "drop", "break"
  MaxItems         \* bound on the messages accepted

ASSUME SocketAssumption ==
  /\ SocketCapacity \in Nat \ {0}
  /\ Faults \subseteq {"drop", "break"}
  /\ MaxItems \in Nat

VARIABLES
  sender,          \* what the sending task is doing
  write_state,     \* the variant of WriteState
  write_fut,       \* its future: "running", "done" (completed, and still stored),
                   \* or "written" (Compio: its operation has completed)
  writing,         \* the bytes its write_all has not written yet
  socket,          \* bytes in the kernel
  fin,             \* the sending side has shut down
  broken,          \* the connection was reset
  reader,          \* what the receiving task is doing
  read_state,      \* the variant of ReadState
  read_fut,        \* whether its future has completed (and stayed stored)
  buf,             \* the bytes read and not yet fed: buf[..read]
  accepted,        \* history: messages whose start_send has not failed
  delivered,       \* history: messages poll_next returned
  flushed,         \* history: frames encoded when a flush last succeeded
  write_result,    \* history: "ok", or how the sending side ended
  ending           \* history: "open", or what poll_next last ended with

writerVars  == <<sender, write_state, write_fut, writing, accepted, flushed,
                 write_result>>
readerVars  == <<reader, read_state, read_fut, buf, delivered, ending>>
networkVars == <<socket, fin, broken>>
vars == <<stateVars, writerVars, readerVars, networkVars>>

TypeOK ==
  /\ StateTypeOK
  /\ sender \in {"app", "feed", "start_send", "flush", "close", "panicked", "dropped"}
  /\ write_state \in {"Idle", "Writing", "Closing"}
  /\ write_fut \in {"running", "written", "done"}
  /\ writing \in Seq(Nat)
  /\ socket \in Seq(Nat)
  /\ Len(socket) <= SocketCapacity
  /\ fin \in BOOLEAN
  /\ broken \in BOOLEAN
  /\ reader \in {"app", "process", "item", "match", "panicked"}
  /\ read_state \in {"Idle", "Reading"}
  /\ read_fut \in {"running", "done"}
  /\ buf \in Seq(Nat)
  /\ accepted \in Seq(Message)
  /\ delivered \in Seq(Message)
  /\ flushed \in Nat
  /\ write_result \in {"ok", "failed", "closed"}
  /\ ending \in {"open", "end", "decode_error", "io_error"}

Init ==
  /\ StateInit
  /\ sender = "app" /\ write_state = "Idle" /\ write_fut = "running"
  /\ writing = <<>>
  /\ socket = <<>> /\ fin = FALSE /\ broken = FALSE
  /\ reader = "app" /\ read_state = "Idle" /\ read_fut = "running"
  /\ buf = <<>>
  /\ accepted = <<>> /\ delivered = <<>>
  /\ flushed = 0 /\ write_result = "ok" /\ ending = "open"

-----------------------------------------------------------------------------
(* The sending task.                                                       *)

BeginOp(op) ==
  /\ sender = "app"
  /\ op = "feed" => Len(accepted) < MaxItems
  /\ sender' = op
  /\ UNCHANGED <<stateVars, write_state, write_fut, writing, accepted, flushed,
                 write_result, readerVars, networkVars>>

Room == SocketCapacity - Len(socket)
Written == IF Room < Len(writing) THEN Room ELSE Len(writing)

\* WriteState::Idle(Some(writer)).
WriterIdle == write_state = "Idle" /\ write_fut = "running"

\* poll_flush and poll_close in Idle: what was encoded becomes one write_all.
TakeBatch ==
  /\ sender \in {"flush", "close"}
  /\ WriterIdle
  /\ consume_all
  /\ writing' = send_buffer
  /\ write_state' = "Writing"
  /\ UNCHANGED <<sender, write_fut, accepted, flushed, write_result, readerVars,
                 networkVars>>

\* An unfinished write_all is forgotten.
FlushReady_mutant ==
  /\ sender = "flush"
  /\ send_buffer = <<>>
  /\ flushed' = Len(frames)
  /\ sender' = "app"
  /\ UNCHANGED <<stateVars, write_state, write_fut, writing, accepted, write_result,
                 readerVars, networkVars>>

\* poll_flush with nothing left to write.
FlushReady ==
  /\ sender = "flush"
  /\ WriterIdle
  /\ send_buffer = <<>>
  /\ flushed' = Len(frames)
  /\ sender' = "app"
  /\ UNCHANGED <<stateVars, write_state, write_fut, writing, accepted, write_result,
                 readerVars, networkVars>>

\* poll_flush while or after closing: ConnectionReset.
FlushReset ==
  /\ sender = "flush"
  /\ write_state = "Closing"
  /\ sender' = "app"
  /\ UNCHANGED <<stateVars, write_state, write_fut, writing, accepted, flushed,
                 write_result, readerVars, networkVars>>

\* What was encoded and not flushed is forgotten.
StartClosing_mutant ==
  /\ sender = "close"
  /\ WriterIdle
  /\ write_state' = "Closing"
  /\ UNCHANGED <<stateVars, sender, write_fut, writing, accepted, flushed,
                 write_result, readerVars, networkVars>>

\* poll_close with nothing left to write.
StartClosing ==
  /\ sender = "close"
  /\ WriterIdle
  /\ send_buffer = <<>>
  /\ write_state' = "Closing"
  /\ UNCHANGED <<stateVars, sender, write_fut, writing, accepted, flushed,
                 write_result, readerVars, networkVars>>

\* Dropping the connection shuts the socket down, whatever was left to write.
DropConnection ==
  /\ "drop" \in Faults
  /\ sender = "app"
  /\ sender' = "dropped"
  /\ fin' = TRUE
  /\ UNCHANGED <<stateVars, write_state, write_fut, writing, accepted, flushed,
                 write_result, readerVars, socket, broken>>

\* The network resets the connection: what was in flight is gone.
BreakConnection ==
  /\ "break" \in Faults
  /\ ~ broken
  /\ broken' = TRUE
  /\ socket' = <<>>
  /\ UNCHANGED <<stateVars, writerVars, readerVars, fin>>

-----------------------------------------------------------------------------
(* The receiving task: poll_next.                                          *)

\* The task stops at the end of the stream; it may go on after an error.
BeginNext ==
  /\ reader = "app"
  /\ ending # "end"
  /\ reader' = "process"
  /\ UNCHANGED <<stateVars, writerVars, read_state, read_fut, buf, delivered, ending,
                 networkVars>>

\* process_read comes before consume_item: its error hides what is queued.
ProcessRead ==
  /\ reader = "process"
  /\ \/ DecodeNext /\ UNCHANGED <<reader, ending>>
     \/ DecodeError /\ reader' = "app" /\ ending' = "decode_error"
     \/ DecodeDone /\ reader' = "item" /\ UNCHANGED ending
  /\ UNCHANGED <<writerVars, read_state, read_fut, buf, delivered, networkVars>>

ReturnItem ==
  /\ reader = "item"
  /\ consume_item
  /\ delivered' = Append(delivered, Head(recv_queue))
  /\ reader' = "app"
  /\ UNCHANGED <<writerVars, read_state, read_fut, buf, ending, networkVars>>

NoItem ==
  /\ reader = "item"
  /\ recv_queue = <<>>
  /\ reader' = "match"
  /\ UNCHANGED <<stateVars, writerVars, read_state, read_fut, buf, delivered, ending,
                 networkVars>>

StartReading ==
  /\ reader = "match"
  /\ read_state = "Idle"
  /\ buf = <<>>
  /\ read_state' = "Reading"
  /\ reader' = "process"
  /\ UNCHANGED <<stateVars, writerVars, read_fut, buf, delivered, ending, networkVars>>

\* ReadState::Reading.  A read into a buffer of max bytes returns any part of
\* what the kernel has.
Read(max) ==
  /\ reader = "match"
  /\ read_state = "Reading"
  /\ read_fut = "running"
  /\ ~ broken
  /\ \E n \in 1 .. max :
       /\ n <= Len(socket)
       /\ buf' = SubSeq(socket, 1, n)
       /\ socket' = SubSeq(socket, n + 1, Len(socket))
  /\ read_state' = "Idle"
  /\ reader' = "process"
  /\ UNCHANGED <<stateVars, writerVars, read_fut, delivered, ending, fin, broken>>

\* The completed read is still stored: polling it panics.
ReadPanic ==
  /\ reader = "match"
  /\ read_state = "Reading"
  /\ read_fut = "done"
  /\ reader' = "panicked"
  /\ UNCHANGED <<stateVars, writerVars, read_state, read_fut, buf, delivered, ending,
                 networkVars>>

-----------------------------------------------------------------------------
(* Properties.                                                             *)

\* The number of messages decoded so far, and of the bytes they took.
Decoded == Len(delivered) + Len(recv_queue)
DecodedBytes == IF Decoded = 0 THEN 0 ELSE End(frames[Decoded])

Messages == [i \in DOMAIN frames |-> frames[i].msg]

(***************************************************************************)
(* Until the connection is reset, every encoded byte is in one of the five *)
(* places it passes through, in stream order: whatever operations the      *)
(* sending task cancels, the bytes of the half-written future come before  *)
(* those encoded later, and nothing read is fed twice or skipped.          *)
(***************************************************************************)
StreamIntact ==
  ~ broken =>
    /\ Decoded <= Len(frames)
    /\ IsRun(recv_buffer \o buf \o socket \o writing \o send_buffer, DecodedBytes)
    /\ DecodedBytes + Len(recv_buffer) + Len(buf) + Len(socket) + Len(writing)
         + Len(send_buffer) = StreamLen

(***************************************************************************)
(* A message whose feed succeeded is on the stream.  Tokio's start_send    *)
(* ignores what feed_item returns, which is right only because every       *)
(* start_send empties the send queue, also when an earlier one failed to   *)
(* encode; for the same reason Compio's never returns WouldBlock and its   *)
(* poll_flush finds nothing to process, whose error would leave Idle(None).*)
(***************************************************************************)
AcceptedOnStream == sender # "start_send" => accepted = Messages /\ send_queue = <<>>

(***************************************************************************)
(* When flush returns Ok, every message fed before it has left the         *)
(* process: also if earlier flushes were cancelled half way.               *)
(***************************************************************************)
FlushIsComplete ==
  flushed > 0 => Len(writing) + Len(send_buffer) <= StreamLen - End(frames[flushed])

(***************************************************************************)
(* When the receiving task sees the end of the stream after a close that   *)
(* succeeded, it has received every message accepted: the tests'           *)
(* assert_eq!(count, COUNT), sansrpc-tokio tcp.rs:286 and sansrpc-compio   *)
(* tcp.rs:135.                                                             *)
(***************************************************************************)
EndIsComplete == ending = "end" /\ write_result = "closed" => delivered = accepted

(***************************************************************************)
(* After a decoding error poll_next returns no message any more: neither   *)
(* those behind the undecodable one, nor those decoded ahead of it in the  *)
(* same process_read, which stay in the queue.                             *)
(***************************************************************************)
DecodeErrorIsFinal ==
  [][ending = "decode_error" => UNCHANGED <<ending, delivered>>]_vars

(***************************************************************************)
(* The receive buffer refuses what was read only when it begins with a     *)
(* frame longer than recv_buffer_size.  Then Tokio's poll_next never       *)
(* returns, and Compio's drops what it reads.                              *)
(***************************************************************************)
LongFrameAtFront ==
  \E i \in DOMAIN frames :
    /\ recv_buffer # <<>> /\ recv_buffer[1] = frames[i].start + 1
    /\ FrameLen(frames[i].msg) > RecvBufferSize

RefusesOnlyLongFrames ==
  reader = "match" /\ read_state = "Idle" /\ ~ LongFrameAtFront
    => Fed(Len(buf)) = Len(buf)

(***************************************************************************)
(* A receiving task that waits for bytes while none are on their way has   *)
(* returned every message a successful flush covered: no frame is left     *)
(* undecoded and no message in the queue when it goes to sleep.            *)
(***************************************************************************)
ReaderSleeps ==
  /\ reader = "match" /\ read_state = "Reading" /\ read_fut = "running"
  /\ ~ broken /\ socket = <<>>

\* A poll_next that sleeps with nothing on its way has returned what was flushed.
SleepMissesNothingFlushed == ReaderSleeps => Len(delivered) >= flushed

(***************************************************************************)
(* Polling a completed future panics.  It takes an error returned before,  *)
(* or a second close; cancelling operations does not lead to it.           *)
(***************************************************************************)
PanicsOnlyAfterEnd ==
  /\ sender = "panicked" => write_result # "ok"
  /\ reader = "panicked" => ending = "io_error"

(***************************************************************************)
(* The connection implements the safety of the message channel, whatever   *)
(* is cancelled, dropped or reset.                                         *)
(***************************************************************************)
Channel == INSTANCE MessageChannel WITH sent <- Messages, received <- delivered

ImplementsChannel == Channel!SafeSpec

(***************************************************************************)
(* A poll of the sending task that is pending waits for a receiving task   *)
(* that is there and does not wait itself: it has bytes to read and has    *)
(* neither stopped nor panicked.                                           *)
(***************************************************************************)
WriteWaits ==
  /\ sender \in {"feed", "flush", "close"}
  /\ write_state = "Writing" /\ write_fut = "running"
  /\ ~ broken /\ Room = 0

PendingWriteHasReader ==
  WriteWaits =>
    /\ reader # "panicked" /\ ending # "end"
    /\ reader = "match" /\ read_state = "Reading"
         => socket # <<>> /\ read_fut = "running"

(***************************************************************************)
(* No step but the beginning of an operation can be repeated for ever:     *)
(* each lowers what is left to happen, and raises at most what is less     *)
(* significant in this list: what the sending task has to do, what is to   *)
(* be encoded, to be written and to be read, to be fed, to be decoded, to  *)
(* be returned.  There are two exceptions, each of one turn of poll_next:  *)
(* it meets the undecodable message again, and it is refused the chunk     *)
(* again behind the beginning of a frame longer than the receive buffer.   *)
(***************************************************************************)
SenderRank ==
  CASE sender \in {"feed", "flush", "close"} -> 3
    [] sender = "start_send"                 -> 2
    [] sender = "app"                        -> 1
    [] OTHER                                 -> 0

WriteStateRank ==
  CASE write_state = "Writing" -> 2
    [] write_state = "Idle"    -> 1
    [] OTHER                   -> 0

ReaderRank ==
  CASE reader = "app"     -> 4
    [] reader = "process" -> 3
    [] reader = "item"    -> 2
    [] reader = "match"   -> 1
    [] OTHER              -> 0

WriteFutRank == IF write_fut = "written" THEN 1 ELSE 0

\* What happens to x only once.
Until(x, last) == IF x = last THEN 0 ELSE 1

Rank ==
  << Until(broken, TRUE), SenderRank, Len(send_queue), Len(send_buffer), Len(writing),
     WriteStateRank, Until(fin, TRUE), WriteFutRank,
     Until(ending, "end"), Until(read_fut, "done"),
     Len(socket), Len(buf), Len(recv_buffer), Len(recv_queue),
     Until(read_state, "Reading"), ReaderRank >>

Advance ==
  \E n \in DOMAIN Rank :
    /\ \A k \in 1 .. n - 1 : Rank[k]' = Rank[k]
    /\ Rank[n]' < Rank[n]

MeetsUndecodable == reader = "process" /\ reader' = "app" /\ DecodeError

MeetsLongFrame ==
  /\ LongFrameAtFront
  /\ reader = "match" /\ reader' = "process"
  /\ UNCHANGED <<buf, read_state>>

StepAdvances ==
  \/ \E op \in {"feed", "flush", "close"} : BeginOp(op)
  \/ MeetsUndecodable \/ MeetsLongFrame
  \/ Advance

\* What every step of a connection does.
StepsAdvance == [][StepAdvances]_vars

(***************************************************************************)
(* A flush returns: the peer that keeps polling makes room for it.         *)
(***************************************************************************)
FlushReturns == sender = "flush" ~> sender # "flush"

(***************************************************************************)
(* Every message a successful flush covered is delivered.                  *)
(***************************************************************************)
FlushedIsDelivered ==
  \A k \in 1 .. MaxItems : flushed = k ~> Len(delivered) >= k

(***************************************************************************)
(* A close that succeeded is seen by the peer as the end of the stream.    *)
(***************************************************************************)
CloseIsSeen == write_result = "closed" ~> ending = "end"

(***************************************************************************)
(* A feed returns.  start_send has an answer for a connection that is      *)
(* closing (ConnectionReset, sansrpc-tokio tcp.rs:147-149).                *)
(***************************************************************************)
FeedReturns == sender = "feed" ~> sender # "feed"

=============================================================================
