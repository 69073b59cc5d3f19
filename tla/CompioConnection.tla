--------------------------- MODULE CompioConnection ---------------------------
(***************************************************************************)
(* SocketConnection between two CompioSansConnections                      *)
(* (sansrpc-compio/src/lib.rs).  The halves that into_split makes of one   *)
(* have the same code.                                                     *)
(*                                                                         *)
(* Compio's I/O is completion based: polling a future submits its          *)
(* operation, the kernel carries it out whether or not the future is       *)
(* polled again, and the next poll finds the result.                       *)
(***************************************************************************)
EXTENDS SocketConnection

-----------------------------------------------------------------------------
(* The sending task.                                                       *)

\* A closing connection is not ready, as in the Tokio adapter.
PollReady_mutant == write_state = "Idle"

\* poll_ready of a state that stores no write_all.
PollReady == write_state \in {"Idle", "Closing"}

\* start_send after or while closing: ConnectionReset.
FeedReset ==
  /\ sender = "feed"
  /\ PollReady
  /\ write_state = "Closing"
  /\ sender' = "app"
  /\ UNCHANGED <<stateVars, write_state, write_fut, writing, accepted, flushed,
                 write_result, readerVars, networkVars>>

\* start_send.  The message a full queue hands back is reported: WouldBlock.
StartSend(m) ==
  /\ sender = "feed"
  /\ PollReady
  /\ write_state = "Idle"
  /\ feed_item(m)
  /\ accepted' = IF SendQueueFull THEN accepted ELSE Append(accepted, m)
  /\ sender' = IF SendQueueFull THEN "app" ELSE "start_send"
  /\ UNCHANGED <<write_state, write_fut, writing, flushed, write_result, readerVars,
                 networkVars>>

(***************************************************************************)
(* The process of start_send, and that of poll_flush when it finds a queue *)
(* that is not empty.  An error leaves Idle(None) behind in poll_flush.    *)
(***************************************************************************)
FlushProcesses == sender = "flush" /\ WriterIdle /\ send_queue # <<>>

Process ==
  /\ sender = "start_send" \/ FlushProcesses
  /\ \/ EncodeNext /\ UNCHANGED <<sender, accepted, write_fut>>
     \/ /\ EncodeError
        /\ sender' = "app"
        /\ accepted' = IF sender = "flush" THEN accepted
                       ELSE SubSeq(accepted, 1, Len(accepted) - 1)
        /\ write_fut' = IF sender = "flush" THEN "done" ELSE write_fut
     \/ EncodeDone /\ sender' = "app" /\ UNCHANGED <<accepted, write_fut>>
  /\ UNCHANGED <<write_state, writing, flushed, write_result, readerVars, networkVars>>

FlushIdle == ~ FlushProcesses /\ (TakeBatch \/ FlushReady)

\* The kernel carries out the operation of write_all: it writes what it has
\* room for.
KernelWrites ==
  /\ write_state = "Writing"
  /\ write_fut = "running"
  /\ sender # "dropped"
  /\ ~ broken
  /\ Room > 0
  /\ socket' = socket \o SubSeq(writing, 1, Written)
  /\ writing' = SubSeq(writing, Written + 1, Len(writing))
  /\ write_fut' = "written"
  /\ UNCHANGED <<stateVars, sender, write_state, accepted, flushed, write_result,
                 readerVars, fin, broken>>

\* The writer comes back before everything is written.
WriteDone_mutant ==
  /\ write_fut = "written"
  /\ write_fut' = "running"
  /\ write_state' = "Idle"
  /\ UNCHANGED <<sender, writing, write_result>>

\* The completed future is not replaced by Idle.
WriteDone_keep_mutant ==
  /\ write_fut = "written"
  /\ write_fut' = IF writing = <<>> THEN "done" ELSE "running"
  /\ UNCHANGED <<sender, write_state, writing, write_result>>

\* write_all submits its next operation, or returns the writer.
WriteDone ==
  /\ write_fut = "written"
  /\ write_fut' = "running"
  /\ write_state' = IF writing = <<>> THEN "Idle" ELSE "Writing"
  /\ UNCHANGED <<sender, writing, write_result>>

\* After an error the completed future stays stored.
WriteFails ==
  /\ write_fut = "running"
  /\ broken
  /\ write_fut' = "done"
  /\ write_result' = "failed"
  /\ sender' = "app"
  /\ UNCHANGED <<write_state, writing>>

\* Polling a completed future panics, and so does the unwrap of Idle(None).
PollDone ==
  /\ write_fut = "done"
  /\ sender' = "panicked"
  /\ UNCHANGED <<write_state, write_fut, writing, write_result>>

PollWriting ==
  /\ sender \in {"feed", "flush", "close"}
  /\ \/ write_state = "Writing" /\ (WriteDone \/ WriteFails \/ PollDone)
     \/ write_state = "Idle" /\ sender # "feed" /\ PollDone
  /\ UNCHANGED <<stateVars, accepted, flushed, readerVars, networkVars>>

\* The kernel carries out the shutdown, submitted by poll_close.
KernelShutsDown ==
  /\ write_state = "Closing"
  /\ write_fut = "running"
  /\ sender # "dropped"
  /\ ~ broken
  /\ fin' = TRUE
  /\ write_fut' = "written"
  /\ UNCHANGED <<stateVars, sender, write_state, writing, accepted, flushed,
                 write_result, readerVars, socket, broken>>

\* Closing is never left.
PollClosing ==
  /\ sender = "close"
  /\ write_state = "Closing"
  /\ \/ /\ write_fut = "written"
        /\ write_fut' = "done" /\ write_result' = "closed" /\ sender' = "app"
        /\ UNCHANGED <<write_state, writing>>
     \/ WriteFails \/ PollDone
  /\ UNCHANGED <<stateVars, accepted, flushed, readerVars, networkVars>>

\* The task gives up an operation whose poll is pending; the kernel does not.
Cancel ==
  /\ write_fut = "running"
  /\ \/ sender \in {"feed", "flush", "close"} /\ write_state = "Writing"
     \/ sender = "close" /\ write_state = "Closing"
  /\ sender' = "app"
  /\ UNCHANGED <<stateVars, write_state, write_fut, writing, accepted, flushed,
                 write_result, readerVars, networkVars>>

-----------------------------------------------------------------------------
(* The receiving task: poll_next.                                          *)

\* The capacity of the read buffer.
BufLen == RecvBufferSize

(***************************************************************************)
(* ReadState::Idle.  Of a chunk that was not taken as a whole the code     *)
(* keeps buf[..fed], the part that was taken: nothing, since feed_bytes    *)
(* takes all of a chunk or none of it.  So a refused chunk is gone.        *)
(***************************************************************************)
FeedBuffer ==
  /\ reader = "match"
  /\ read_state = "Idle"
  /\ buf # <<>>
  /\ feed_bytes(buf)
  /\ buf' = <<>>
  /\ read_state' = IF Fed(Len(buf)) = Len(buf) THEN "Reading" ELSE "Idle"
  /\ reader' = "process"
  /\ UNCHANGED <<writerVars, read_fut, delivered, ending, networkVars>>

PollReading == Read(BufLen)

\* A read of no bytes is tried again.
ReadEnd_mutant ==
  /\ reader = "match"
  /\ read_state = "Reading"
  /\ read_fut = "running"
  /\ broken
  /\ read_fut' = "done"
  /\ ending' = "io_error"
  /\ reader' = "app"
  /\ UNCHANGED <<stateVars, writerVars, read_state, buf, delivered, networkVars>>

\* A read of no bytes ends the stream, and the reader is kept; an error is
\* returned, and the completed future stays stored.
ReadEnd ==
  /\ reader = "match"
  /\ read_state = "Reading"
  /\ read_fut = "running"
  /\ \/ /\ broken
        /\ ending' = "io_error" /\ read_fut' = "done"
        /\ UNCHANGED read_state
     \/ /\ ~ broken /\ fin /\ socket = <<>>
        /\ ending' = "end" /\ read_state' = "Idle"
        /\ UNCHANGED read_fut
  /\ reader' = "app"
  /\ UNCHANGED <<stateVars, writerVars, buf, delivered, networkVars>>

-----------------------------------------------------------------------------
SenderStep ==
  \/ \E m \in Message : StartSend(m)
  \/ FeedReset \/ Process
  \/ PollWriting \/ FlushIdle \/ FlushReset
  \/ StartClosing \/ PollClosing

ReaderStep ==
  \/ BeginNext \/ ProcessRead \/ ReturnItem \/ NoItem
  \/ FeedBuffer \/ StartReading \/ PollReading \/ ReadEnd \/ ReadPanic

Kernel == KernelWrites \/ KernelShutsDown

Next ==
  \/ \E op \in {"feed", "flush", "close"} : BeginOp(op)
  \/ SenderStep
  \/ Cancel \/ DropConnection \/ BreakConnection
  \/ ReaderStep
  \/ Kernel

SafeSpec == Init /\ [][Next]_vars

(***************************************************************************)
(* As for Tokio, and the kernel carries out what was submitted.            *)
(***************************************************************************)
Spec ==
  SafeSpec /\ WF_vars(SenderStep) /\ WF_vars(ReaderStep) /\ WF_vars(Kernel)

-----------------------------------------------------------------------------
(* Properties.                                                             *)

(***************************************************************************)
(* No byte behind a refused chunk ever reaches the receive buffer: what it *)
(* holds is the stream from the next frame on, without a gap, so no wrong  *)
(* length prefix is read even though chunks are lost.                      *)
(***************************************************************************)
ReceivedIntact == Decoded <= Len(frames) /\ IsRun(recv_buffer, DecodedBytes)

(***************************************************************************)
(* After a close that succeeded, the receiving task sees the end of the    *)
(* stream only once it has received everything accepted, or when the       *)
(* receive buffer is full with the beginning of a frame longer than it.    *)
(***************************************************************************)
EndMissesOnlyLongFrames ==
  ending = "end" /\ write_result = "closed" => delivered = accepted \/ LongFrameAtFront

(***************************************************************************)
(* The same of a receiving task that waits for bytes while none are on     *)
(* their way: it has returned everything a successful flush covered.       *)
(***************************************************************************)
SleepMissesOnlyLongFrames ==
  ReaderSleeps => Len(delivered) >= flushed \/ LongFrameAtFront

=============================================================================
