--------------------------- MODULE TokioConnection ---------------------------
(***************************************************************************)
(* SocketConnection between two TokioSansConnections                       *)
(* (sansrpc-tokio/src/tcp.rs).                                             *)
(***************************************************************************)
EXTENDS SocketConnection

-----------------------------------------------------------------------------
(* The sending task.                                                       *)

(***************************************************************************)
(* feed: poll_ready, then start_send.  In Idle poll_ready is ready.  In    *)
(* Closing it is pending without a waker: no step.                         *)
(***************************************************************************)
StartSend(m) ==
  /\ sender = "feed"
  /\ write_state = "Idle"
  /\ feed_item(m)
  /\ accepted' = Append(accepted, m)
  /\ sender' = "start_send"
  /\ UNCHANGED <<write_state, write_fut, writing, flushed, write_result, readerVars,
                 networkVars>>

\* The process_write of start_send; its error is the error of feed.
ProcessWrite ==
  /\ sender = "start_send"
  /\ \/ EncodeNext /\ UNCHANGED <<sender, accepted>>
     \/ EncodeError /\ sender' = "app"
                    /\ accepted' = SubSeq(accepted, 1, Len(accepted) - 1)
     \/ EncodeDone /\ sender' = "app" /\ UNCHANGED accepted
  /\ UNCHANGED <<write_state, write_fut, writing, flushed, write_result, readerVars,
                 networkVars>>

(***************************************************************************)
(* poll_ready, poll_flush and poll_close treat Writing alike: they poll    *)
(* its write_all, which writes what the kernel has room for.  The writer   *)
(* comes back, as Idle, only when everything is written; after an error    *)
(* the completed future stays in write_state, and polling it panics.       *)
(***************************************************************************)
\* The completed future is not replaced by Idle.
WriteSome_mutant ==
  /\ write_fut = "running"
  /\ ~ broken
  /\ Room > 0
  /\ socket' = socket \o SubSeq(writing, 1, Written)
  /\ writing' = SubSeq(writing, Written + 1, Len(writing))
  /\ write_fut' = IF Written = Len(writing) THEN "done" ELSE "running"
  /\ UNCHANGED <<sender, write_state, write_result>>

WriteSome ==
  /\ write_fut = "running"
  /\ ~ broken
  /\ Room > 0
  /\ socket' = socket \o SubSeq(writing, 1, Written)
  /\ writing' = SubSeq(writing, Written + 1, Len(writing))
  /\ write_state' = IF Written = Len(writing) THEN "Idle" ELSE "Writing"
  /\ UNCHANGED <<sender, write_fut, write_result>>

WriteFails ==
  /\ write_fut = "running"
  /\ broken
  /\ write_fut' = "done"
  /\ write_result' = "failed"
  /\ sender' = "app"
  /\ UNCHANGED <<write_state, writing, socket>>

PollDone ==
  /\ write_fut = "done"
  /\ sender' = "panicked"
  /\ UNCHANGED <<write_state, write_fut, writing, write_result, socket>>

PollWriting ==
  /\ sender \in {"feed", "flush", "close"}
  /\ write_state = "Writing"
  /\ WriteSome \/ WriteFails \/ PollDone
  /\ UNCHANGED <<stateVars, accepted, flushed, fin, broken, readerVars>>

\* flush and shutdown of the writer; Closing is never left.
PollClosing ==
  /\ sender = "close"
  /\ write_state = "Closing"
  /\ \/ /\ write_fut = "running" /\ ~ broken
        /\ fin' = TRUE /\ write_fut' = "done"
        /\ write_result' = "closed" /\ sender' = "app"
     \/ /\ write_fut = "running" /\ broken
        /\ write_fut' = "done" /\ write_result' = "failed" /\ sender' = "app"
        /\ UNCHANGED fin
     \/ /\ write_fut = "done"
        /\ sender' = "panicked"
        /\ UNCHANGED <<fin, write_fut, write_result>>
  /\ UNCHANGED <<stateVars, write_state, writing, accepted, flushed, readerVars,
                 socket, broken>>

\* The task gives up an operation whose poll is pending.
Cancel ==
  /\ \/ sender \in {"feed", "flush", "close"} /\ write_state = "Writing"
        /\ write_fut = "running" /\ ~ broken /\ Room = 0
     \/ sender = "feed" /\ write_state = "Closing"
     \/ sender = "close" /\ write_state = "Closing" /\ write_fut = "running"
  /\ sender' = "app"
  /\ UNCHANGED <<stateVars, write_state, write_fut, writing, accepted, flushed,
                 write_result, readerVars, networkVars>>

-----------------------------------------------------------------------------
(* The receiving task: poll_next.                                          *)

\* The length of the read buffer.
BufLen == 2 * RecvBufferSize

\* The fed part is kept instead of the rest.
FeedBuffer_mutant ==
  /\ reader = "match"
  /\ read_state = "Idle"
  /\ buf # <<>>
  /\ feed_bytes(buf)
  /\ buf' = SubSeq(buf, 1, Fed(Len(buf)))
  /\ read_state' = IF Fed(Len(buf)) = BufLen THEN "Reading" ELSE "Idle"
  /\ reader' = "process"
  /\ UNCHANGED <<writerVars, read_fut, delivered, ending, networkVars>>

\* What was fed is not processed before the next read.
FeedBuffer_skip_mutant ==
  /\ reader = "match"
  /\ read_state = "Idle"
  /\ buf # <<>>
  /\ feed_bytes(buf)
  /\ buf' = SubSeq(buf, Fed(Len(buf)) + 1, Len(buf))
  /\ read_state' = IF Fed(Len(buf)) = BufLen THEN "Reading" ELSE "Idle"
  /\ UNCHANGED <<writerVars, reader, read_fut, delivered, ending, networkVars>>

(***************************************************************************)
(* ReadState::Idle.  The code compares what was fed with the length of the *)
(* whole buffer, so unless the read filled it, it keeps the rest, sleeps   *)
(* and goes round again, even when there is no rest.                       *)
(***************************************************************************)
FeedBuffer ==
  /\ reader = "match"
  /\ read_state = "Idle"
  /\ buf # <<>>
  /\ feed_bytes(buf)
  /\ buf' = SubSeq(buf, Fed(Len(buf)) + 1, Len(buf))
  /\ read_state' = IF Fed(Len(buf)) = BufLen THEN "Reading" ELSE "Idle"
  /\ reader' = "process"
  /\ UNCHANGED <<writerVars, read_fut, delivered, ending, networkVars>>

PollReading == Read(BufLen)

\* A read of no bytes is tried again.
ReadEnd_mutant ==
  /\ reader = "match"
  /\ read_state = "Reading"
  /\ read_fut = "running"
  /\ broken
  /\ read_fut' = "done"
  /\ ending' = "io_error"
  /\ reader' = "app"
  /\ UNCHANGED <<stateVars, writerVars, read_state, buf, delivered, networkVars>>

\* A read of no bytes is the end of the stream, whatever is left undecoded.
ReadEnd ==
  /\ reader = "match"
  /\ read_state = "Reading"
  /\ read_fut = "running"
  /\ broken \/ (fin /\ socket = <<>>)
  /\ read_fut' = "done"
  /\ ending' = IF broken THEN "io_error" ELSE "end"
  /\ reader' = "app"
  /\ UNCHANGED <<stateVars, writerVars, read_state, buf, delivered, networkVars>>

-----------------------------------------------------------------------------
SenderStep ==
  \/ \E m \in Message : StartSend(m)
  \/ ProcessWrite \/ PollWriting \/ TakeBatch
  \/ FlushReady \/ FlushReset
  \/ StartClosing \/ PollClosing

ReaderStep ==
  \/ BeginNext \/ ProcessRead \/ ReturnItem \/ NoItem
  \/ FeedBuffer \/ StartReading \/ PollReading \/ ReadEnd \/ ReadPanic

Next ==
  \/ \E op \in {"feed", "flush", "close"} : BeginOp(op)
  \/ SenderStep
  \/ Cancel \/ DropConnection \/ BreakConnection
  \/ ReaderStep

SafeSpec == Init /\ [][Next]_vars

(***************************************************************************)
(* The runtime polls a task that was woken, and the receiving task asks    *)
(* for the next message whenever it has one.  Nothing makes the sending    *)
(* task start an operation, cancel one or drop the connection.             *)
(***************************************************************************)
Spec == SafeSpec /\ WF_vars(SenderStep) /\ WF_vars(ReaderStep)

=============================================================================
