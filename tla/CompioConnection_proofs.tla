----------------------- MODULE CompioConnection_proofs -----------------------
(***************************************************************************)
(* The safety properties of CompioConnection, for every value of its       *)
(* constants.  The argument is that of TokioConnection_proofs, but for the *)
(* chunks the receive buffer refuses, which are lost here: from the first  *)
(* one on, the receiver is Blocked, and stays so.                          *)
(***************************************************************************)
EXTENDS CompioConnection, SocketConnection_proofs

IInv == ConnInv /\ (Intact \/ Blocked) /\ (EndOK \/ Blocked)

-----------------------------------------------------------------------------
(* The steps of this adapter.                                              *)

\* A step of the sending task that changes none of the bytes.
LEMMA ControlKeeps ==
  ASSUME ConnInv, WriterOK', sender # "start_send",
         sender' \in {"app", "feed", "flush", "close", "panicked", "dropped"},
         write_state' \in {"Idle", "Writing", "Closing"},
         write_state' = "Closing" => write_state = "Closing",
         write_fut' \in {"running", "written", "done"},
         write_result' \in {"ok", "failed", "closed"},
         fin' = TRUE \/ fin' = fin,
         UNCHANGED <<stateVars, readerVars, writing, accepted, flushed, socket, broken>>
  PROVE  Keeps
<1>1. UNCHANGED <<frames, send_queue, send_buffer>>
  BY DEF stateVars, writeVars
<1>2. TypeOK'
  <2>1. StateTypeOK'
    BY StateTypeKept DEF ConnInv, TypeOK
  <2>2. TypeOK /\ ReaderTypeOK' /\ WriterTypeOK /\ NetworkTypeOK
    BY TypeParts, ReaderTypeKept DEF ConnInv
  <2>3. WriterTypeOK' /\ NetworkTypeOK'
    BY <2>2 DEF WriterTypeOK, NetworkTypeOK
  <2>4. QED
    BY <2>1, <2>2, <2>3, TypePartsNext
<1>3. AcceptedOK' /\ FlushOK'
  BY <1>1, SenderMoves, FlushedMoves
<1>4. QED
  BY <1>2, <1>3, WriterControlKeeps

\* start_send of a connection that is closing.
LEMMA FeedResetKeeps ==
  ASSUME ConnInv, FeedReset
  PROVE  Keeps
<1>1. /\ UNCHANGED <<stateVars, write_state, write_fut, writing, accepted, flushed,
                     write_result, readerVars, socket, fin, broken, send_buffer>>
      /\ sender = "feed" /\ sender' = "app"
  BY DEF FeedReset, networkVars, stateVars, writeVars
<1>2. WriterOK'
  BY <1>1 DEF ConnInv, WriterOK
<1>3. QED
  BY <1>1, <1>2, ControlKeeps DEF ConnInv, TypeOK

\* A poll that finds the result of an operation, or that has failed before.
LEMMA PollWritingKeeps ==
  ASSUME ConnInv, PollWriting
  PROVE  Keeps
<1>1. /\ UNCHANGED <<stateVars, accepted, flushed, readerVars, socket, fin, broken,
                     send_buffer, writing>>
      /\ sender \in {"feed", "flush", "close"}
      /\ write_state = "Writing"
  BY DEF PollWriting, PollDone, WriteDone, WriteFails, networkVars, stateVars, writeVars,
         ConnInv, WriterOK
<1>2. ~ fin
  BY <1>1 DEF ConnInv, WriterOK
<1>3. CASE WriteDone
  <2>1. WriterOK'
    BY <1>1, <1>2, <1>3 DEF ConnInv, WriterOK, WriteDone
  <2>2. QED
    BY <1>1, <1>3, <2>1, ControlKeeps DEF WriteDone, ConnInv, TypeOK
<1>4. CASE WriteFails \/ PollDone
  <2>1. /\ write_state' = write_state /\ write_fut' = "done"
        /\ write_result' \in {"failed", write_result} /\ write_result' # "ok"
        /\ sender' \in {"app", "panicked"}
    BY <1>4 DEF WriteFails, PollDone, ConnInv, WriterOK
  <2>2. WriterOK'
    BY <1>1, <1>2, <2>1 DEF ConnInv, WriterOK
  <2>3. QED
    BY <1>1, <2>1, <2>2, ControlKeeps DEF ConnInv, TypeOK
<1>5. QED
  BY <1>1, <1>3, <1>4 DEF PollWriting

\* The kernel writes, whatever the task does meanwhile.
LEMMA KernelWritesKeeps ==
  ASSUME ConnInv, KernelWrites
  PROVE  Keeps
<1>1. /\ write_state = "Writing" /\ ~ broken
      /\ socket' = socket \o SubSeq(writing, 1, Written)
      /\ writing' = SubSeq(writing, Written + 1, Len(writing))
      /\ write_state' = "Writing" /\ write_fut' = "written"
      /\ UNCHANGED <<stateVars, readerVars, sender, accepted, flushed, write_result, fin,
                     broken>>
  BY DEF KernelWrites
<1> HIDE DEF Written
<1>2. QED
  BY <1>1, WriteKeeps DEF MovedToSocket

\* The kernel shuts the connection down.
LEMMA KernelShutsDownKeeps ==
  ASSUME ConnInv, KernelShutsDown
  PROVE  Keeps
<1>1. /\ UNCHANGED <<stateVars, sender, write_state, writing, accepted, flushed,
                     write_result, readerVars, socket, broken, send_buffer>>
      /\ fin' = TRUE /\ write_fut' = "written" /\ write_state = "Closing"
      /\ sender # "start_send"
  BY DEF KernelShutsDown, stateVars, writeVars, ConnInv, WriterOK
<1>2. WriterOK'
  BY <1>1 DEF ConnInv, WriterOK
<1>3. QED
  BY <1>1, <1>2, ControlKeeps DEF ConnInv, TypeOK

\* poll_close of a connection that is closing.
LEMMA PollClosingKeeps ==
  ASSUME ConnInv, PollClosing
  PROVE  Keeps
<1>1. /\ UNCHANGED <<stateVars, write_state, writing, accepted, flushed, readerVars,
                     socket, fin, broken, send_buffer>>
      /\ sender = "close" /\ sender' \in {"app", "panicked"}
      /\ write_state = "Closing" /\ write_fut' = "done"
      /\ write_result' \in {"failed", "closed"}
  BY DEF PollClosing, WriteFails, PollDone, networkVars, stateVars, writeVars, ConnInv,
         WriterOK, TypeOK
<1>2. WriterOK'
  BY <1>1 DEF ConnInv, WriterOK
<1>3. QED
  BY <1>1, <1>2, ControlKeeps DEF ConnInv, TypeOK

\* A cancelled operation leaves everything where it is.
LEMMA CancelKeeps ==
  ASSUME ConnInv, Cancel
  PROVE  Keeps
<1>1. /\ UNCHANGED <<stateVars, write_state, write_fut, writing, accepted, flushed,
                     write_result, readerVars, socket, fin, broken, send_buffer>>
      /\ sender \in {"feed", "flush", "close"} /\ sender' = "app"
  BY DEF Cancel, networkVars, stateVars, writeVars
<1>2. WriterOK'
  BY <1>1 DEF ConnInv, WriterOK
<1>3. QED
  BY <1>1, <1>2, ControlKeeps DEF ConnInv, TypeOK

\* A refused chunk is lost: the receiver is blocked from then on.
LEMMA FeedBufferKeeps ==
  ASSUME IInv, FeedBuffer
  PROVE  IInv'
<1>0. /\ Len(buf) \in Nat /\ buf \in Seq(Nat) /\ Len(buf) # 0
      /\ reader = "match" /\ reader' = "process" /\ feed_bytes(buf) /\ buf' = <<>>
      /\ UNCHANGED <<writerVars, read_fut, delivered, ending, socket, fin, broken>>
      /\ UNCHANGED <<accepted, write_state, writing>>
  BY Lengths DEF IInv, ConnInv, TypeOK, FeedBuffer, networkVars, writerVars
<1>1. CASE Fed(Len(buf)) = Len(buf)
  <2>1. ~ Blocked
    BY <1>0, <1>1, FedFacts DEF Blocked, IInv, ConnInv, TypeOK
  <2>2. QED
    BY <1>1, <2>1, FeedTakenKeeps DEF FeedBuffer, IInv
<1>2. CASE Fed(Len(buf)) # Len(buf)
  <2>1. /\ UNCHANGED stateVars
        /\ UNCHANGED <<writeVars, frames, recv_buffer, recv_queue, send_buffer>>
        /\ read_state' = "Idle"
    BY <1>0, <1>2, FeedRefused DEF FeedBuffer, IInv, stateVars, writeVars, readVars
  <2>2. Blocked
    BY <1>0, <1>2, RefusedBlocks DEF IInv
  <2>3. TypeOK'
    <3>1. StateTypeOK'
      BY <2>1 DEF IInv, ConnInv, TypeOK, StateTypeOK, writeVars
    <3>2. QED
      BY <1>0, <2>1, <3>1 DEF IInv, ConnInv, TypeOK, writerVars
  <2>4. /\ AcceptedOK' /\ WriterOK' /\ FlushOK' /\ FramesContiguous' /\ FramesOrdered'
        /\ StreamLen' = StreamLen
    BY <1>0, <2>1, WriterUnmoved DEF IInv
  <2>5. Decoded' = Decoded
    BY <1>0, <2>1 DEF Decoded
  <2>6. DecodedBytes' = DecodedBytes
    BY <2>1, <2>5 DEF DecodedBytes, End
  <2>7. InOrder' /\ ReceiverBytes'
    BY <1>0, <2>1, <2>4, <2>5, <2>6 DEF IInv, ConnInv, InOrder, ReceiverBytes, IsRun
  <2>8. ending # "end" /\ ending # "decode_error"
    BY <1>0 DEF IInv, ConnInv, ReaderOK, FailedAtFront
  <2>9. ReaderOK' /\ FailedAtFront'
    BY <1>0, <2>1, <2>8 DEF IInv, ConnInv, ReaderOK, FailedAtFront
  <2>10. Blocked'
    BY <2>1, <2>2, <2>5 DEF Blocked
  <2>11. QED
    BY <2>3, <2>4, <2>7, <2>9, <2>10 DEF IInv, ConnInv
<1>3. QED
  BY <1>1, <1>2

\* The end of the stream, or the error that replaces it.
LEMMA ReadEndKeeps ==
  ASSUME IInv, ReadEnd
  PROVE  IInv'
<1>1. /\ UNCHANGED <<stateVars, writerVars, buf, delivered, socket, fin, broken>>
      /\ UNCHANGED <<accepted, write_state, sender>>
      /\ reader = "match" /\ read_state = "Reading" /\ reader' = "app"
      /\ read_state' \in {"Idle", "Reading"} /\ read_fut' \in {"running", "done"}
      /\ ending' \in {"io_error", "end"}
      /\ ending' = "end" => ~ broken /\ fin /\ socket = <<>>
  BY DEF ReadEnd, networkVars, writerVars, IInv, ConnInv, TypeOK
<1>2. TypeOK'
  <2>1. StateTypeOK'
    BY <1>1 DEF IInv, ConnInv, TypeOK, StateTypeOK, stateVars, writeVars, readVars
  <2>2. QED
    BY <1>1, <2>1 DEF IInv, ConnInv, TypeOK, writerVars
<1>3. ReaderOK' /\ FailedAtFront'
  BY <1>1 DEF IInv, ConnInv, ReaderOK, FailedAtFront
<1>4. Intact => EndOK'
  BY <1>1, EndSeen DEF IInv, EndOK
<1>5. /\ ConnInv' /\ (Intact => Intact') /\ (Blocked => Blocked')
  <2>1. UNCHANGED <<writeVars, frames, recv_buffer, recv_queue, send_buffer, writing>>
    BY <1>1 DEF stateVars, writeVars, readVars, writerVars
  <2>2. /\ AcceptedOK' /\ WriterOK' /\ FlushOK' /\ FramesContiguous' /\ FramesOrdered'
        /\ StreamLen' = StreamLen
    BY <1>1, <2>1, WriterUnmoved DEF IInv
  <2>3. Decoded' = Decoded
    BY <1>1, <2>1 DEF Decoded
  <2>4. DecodedBytes' = DecodedBytes
    BY <2>1, <2>3 DEF DecodedBytes, End
  <2>5. InOrder' /\ ReceiverBytes'
    BY <1>1, <2>1, <2>2, <2>3, <2>4 DEF IInv, ConnInv, InOrder, ReceiverBytes, IsRun
  <2>6. Intact => Intact'
    BY <1>1, <2>1, <2>2, <2>4, BytesUnmoved
  <2>7. Blocked => Blocked'
    BY <2>1, <2>3 DEF Blocked
  <2>8. QED
    BY <1>2, <1>3, <2>2, <2>5, <2>6, <2>7 DEF ConnInv
<1>6. QED
  BY <1>4, <1>5 DEF IInv

-----------------------------------------------------------------------------
(* The inductive invariant.                                                *)

\* The steps that are those of both adapters.
LEMMA SharedSteps ==
  ASSUME ConnInv, Next
  PROVE  \/ SharedStep \/ (\E m \in Message : StartSendStep(m)) \/ ProcessStep
         \/ FeedReset \/ PollWriting \/ PollClosing \/ Cancel \/ Kernel
         \/ FeedBuffer \/ ReadEnd
<1>1. BufLen \in Nat
  BY ConfigAssumption DEF BufLen
<1>2. PollReading => \E max \in Nat : Read(max)
  BY <1>1 DEF PollReading
<1>3. ASSUME NEW m \in Message, StartSend(m)
      PROVE  StartSendStep(m)
  <2>1. ~ SendQueueFull
    BY <1>3, QueueHasRoom DEF StartSend
  <2>2. QED
    BY <1>3, <2>1 DEF StartSend, StartSendStep
<1>4. Process => ProcessStep
  <2>1. ~ FlushProcesses
    BY QueueHasRoom DEF FlushProcesses
  <2>2. QED
    BY <2>1 DEF Process, ProcessStep
<1>5. FlushIdle => TakeBatch \/ FlushReady
  BY DEF FlushIdle
<1>6. QED
  BY <1>2, <1>3, <1>4, <1>5 DEF Next, SenderStep, ReaderStep, SharedStep

\* Every step preserves the invariant.
LEMMA StepKeeps ==
  IInv /\ [Next]_vars => IInv'
<1> SUFFICES ASSUME IInv, [Next]_vars
             PROVE  IInv'
  OBVIOUS
<1>1. Keeps => IInv'
  BY DEF Keeps, IInv
<1>2. CASE SharedStep
  BY <1>1, <1>2, SharedKeeps DEF IInv
<1>3. CASE (\E m \in Message : StartSendStep(m)) \/ ProcessStep
  BY <1>1, <1>3, StartSendStepsKeep DEF IInv
<1>4. CASE FeedReset \/ PollWriting \/ PollClosing \/ Cancel
  BY <1>1, <1>4, FeedResetKeeps, PollWritingKeeps, PollClosingKeeps, CancelKeeps DEF IInv
<1>5. CASE Kernel
  BY <1>1, <1>5, KernelWritesKeeps, KernelShutsDownKeeps DEF IInv, Kernel
<1>6. CASE FeedBuffer \/ ReadEnd
  BY <1>6, FeedBufferKeeps, ReadEndKeeps
<1>7. CASE UNCHANGED vars
  BY <1>1, <1>7, StutterKeeps DEF IInv
<1>8. QED
  BY <1>2, <1>3, <1>4, <1>5, <1>6, <1>7, SharedSteps DEF IInv

\* The inductive invariant is one.
LEMMA InvariantHolds == SafeSpec => []IInv
<1>1. Init => IInv
  BY InitHolds DEF IInv
<1>2. QED
  BY <1>1, StepKeeps, PTL DEF SafeSpec

(***************************************************************************)
(* Type correctness, for every value of the constants.                     *)
(***************************************************************************)
THEOREM TypeCorrect == SafeSpec => []TypeOK
<1>1. IInv => TypeOK
  BY DEF IInv, ConnInv
<1>2. QED
  BY <1>1, InvariantHolds, PTL

(***************************************************************************)
(* Chunks are lost, and still the receive buffer holds the stream from the *)
(* next frame on, without a gap: no wrong length prefix is ever read.      *)
(***************************************************************************)
THEOREM NothingMisread == SafeSpec => []ReceivedIntact
<1>1. IInv => ReceivedIntact
  BY DEF IInv, ConnInv, InOrder, ReceiverBytes, ReceivedIntact
<1>2. QED
  BY <1>1, InvariantHolds, PTL

(***************************************************************************)
(* A feed that returns Ok has put its message on the stream: start_send    *)
(* never returns WouldBlock.                                               *)
(***************************************************************************)
THEOREM AcceptedHolds == SafeSpec => []AcceptedOnStream
<1>1. IInv => AcceptedOnStream
  BY SafetyFollows DEF IInv
<1>2. QED
  BY <1>1, InvariantHolds, PTL

(***************************************************************************)
(* A flush that returns Ok has handed everything fed before it to the      *)
(* kernel, also when operations before it were cancelled that the kernel   *)
(* went on with.                                                           *)
(***************************************************************************)
THEOREM FlushHolds == SafeSpec => []FlushIsComplete
<1>1. IInv => FlushIsComplete
  BY SafetyFollows DEF IInv
<1>2. QED
  BY <1>1, InvariantHolds, PTL

(***************************************************************************)
(* Only an error returned before, or a second close, makes a poll panic.   *)
(***************************************************************************)
THEOREM PanicHolds == SafeSpec => []PanicsOnlyAfterEnd
<1>1. IInv => PanicsOnlyAfterEnd
  BY SafetyFollows DEF IInv
<1>2. QED
  BY <1>1, InvariantHolds, PTL

(***************************************************************************)
(* After a close that succeeded, only a frame longer than the receive      *)
(* buffer costs the receiving task something that was accepted.            *)
(***************************************************************************)
THEOREM EndHolds == SafeSpec => []EndMissesOnlyLongFrames
<1>1. IInv => EndMissesOnlyLongFrames
  <2> SUFFICES ASSUME IInv, ending = "end", write_result = "closed"
               PROVE  delivered = accepted \/ LongFrameAtFront
    BY DEF EndMissesOnlyLongFrames
  <2>1. write_state = "Closing"
    BY DEF IInv, ConnInv, WriterOK
  <2>2. QED
    BY <2>1, BlockedByLongFrame DEF IInv, EndOK
<1>2. QED
  BY <1>1, InvariantHolds, PTL

(***************************************************************************)
(* A receiving task that waits for bytes while none are on their way has   *)
(* returned everything a successful flush covered, but what is behind a    *)
(* frame longer than the receive buffer.                                   *)
(***************************************************************************)
THEOREM SleepHolds == SafeSpec => []SleepMissesOnlyLongFrames
<1>1. IInv => SleepMissesOnlyLongFrames
  BY FlushedReturned, BlockedByLongFrame DEF IInv, SleepMissesOnlyLongFrames
<1>2. QED
  BY <1>1, InvariantHolds, PTL

(***************************************************************************)
(* A decoding error is the last thing poll_next reports.                   *)
(***************************************************************************)
THEOREM ErrorIsFinal == SafeSpec => DecodeErrorIsFinal
<1>1. IInv /\ [Next]_vars => (ending = "decode_error" => UNCHANGED <<ending, delivered>>)
  <2> SUFFICES ASSUME IInv, [Next]_vars, ending = "decode_error"
               PROVE  UNCHANGED <<ending, delivered>>
    OBVIOUS
  <2>1. CASE SharedStep \/ (\E m \in Message : StartSendStep(m)) \/ ProcessStep
    BY <2>1, SharedFinal DEF IInv
  <2>2. CASE FeedReset \/ PollWriting \/ PollClosing \/ Cancel \/ Kernel
    BY <2>2 DEF FeedReset, PollWriting, PollClosing, Cancel, Kernel, KernelWrites,
       KernelShutsDown, readerVars
  <2>3. CASE FeedBuffer \/ ReadEnd
    BY <2>3 DEF FeedBuffer, ReadEnd, IInv, ConnInv, FailedAtFront
  <2>4. CASE UNCHANGED vars
    BY <2>4 DEF vars, readerVars
  <2>5. QED
    BY <2>1, <2>2, <2>3, <2>4, SharedSteps DEF IInv
<1>2. QED
  BY <1>1, InvariantHolds, PTL DEF SafeSpec, DecodeErrorIsFinal

(***************************************************************************)
(* When every frame fits the receive buffer no chunk is refused, and the   *)
(* adapter keeps what the Tokio adapter keeps: every byte, and after a     *)
(* close everything accepted.                                              *)
(***************************************************************************)
THEOREM CompleteWithoutLongFrames ==
  ASSUME \A m \in Message : FrameLen(m) <= RecvBufferSize
  PROVE  SafeSpec => [](StreamIntact /\ EndIsComplete)
<1>1. IInv => ~ Blocked
  <2> SUFFICES ASSUME IInv, Blocked
               PROVE  FALSE
    OBVIOUS
  <2>1. /\ Decoded + 1 \in 1 .. Len(frames) /\ StateTypeOK /\ Len(recv_buffer) \in Nat
        /\ FrameLen(frames[Decoded + 1].msg) \in Nat
    BY NextFrameEnd, Lengths DEF IInv, Blocked, ConnInv, TypeOK
  <2>2. FrameLen(frames[Decoded + 1].msg) <= RecvBufferSize
    BY <2>1, FrameFacts
  <2>3. QED
    BY <2>1, <2>2, ConfigAssumption DEF Blocked
<1>2. IInv => StreamIntact /\ EndIsComplete
  BY <1>1, StreamFollows DEF IInv, EndOK, ConnInv, WriterOK, EndIsComplete
<1>3. QED
  BY <1>2, InvariantHolds, PTL

(***************************************************************************)
(* The connection implements the safety of the message channel, although   *)
(* it loses bytes.                                                         *)
(***************************************************************************)
THEOREM ImplementsTheChannel == SafeSpec => ImplementsChannel
<1>1. Init => Channel!Init
  BY DEF Init, StateInit, Channel!Init, Messages
<1>2. IInv /\ [Next]_vars => [Channel!Next]_(Channel!channelVars)
  <2> SUFFICES ASSUME IInv, [Next]_vars
               PROVE  Channel!Next \/ UNCHANGED <<Messages, delivered>>
    BY DEF Channel!channelVars
  <2>1. CASE SharedStep \/ (\E m \in Message : StartSendStep(m)) \/ ProcessStep
    BY <2>1, SharedRefines DEF IInv
  <2>2. CASE \/ FeedReset \/ PollWriting \/ PollClosing \/ Cancel \/ Kernel
             \/ FeedBuffer \/ ReadEnd
    <3>1. UNCHANGED <<frames, delivered>>
      BY <2>2 DEF FeedReset, PollWriting, PollClosing, Cancel, Kernel, KernelWrites,
         KernelShutsDown, FeedBuffer, feed_bytes, ReadEnd, stateVars, writeVars, readerVars
    <3>2. QED
      BY <3>1, QuietStep
  <2>3. CASE UNCHANGED vars
    <3>1. UNCHANGED <<frames, delivered>>
      BY <2>3 DEF vars, stateVars, writeVars, readerVars
    <3>2. QED
      BY <3>1, QuietStep
  <2>4. QED
    BY <2>1, <2>2, <2>3, SharedSteps DEF IInv
<1>3. QED
  BY <1>1, <1>2, InvariantHolds, PTL DEF SafeSpec, ImplementsChannel, Channel!SafeSpec

-----------------------------------------------------------------------------
(* Every step advances.                                                    *)

(***************************************************************************)
(* The operations the kernel has still to carry out: a write_all submits   *)
(* one only while it has bytes left, and a shutdown is carried out once.   *)
(***************************************************************************)
SubmittedOK ==
  write_fut = "running" =>
    /\ write_state = "Writing" => writing # <<>>
    /\ write_state = "Closing" => sender = "dropped" \/ ~ fin

\* Every step keeps that.
LEMMA SubmittedKept ==
  ASSUME IInv, SubmittedOK, [Next]_vars
  PROVE  SubmittedOK'
<1>1. CASE TakeBatch
  <2>1. writing' # <<>> /\ write_state' = "Writing"
    BY <1>1 DEF TakeBatch, consume_all
  <2>2. QED
    BY <2>1 DEF SubmittedOK
<1>2. CASE StartClosing
  <2>1. write_state' = "Closing" /\ fin' = fin /\ sender = "close" /\ write_state = "Idle"
    BY <1>2 DEF StartClosing, WriterIdle, networkVars
  <2>2. ~ fin
    BY <2>1 DEF IInv, ConnInv, WriterOK
  <2>3. QED
    BY <2>1, <2>2 DEF SubmittedOK
<1>3. CASE DropConnection
  <2>1. UNCHANGED <<write_state, write_fut, writing>> /\ sender' = "dropped"
    BY <1>3 DEF DropConnection
  <2>2. QED
    BY <2>1 DEF SubmittedOK
<1>4. CASE PollWriting
  <2>1. CASE WriteDone
    <3>1. write_state' # "Closing"
      BY <2>1 DEF WriteDone
    <3>2. write_state' = "Writing" => writing' # <<>>
      BY <2>1 DEF WriteDone
    <3>3. QED
      BY <3>1, <3>2 DEF SubmittedOK
  <2>2. CASE WriteFails \/ PollDone
    <3>1. write_fut' = "done"
      BY <2>2 DEF WriteFails, PollDone
    <3>2. QED
      BY <3>1 DEF SubmittedOK
  <2>3. QED
    BY <1>4, <2>1, <2>2 DEF PollWriting
<1>5. CASE PollClosing \/ Kernel
  <2>1. write_fut' # "running"
    BY <1>5 DEF PollClosing, WriteFails, PollDone, Kernel, KernelWrites, KernelShutsDown
  <2>2. QED
    BY <2>1 DEF SubmittedOK
<1>6. ASSUME UNCHANGED <<write_state, write_fut, writing, fin>>,
             sender = "dropped" => sender' = "dropped"
      PROVE  SubmittedOK'
  BY <1>6 DEF SubmittedOK
<1>7. CASE \/ \E op \in {"feed", "flush", "close"} : BeginOp(op)
           \/ FlushReady \/ FlushReset \/ FeedReset \/ Cancel
           \/ (\E m \in Message : StartSendStep(m)) \/ ProcessStep
  <2>1. UNCHANGED <<write_state, write_fut, writing, fin>> /\ sender # "dropped"
    BY <1>7 DEF BeginOp, FlushReady, FlushReset, FeedReset, Cancel, StartSendStep,
       ProcessStep, networkVars
  <2>2. QED
    BY <1>6, <2>1
<1>8. CASE \/ BreakConnection \/ BeginNext \/ ProcessRead \/ ReturnItem \/ NoItem
           \/ StartReading \/ ReadPanic \/ (\E max \in Nat : Read(max))
           \/ FeedBuffer \/ ReadEnd \/ UNCHANGED vars
  <2>1. UNCHANGED <<write_state, write_fut, writing, fin, sender>>
    BY <1>8 DEF BreakConnection, BeginNext, ProcessRead, ReturnItem, NoItem, StartReading,
       ReadPanic, Read, FeedBuffer, ReadEnd, vars, writerVars, networkVars
  <2>2. QED
    BY <1>6, <2>1
<1>9. QED
  BY <1>1, <1>2, <1>3, <1>4, <1>5, <1>7, <1>8, SharedSteps DEF SharedStep, IInv

\* A poll of a write_all finds a result, or ends the operation.
LEMMA PollWritingAdvances ==
  ASSUME ConnInv, PollWriting
  PROVE  StepAdvances
<1>1. /\ UNCHANGED <<broken, send_queue, send_buffer, fin>>
      /\ sender \in {"feed", "flush", "close"}
  BY DEF PollWriting, stateVars, writeVars, networkVars
<1>2. CASE WriteFails \/ PollDone
  <2>1. sender' \in {"app", "panicked"}
    BY <1>2 DEF WriteFails, PollDone
  <2>2. QED
    BY <1>1, <2>1, OperationEnds
<1>3. CASE write_state = "Writing" /\ WriteDone
  <2>1. /\ UNCHANGED <<sender, writing>> /\ write_fut = "written" /\ write_fut' = "running"
        /\ write_state' \in {"Idle", "Writing"}
    BY <1>3 DEF WriteDone
  <2>2. CASE write_state' = "Idle"
    <3>1. WriteStateRank = 2 /\ WriteStateRank' = 1
      BY <1>3, <2>2 DEF WriteStateRank
    <3>2. QED
      BY <1>1, <2>1, <3>1, WriteLowers DEF StepAdvances
  <2>3. CASE write_state' = "Writing"
    BY <1>1, <1>3, <2>1, <2>3, WriteLowers DEF StepAdvances
  <2>4. QED
    BY <2>1, <2>2, <2>3
<1>4. QED
  BY <1>2, <1>3 DEF PollWriting

\* The kernel carries out an operation.
LEMMA KernelAdvances ==
  ASSUME ConnInv, SubmittedOK, Kernel
  PROVE  StepAdvances
<1>1. UNCHANGED <<broken, sender, send_queue, send_buffer>>
  BY DEF Kernel, KernelWrites, KernelShutsDown, stateVars, writeVars
<1>2. CASE KernelWrites
  <2>1. /\ Room > 0 /\ writing # <<>>
        /\ writing' = SubSeq(writing, Written + 1, Len(writing))
    BY <1>2 DEF KernelWrites, SubmittedOK
  <2>2. QED
    BY <1>1, <2>1, WriteAdvances
<1>3. CASE KernelShutsDown
  <2>1. UNCHANGED <<writing, write_state>> /\ fin # TRUE /\ fin' = TRUE
    <3>1. UNCHANGED <<writing, write_state>> /\ ~ fin /\ fin' = TRUE
      BY <1>3 DEF KernelShutsDown, SubmittedOK
    <3>2. fin \in BOOLEAN
      BY DEF ConnInv, TypeOK
    <3>3. QED
      BY <3>1, <3>2
  <2>2. QED
    BY <1>1, <2>1, WriteLowers DEF StepAdvances
<1>4. QED
  BY <1>2, <1>3 DEF Kernel

\* A poll of a connection that is closing ends the operation, and so does
\* giving it up.
LEMMA ClosingAdvances ==
  ASSUME FeedReset \/ PollClosing \/ Cancel
  PROVE  StepAdvances
<1>1. UNCHANGED broken
  BY DEF FeedReset, PollClosing, Cancel, networkVars
<1>2. sender \in {"feed", "flush", "close"} /\ sender' \in {"app", "panicked"}
  BY DEF FeedReset, PollClosing, WriteFails, PollDone, Cancel
<1>3. QED
  BY <1>1, <1>2, OperationEnds

\* A chunk is taken or dropped.
LEMMA FeedBufferAdvances ==
  ASSUME IInv, FeedBuffer
  PROVE  StepAdvances
<1>1. Len(buf) \in Nat /\ Len(buf) # 0 /\ buf' = <<>>
  BY Lengths DEF IInv, ConnInv, TypeOK, FeedBuffer
<1>2. Len(buf') < Len(buf)
  BY <1>1
<1>3. SenderUnmoved /\ UNCHANGED <<ending, read_fut, socket>>
  BY DEF FeedBuffer, feed_bytes, SenderUnmoved, writerVars, networkVars, writeVars
<1>4. QED
  BY <1>2, <1>3, PollLowers DEF StepAdvances

\* A read that ends the stream, or fails.
LEMMA ReadEndAdvances ==
  ASSUME IInv, ReadEnd
  PROVE  StepAdvances
<1>1. SenderUnmoved
  BY DEF ReadEnd, SenderUnmoved, stateVars, writeVars, writerVars, networkVars
<1>2. ending # "end"
  BY DEF ReadEnd, IInv, ConnInv, ReaderOK
<1>3. \/ ending' = "end"
      \/ ending' = "io_error" /\ read_fut # "done" /\ read_fut' = "done"
  BY DEF ReadEnd
<1>4. Advance
  BY <1>1, <1>2, <1>3, ReadLowers
<1>5. QED
  BY <1>4 DEF StepAdvances

(***************************************************************************)
(* No step but the beginning of an operation can be repeated for ever: but *)
(* for a turn of poll_next that meets the undecodable message again, every *)
(* step lowers what is left to happen.                                     *)
(***************************************************************************)
THEOREM EveryStepAdvances == SafeSpec => StepsAdvance
<1>1. Init => SubmittedOK
  BY DEF Init, SubmittedOK
<1>2. IInv /\ SubmittedOK /\ [Next]_vars => SubmittedOK'
  BY SubmittedKept
<1>3. IInv /\ SubmittedOK /\ [Next]_vars => StepAdvances \/ UNCHANGED vars
  <2> SUFFICES ASSUME IInv, SubmittedOK, Next
               PROVE  StepAdvances
    OBVIOUS
  <2>1. CASE SharedStep
    BY <2>1, SharedAdvances DEF IInv
  <2>2. CASE (\E m \in Message : StartSendStep(m)) \/ ProcessStep
    BY <2>2, StartSendAdvances DEF IInv, StepAdvances
  <2>3. CASE FeedReset \/ PollWriting \/ PollClosing \/ Cancel
    BY <2>3, PollWritingAdvances, ClosingAdvances DEF IInv
  <2>4. CASE Kernel
    BY <2>4, KernelAdvances DEF IInv
  <2>5. CASE FeedBuffer \/ ReadEnd
    BY <2>5, FeedBufferAdvances, ReadEndAdvances
  <2>6. QED
    BY <2>1, <2>2, <2>3, <2>4, <2>5, SharedSteps DEF IInv
<1>4. QED
  BY <1>1, <1>2, <1>3, InvariantHolds, PTL DEF SafeSpec, StepsAdvance

\* Only a reset makes a read fail.
LEMMA FailsByResetKept ==
  ASSUME IInv, FailsByReset, [Next]_vars
  PROVE  FailsByReset'
<1>1. CASE SharedStep \/ (\E m \in Message : StartSendStep(m)) \/ ProcessStep
  BY <1>1, SharedFailsByReset
<1>2. CASE ReadEnd
  BY <1>2 DEF ReadEnd, FailsByReset, networkVars
<1>3. CASE \/ FeedReset \/ PollWriting \/ PollClosing \/ Cancel \/ Kernel
           \/ FeedBuffer \/ UNCHANGED vars
  <2>1. UNCHANGED <<ending, broken>>
    BY <1>3 DEF FeedReset, PollWriting, PollClosing, Cancel, Kernel, KernelWrites,
       KernelShutsDown, FeedBuffer, vars, readerVars, networkVars
  <2>2. QED
    BY <2>1 DEF FailsByReset
<1>4. QED
  BY <1>1, <1>2, <1>3, SharedSteps DEF IInv

(***************************************************************************)
(* A pending write waits for a receiving task that is there and has bytes  *)
(* to read.                                                                *)
(***************************************************************************)
THEOREM WritersHaveReaders == SafeSpec => []PendingWriteHasReader
<1>1. Init => FailsByReset
  BY DEF Init, FailsByReset
<1>2. IInv /\ FailsByReset /\ [Next]_vars => FailsByReset'
  BY FailsByResetKept
<1>3. IInv /\ FailsByReset => PendingWriteHasReader
  BY WaitsForReader DEF IInv
<1>4. QED
  BY <1>1, <1>2, <1>3, InvariantHolds, PTL DEF SafeSpec

=============================================================================
