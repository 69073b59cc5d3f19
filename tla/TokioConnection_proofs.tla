------------------------ MODULE TokioConnection_proofs ------------------------
(***************************************************************************)
(* The safety properties of TokioConnection, for every value of its        *)
(* constants.  The inductive invariant says where every byte is; the steps *)
(* it shares with the Compio adapter are dealt with in                     *)
(* SocketConnection_proofs.                                                *)
(***************************************************************************)
EXTENDS TokioConnection, SocketConnection_proofs

IInv == ConnInv /\ Intact /\ EndOK

-----------------------------------------------------------------------------
(* The steps of this adapter.                                              *)

\* poll_ready, poll_flush and poll_close of a write_all that is not done, or
\* that has failed.
LEMMA PollWritingKeeps ==
  ASSUME ConnInv, PollWriting
  PROVE  Keeps
<1>1. /\ UNCHANGED <<stateVars, accepted, flushed, fin, broken, readerVars>>
      /\ UNCHANGED <<frames, send_queue, send_buffer>>
      /\ write_state = "Writing" /\ sender # "start_send"
  BY DEF PollWriting, stateVars, writeVars
<1>2. CASE WriteSome
  <2>1. /\ ~ broken
        /\ socket' = socket \o SubSeq(writing, 1, Written)
        /\ writing' = SubSeq(writing, Written + 1, Len(writing))
        /\ write_state' \in {"Idle", "Writing"} /\ write_fut' \in {"running", "written"}
        /\ write_state' = "Idle" => Written = Len(writing) /\ write_fut' = "running"
        /\ UNCHANGED <<sender, write_result>>
    BY <1>2 DEF WriteSome
  <2> HIDE DEF Written
  <2>2. QED
    BY <1>1, <2>1, WriteKeeps DEF MovedToSocket
<1>3. CASE WriteFails \/ PollDone
  <2>1. /\ UNCHANGED <<write_state, writing, socket>>
        /\ sender' \in {"app", "panicked"} /\ write_fut' = "done"
        /\ write_result' \in {"ok", "failed", "closed"}
    BY <1>3 DEF WriteFails, PollDone, ConnInv, TypeOK
  <2>2. TypeOK'
    <3>1. StateTypeOK'
      BY <1>1, StateTypeKept DEF ConnInv, TypeOK
    <3>2. TypeOK /\ ReaderTypeOK' /\ WriterTypeOK /\ NetworkTypeOK
      BY <1>1, TypeParts, ReaderTypeKept DEF ConnInv
    <3>3. WriterTypeOK' /\ NetworkTypeOK'
      BY <1>1, <2>1, <3>2 DEF WriterTypeOK, NetworkTypeOK
    <3>4. QED
      BY <3>1, <3>2, <3>3, TypePartsNext
  <2>3. AcceptedOK' /\ FlushOK'
    BY <1>1, <2>1, SenderMoves, FlushedMoves
  <2>4. WriterOK'
    <3>1. write_result' # "ok"
      BY <1>3 DEF WriteFails, PollDone, ConnInv, WriterOK
    <3>2. write_result' # "closed"
      BY <1>1, <1>3 DEF WriteFails, PollDone, ConnInv, WriterOK
    <3>3. ~ fin' \/ sender' = "dropped"
      BY <1>1, <1>3 DEF ConnInv, WriterOK, PollWriting
    <3>4. QED
      BY <1>1, <2>1, <3>1, <3>2, <3>3 DEF WriterOK
  <2>5. QED
    BY <1>1, <2>1, <2>2, <2>3, <2>4, WriterControlKeeps
<1>4. QED
  BY <1>2, <1>3 DEF PollWriting

\* poll_close of a connection that is closing.
LEMMA PollClosingKeeps ==
  ASSUME ConnInv, PollClosing
  PROVE  Keeps
<1>1. /\ UNCHANGED <<stateVars, write_state, writing, accepted, flushed, readerVars,
                     socket, broken>>
      /\ UNCHANGED <<frames, send_queue, send_buffer>>
      /\ sender # "start_send" /\ sender' \in {"app", "panicked"}
      /\ write_state = "Closing" /\ write_fut' = "done" /\ (fin' = TRUE \/ fin' = fin)
      /\ write_result' \in {"ok", "failed", "closed"} /\ write_result' # "ok"
  BY DEF PollClosing, stateVars, writeVars, ConnInv, TypeOK, WriterOK
<1>2. TypeOK'
  <2>1. StateTypeOK'
    BY <1>1, StateTypeKept DEF ConnInv, TypeOK
  <2>2. TypeOK /\ ReaderTypeOK' /\ WriterTypeOK /\ NetworkTypeOK
    BY <1>1, TypeParts, ReaderTypeKept DEF ConnInv
  <2>3. WriterTypeOK' /\ NetworkTypeOK'
    BY <1>1, <2>2 DEF WriterTypeOK, NetworkTypeOK
  <2>4. QED
    BY <2>1, <2>2, <2>3, TypePartsNext
<1>3. AcceptedOK' /\ FlushOK'
  BY <1>1, SenderMoves, FlushedMoves
<1>4. WriterOK'
  BY <1>1 DEF ConnInv, WriterOK
<1>5. QED
  BY <1>1, <1>2, <1>3, <1>4, WriterControlKeeps

\* A cancelled operation leaves everything where it is.
LEMMA CancelKeeps ==
  ASSUME ConnInv, Cancel
  PROVE  Keeps
<1>1. /\ UNCHANGED <<stateVars, write_state, write_fut, writing, accepted, flushed,
                     write_result, readerVars, socket, fin, broken>>
      /\ UNCHANGED <<frames, send_queue, send_buffer>>
      /\ sender \notin {"start_send", "dropped", "panicked"} /\ sender' = "app"
  BY DEF Cancel, stateVars, writeVars, networkVars
<1>2. TypeOK'
  <2>1. StateTypeOK'
    BY <1>1, StateTypeKept DEF ConnInv, TypeOK
  <2>2. TypeOK /\ ReaderTypeOK' /\ WriterTypeOK /\ NetworkTypeOK
    BY <1>1, TypeParts, ReaderTypeKept DEF ConnInv
  <2>3. WriterTypeOK' /\ NetworkTypeOK'
    BY <1>1, <2>2 DEF WriterTypeOK, NetworkTypeOK
  <2>4. QED
    BY <2>1, <2>2, <2>3, TypePartsNext
<1>3. AcceptedOK' /\ FlushOK'
  BY <1>1, SenderMoves, FlushedMoves
<1>4. WriterOK'
  BY <1>1 DEF ConnInv, WriterOK
<1>5. QED
  BY <1>1, <1>2, <1>3, <1>4, WriterControlKeeps

\* A chunk that is not taken changes nothing.
LEMMA RefusedStays ==
  ASSUME IInv, FeedBuffer, Fed(Len(buf)) # Len(buf)
  PROVE  UNCHANGED <<stateVars, buf, read_state>> /\ read_state' = "Idle"
<1>0. BufLen \in Nat \ {0} /\ Len(buf) \in Nat /\ buf \in Seq(Nat)
  BY ConfigAssumption, Lengths DEF BufLen, IInv, ConnInv, TypeOK
<1>1. Fed(Len(buf)) = 0 /\ UNCHANGED stateVars
  BY FeedRefused DEF FeedBuffer, IInv
<1>2. buf' = buf
  <2>1. /\ buf' \in Seq(Nat) /\ Len(buf') = Len(buf)
        /\ \A i \in 1 .. Len(buf) : buf'[i] = buf[i]
    BY <1>0, <1>1 DEF FeedBuffer
  <2>2. QED
    BY <1>0, <2>1, SeqEqual
<1>3. read_state = "Idle" /\ read_state' = "Idle"
  BY <1>0, <1>1 DEF FeedBuffer
<1>4. QED
  BY <1>1, <1>2, <1>3

\* A chunk that is not taken is kept.
LEMMA FeedBufferKeeps ==
  ASSUME IInv, FeedBuffer
  PROVE  IInv'
<1>0. BufLen \in Nat \ {0} /\ Len(buf) \in Nat /\ buf \in Seq(Nat)
  BY ConfigAssumption, Lengths DEF BufLen, IInv, ConnInv, TypeOK
<1>1. CASE Fed(Len(buf)) = Len(buf)
  <2>1. buf' = <<>>
    BY <1>0, <1>1 DEF FeedBuffer
  <2>2. QED
    BY <1>1, <2>1, FeedTakenKeeps DEF FeedBuffer, IInv
<1>2. CASE Fed(Len(buf)) # Len(buf)
  <2>1. UNCHANGED stateVars
    BY <1>2, RefusedStays
  <2>2. buf' = buf /\ read_state' = "Idle"
    BY <1>2, RefusedStays
  <2>3. /\ UNCHANGED <<writerVars, read_fut, delivered, ending, socket, fin, broken>>
        /\ UNCHANGED <<accepted, write_state>>
        /\ reader = "match" /\ reader' = "process" /\ read_state' = "Idle"
    BY <2>2 DEF FeedBuffer, networkVars, writerVars
  <2>4. TypeOK'
    <3>1. StateTypeOK'
      BY <2>1 DEF IInv, ConnInv, TypeOK, StateTypeOK, stateVars, writeVars, readVars
    <3>2. QED
      BY <2>2, <2>3, <3>1 DEF IInv, ConnInv, TypeOK, writerVars
  <2>5. ending # "end" /\ ending # "decode_error"
    BY <2>3 DEF IInv, ConnInv, ReaderOK, FailedAtFront
  <2>6. ReaderOK' /\ FailedAtFront'
    BY <2>3, <2>5 DEF IInv, ConnInv, ReaderOK, FailedAtFront
  <2>7. EndOK'
    BY <2>3, <2>5 DEF EndOK
  <2>8. Keeps
    BY <2>1, <2>2, <2>3, <2>4, <2>6, <2>7, ReaderControlKeeps DEF IInv
  <2>9. QED
    BY <2>8 DEF Keeps, IInv
<1>3. QED
  BY <1>1, <1>2

\* The end of the stream, or the error that replaces it.
LEMMA ReadEndKeeps ==
  ASSUME IInv, ReadEnd
  PROVE  IInv'
<1>1. /\ UNCHANGED <<stateVars, writerVars, buf, delivered, socket, fin, broken>>
      /\ UNCHANGED <<accepted, write_state, read_state, sender>>
      /\ reader = "match" /\ read_state = "Reading" /\ reader' = "app"
      /\ read_fut' = "done"
      /\ ending' \in {"io_error", "end"}
      /\ ending' = "end" => ~ broken /\ fin /\ socket = <<>>
  BY DEF ReadEnd, networkVars, writerVars
<1>2. TypeOK'
  <2>1. StateTypeOK'
    BY <1>1 DEF IInv, ConnInv, TypeOK, StateTypeOK, stateVars, writeVars, readVars
  <2>2. QED
    BY <1>1, <2>1 DEF IInv, ConnInv, TypeOK, writerVars
<1>3. ReaderOK' /\ FailedAtFront'
  BY <1>1 DEF IInv, ConnInv, ReaderOK, FailedAtFront
<1>4. EndOK'
  BY <1>1, EndSeen DEF IInv, EndOK
<1>5. Keeps
  BY <1>1, <1>2, <1>3, <1>4, ReaderControlKeeps DEF IInv
<1>6. QED
  BY <1>5 DEF Keeps, IInv

-----------------------------------------------------------------------------
(* The inductive invariant.                                                *)

\* The steps that are those of both adapters.
LEMMA SharedSteps ==
  ASSUME Next
  PROVE  \/ SharedStep \/ (\E m \in Message : StartSendStep(m)) \/ ProcessStep
         \/ PollWriting \/ PollClosing \/ Cancel \/ FeedBuffer \/ ReadEnd
<1>1. BufLen \in Nat
  BY ConfigAssumption DEF BufLen
<1>2. PollReading => \E max \in Nat : Read(max)
  BY <1>1 DEF PollReading
<1>3. \A m \in Message : StartSend(m) => StartSendStep(m)
  BY DEF StartSend, StartSendStep
<1>4. ProcessWrite => ProcessStep
  BY DEF ProcessWrite, ProcessStep
<1>5. QED
  BY <1>2, <1>3, <1>4 DEF Next, SenderStep, ReaderStep, SharedStep

\* Every step preserves the invariant.
LEMMA StepKeeps ==
  IInv /\ [Next]_vars => IInv'
<1> SUFFICES ASSUME IInv, [Next]_vars
             PROVE  IInv'
  OBVIOUS
<1>1. Keeps => IInv'
  BY DEF Keeps, IInv
<1>2. CASE SharedStep
  BY <1>1, <1>2, SharedKeeps DEF IInv
<1>3. CASE (\E m \in Message : StartSendStep(m)) \/ ProcessStep
  BY <1>1, <1>3, StartSendStepsKeep DEF IInv
<1>4. CASE PollWriting \/ PollClosing \/ Cancel
  BY <1>1, <1>4, PollWritingKeeps, PollClosingKeeps, CancelKeeps DEF IInv
<1>5. CASE FeedBuffer \/ ReadEnd
  BY <1>5, FeedBufferKeeps, ReadEndKeeps
<1>6. CASE UNCHANGED vars
  BY <1>1, <1>6, StutterKeeps DEF IInv
<1>7. QED
  BY <1>2, <1>3, <1>4, <1>5, <1>6, SharedSteps

\* The inductive invariant is one.
LEMMA InvariantHolds == SafeSpec => []IInv
<1>1. Init => IInv
  BY InitHolds DEF IInv
<1>2. QED
  BY <1>1, StepKeeps, PTL DEF SafeSpec

(***************************************************************************)
(* Type correctness, for every value of the constants.                     *)
(***************************************************************************)
THEOREM TypeCorrect == SafeSpec => []TypeOK
<1>1. IInv => TypeOK
  BY DEF IInv, ConnInv
<1>2. QED
  BY <1>1, InvariantHolds, PTL

(***************************************************************************)
(* Whatever the sending task cancels and however the bytes are cut, they   *)
(* are all there and in order until a reset.                               *)
(***************************************************************************)
THEOREM StreamHolds == SafeSpec => []StreamIntact
<1>1. IInv => StreamIntact
  BY StreamFollows DEF IInv
<1>2. QED
  BY <1>1, InvariantHolds, PTL

(***************************************************************************)
(* A feed that returns Ok has put its message on the stream, although      *)
(* start_send ignores what feed_item hands back.                           *)
(***************************************************************************)
THEOREM AcceptedHolds == SafeSpec => []AcceptedOnStream
<1>1. IInv => AcceptedOnStream
  BY SafetyFollows DEF IInv
<1>2. QED
  BY <1>1, InvariantHolds, PTL

(***************************************************************************)
(* A flush that returns Ok has handed everything fed before it to the      *)
(* kernel, also when flushes before it were cancelled half way.            *)
(***************************************************************************)
THEOREM FlushHolds == SafeSpec => []FlushIsComplete
<1>1. IInv => FlushIsComplete
  BY SafetyFollows DEF IInv
<1>2. QED
  BY <1>1, InvariantHolds, PTL

(***************************************************************************)
(* When the receiving task sees the end of the stream after a close that   *)
(* succeeded, nothing accepted is missing.                                 *)
(***************************************************************************)
THEOREM EndHolds == SafeSpec => []EndIsComplete
<1>1. IInv => EndIsComplete
  BY DEF IInv, EndOK, ConnInv, WriterOK, EndIsComplete
<1>2. QED
  BY <1>1, InvariantHolds, PTL

(***************************************************************************)
(* Only a frame longer than the receive buffer makes it refuse a chunk.    *)
(***************************************************************************)
THEOREM RefusalHolds == SafeSpec => []RefusesOnlyLongFrames
<1>1. IInv => RefusesOnlyLongFrames
  BY SafetyFollows DEF IInv
<1>2. QED
  BY <1>1, InvariantHolds, PTL

(***************************************************************************)
(* A receiving task that waits for bytes while none are on their way has   *)
(* returned everything a successful flush covered: with that, nothing that *)
(* was flushed can be waited for in vain.                                  *)
(***************************************************************************)
THEOREM SleepHolds == SafeSpec => []SleepMissesNothingFlushed
<1>1. IInv => SleepMissesNothingFlushed
  BY FlushedReturned DEF IInv, SleepMissesNothingFlushed
<1>2. QED
  BY <1>1, InvariantHolds, PTL

(***************************************************************************)
(* Only an error returned before, or a second close, makes a poll panic:   *)
(* no cancelled operation does.                                            *)
(***************************************************************************)
THEOREM PanicHolds == SafeSpec => []PanicsOnlyAfterEnd
<1>1. IInv => PanicsOnlyAfterEnd
  BY SafetyFollows DEF IInv
<1>2. QED
  BY <1>1, InvariantHolds, PTL

(***************************************************************************)
(* A decoding error is the last thing poll_next reports.                   *)
(***************************************************************************)
THEOREM ErrorIsFinal == SafeSpec => DecodeErrorIsFinal
<1>1. IInv /\ [Next]_vars => (ending = "decode_error" => UNCHANGED <<ending, delivered>>)
  <2> SUFFICES ASSUME IInv, [Next]_vars, ending = "decode_error"
               PROVE  UNCHANGED <<ending, delivered>>
    OBVIOUS
  <2>1. CASE SharedStep \/ (\E m \in Message : StartSendStep(m)) \/ ProcessStep
    BY <2>1, SharedFinal DEF IInv
  <2>2. CASE PollWriting \/ PollClosing \/ Cancel
    BY <2>2 DEF PollWriting, PollClosing, Cancel, readerVars
  <2>3. CASE FeedBuffer \/ ReadEnd
    BY <2>3 DEF FeedBuffer, ReadEnd, IInv, ConnInv, FailedAtFront
  <2>4. CASE UNCHANGED vars
    BY <2>4 DEF vars, readerVars
  <2>5. QED
    BY <2>1, <2>2, <2>3, <2>4, SharedSteps
<1>2. QED
  BY <1>1, InvariantHolds, PTL DEF SafeSpec, DecodeErrorIsFinal

(***************************************************************************)
(* The connection implements the safety of the message channel.            *)
(***************************************************************************)
THEOREM ImplementsTheChannel == SafeSpec => ImplementsChannel
<1>1. Init => Channel!Init
  BY DEF Init, StateInit, Channel!Init, Messages
<1>2. IInv /\ [Next]_vars => [Channel!Next]_(Channel!channelVars)
  <2> SUFFICES ASSUME IInv, [Next]_vars
               PROVE  Channel!Next \/ UNCHANGED <<Messages, delivered>>
    BY DEF Channel!channelVars
  <2>1. CASE SharedStep \/ (\E m \in Message : StartSendStep(m)) \/ ProcessStep
    BY <2>1, SharedRefines DEF IInv
  <2>2. CASE PollWriting \/ PollClosing \/ Cancel \/ FeedBuffer \/ ReadEnd
    <3>1. UNCHANGED <<frames, delivered>>
      BY <2>2 DEF PollWriting, PollClosing, Cancel, FeedBuffer, feed_bytes, ReadEnd,
         stateVars, writeVars, readerVars
    <3>2. QED
      BY <3>1, QuietStep
  <2>3. CASE UNCHANGED vars
    <3>1. UNCHANGED <<frames, delivered>>
      BY <2>3 DEF vars, stateVars, writeVars, readerVars
    <3>2. QED
      BY <3>1, QuietStep
  <2>4. QED
    BY <2>1, <2>2, <2>3, SharedSteps
<1>3. QED
  BY <1>1, <1>2, InvariantHolds, PTL DEF SafeSpec, ImplementsChannel, Channel!SafeSpec

-----------------------------------------------------------------------------
(* Every step advances.                                                    *)

\* A poll of a write_all writes, hands the writer back, or ends the operation.
LEMMA PollWritingAdvances ==
  ASSUME ConnInv, PollWriting
  PROVE  StepAdvances
<1>1. /\ UNCHANGED <<broken, send_queue, send_buffer>>
      /\ sender \in {"feed", "flush", "close"} /\ write_state = "Writing"
  BY DEF PollWriting, stateVars, writeVars
<1>2. CASE WriteFails \/ PollDone
  <2>1. sender' \in {"app", "panicked"}
    BY <1>2 DEF WriteFails, PollDone
  <2>2. QED
    BY <1>1, <2>1, OperationEnds
<1>3. CASE WriteSome
  <2>1. /\ UNCHANGED sender /\ Room > 0
        /\ writing' = SubSeq(writing, Written + 1, Len(writing))
        /\ Written = Len(writing) => write_state' = "Idle"
    BY <1>3 DEF WriteSome
  <2>2. CASE writing # <<>>
    BY <1>1, <2>1, <2>2, WriteAdvances
  <2>3. CASE writing = <<>>
    <3>1. Room \in Int /\ Len(writing) = 0
      BY <2>3, SocketAssumption DEF ConnInv, TypeOK, Room
    <3>2. Written = 0
      BY <2>1, <3>1 DEF Written
    <3>3. UNCHANGED writing /\ write_state' = "Idle"
      BY <2>1, <2>3, <3>1, <3>2
    <3>4. WriteStateRank = 2 /\ WriteStateRank' = 1
      BY <1>1, <3>3 DEF WriteStateRank
    <3>5. QED
      BY <1>1, <2>1, <3>3, <3>4, WriteLowers DEF StepAdvances
  <2>4. QED
    BY <2>2, <2>3
<1>4. QED
  BY <1>2, <1>3 DEF PollWriting

\* A poll of a connection that is closing ends the operation, and so does
\* giving it up.
LEMMA ClosingAdvances ==
  ASSUME PollClosing \/ Cancel
  PROVE  StepAdvances
<1>1. /\ UNCHANGED broken
      /\ sender \in {"feed", "flush", "close"} /\ sender' \in {"app", "panicked"}
  BY DEF PollClosing, Cancel, networkVars
<1>2. QED
  BY <1>1, OperationEnds

\* A chunk is taken, or refused behind the beginning of a long frame.
LEMMA FeedBufferAdvances ==
  ASSUME IInv, FeedBuffer
  PROVE  StepAdvances
<1>1. CASE Fed(Len(buf)) = Len(buf)
  <2>1. Len(buf) \in Nat /\ Len(buf) # 0 /\ buf \in Seq(Nat)
    BY Lengths DEF IInv, ConnInv, TypeOK, FeedBuffer
  <2>2. buf' = <<>>
    BY <1>1, <2>1 DEF FeedBuffer
  <2>3. Len(buf') < Len(buf)
    BY <2>1, <2>2
  <2>4. SenderUnmoved /\ UNCHANGED <<ending, read_fut, socket>>
    BY DEF FeedBuffer, feed_bytes, SenderUnmoved, writerVars, networkVars, writeVars
  <2>5. QED
    BY <2>3, <2>4, PollLowers DEF StepAdvances
<1>2. CASE Fed(Len(buf)) # Len(buf)
  <2>1. reader = "match" /\ reader' = "process" /\ UNCHANGED <<buf, read_state>>
    BY <1>2, RefusedStays DEF FeedBuffer
  <2>2. Blocked
    <3>1. Len(buf) \in Nat
      BY Lengths DEF IInv, ConnInv, TypeOK
    <3>2. QED
      BY <1>2, <2>1, <3>1, RefusedBlocks DEF IInv
  <2>3. LongFrameAtFront
    BY <2>2, BlockedByLongFrame DEF IInv
  <2>4. QED
    BY <2>1, <2>3 DEF StepAdvances, MeetsLongFrame
<1>3. QED
  BY <1>1, <1>2

\* A read that ends the stream.
LEMMA ReadEndAdvances ==
  ASSUME IInv, ReadEnd
  PROVE  StepAdvances
<1>1. /\ SenderUnmoved
      /\ ending' \in {"io_error", "end"} /\ read_fut # "done" /\ read_fut' = "done"
  BY DEF ReadEnd, SenderUnmoved, stateVars, writeVars, writerVars, networkVars
<1>2. ending # "end"
  BY DEF ReadEnd, IInv, ConnInv, ReaderOK
<1>3. Advance
  BY <1>1, <1>2, ReadLowers
<1>4. QED
  BY <1>3 DEF StepAdvances

(***************************************************************************)
(* No step but the beginning of an operation can be repeated for ever: but *)
(* for a turn of poll_next that meets the undecodable message again, or is *)
(* refused the chunk again, every step lowers what is left to happen.      *)
(***************************************************************************)
THEOREM EveryStepAdvances == SafeSpec => StepsAdvance
<1>1. IInv /\ [Next]_vars => StepAdvances \/ UNCHANGED vars
  <2> SUFFICES ASSUME IInv, Next
               PROVE  StepAdvances
    OBVIOUS
  <2>1. CASE SharedStep
    BY <2>1, SharedAdvances DEF IInv
  <2>2. CASE (\E m \in Message : StartSendStep(m)) \/ ProcessStep
    BY <2>2, StartSendAdvances DEF IInv, StepAdvances
  <2>3. CASE PollWriting \/ PollClosing \/ Cancel
    BY <2>3, PollWritingAdvances, ClosingAdvances DEF IInv
  <2>4. CASE FeedBuffer \/ ReadEnd
    BY <2>4, FeedBufferAdvances, ReadEndAdvances
  <2>5. QED
    BY <2>1, <2>2, <2>3, <2>4, SharedSteps
<1>2. QED
  BY <1>1, InvariantHolds, PTL DEF SafeSpec, StepsAdvance

\* Only a reset makes a read fail.
LEMMA FailsByResetKept ==
  ASSUME FailsByReset, [Next]_vars
  PROVE  FailsByReset'
<1>1. CASE SharedStep \/ (\E m \in Message : StartSendStep(m)) \/ ProcessStep
  BY <1>1, SharedFailsByReset
<1>2. CASE ReadEnd
  BY <1>2 DEF ReadEnd, FailsByReset, networkVars
<1>3. CASE PollWriting \/ PollClosing \/ Cancel \/ FeedBuffer \/ UNCHANGED vars
  <2>1. UNCHANGED <<ending, broken>>
    BY <1>3 DEF PollWriting, PollClosing, Cancel, FeedBuffer, vars, readerVars, networkVars
  <2>2. QED
    BY <2>1 DEF FailsByReset
<1>4. QED
  BY <1>1, <1>2, <1>3, SharedSteps

(***************************************************************************)
(* A pending write waits for a receiving task that is there and has bytes  *)
(* to read.                                                                *)
(***************************************************************************)
THEOREM WritersHaveReaders == SafeSpec => []PendingWriteHasReader
<1>1. Init => FailsByReset
  BY DEF Init, FailsByReset
<1>2. FailsByReset /\ [Next]_vars => FailsByReset'
  BY FailsByResetKept
<1>3. IInv /\ FailsByReset => PendingWriteHasReader
  BY WaitsForReader DEF IInv
<1>4. QED
  BY <1>1, <1>2, <1>3, InvariantHolds, PTL DEF SafeSpec

=============================================================================
