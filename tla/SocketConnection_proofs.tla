----------------------- MODULE SocketConnection_proofs -----------------------
(***************************************************************************)
(* What the proofs about the two adapters share: the parts of their        *)
(* inductive invariants, and that the steps the adapters have in common    *)
(* preserve them.                                                          *)
(***************************************************************************)
EXTENDS SocketConnection, ConnectionState_proofs

-----------------------------------------------------------------------------
(* The invariants.                                                         *)

\* What was returned and what waits to be is what was encoded, in order, and
\* decodable.
InOrder ==
  /\ Decoded <= Len(frames)
  /\ \A i \in 1 .. Len(delivered) : delivered[i] = frames[i].msg
  /\ \A i \in 1 .. Len(recv_queue) : recv_queue[i] = frames[Len(delivered) + i].msg
  /\ \A i \in 1 .. Decoded : frames[i].msg \notin Undecodable

\* The receive buffer begins at a frame, without a gap.
ReceiverBytes ==
  /\ IsRun(recv_buffer, DecodedBytes)
  /\ DecodedBytes + Len(recv_buffer) <= StreamLen

\* The send queue is empty but between start_send's feed_item and its process.
AcceptedOK ==
  IF sender = "start_send"
  THEN \/ accepted = Messages /\ send_queue = <<>>
       \/ \E m \in Message : accepted = Append(Messages, m) /\ send_queue = <<m>>
  ELSE accepted = Messages /\ send_queue = <<>>

\* What the variants of WriteState mean for what is left to write.
WriterOK ==
  /\ sender = "start_send" => write_state = "Idle"
  /\ write_state = "Idle" => writing = <<>> /\ write_fut = "running"
  /\ write_state = "Closing" => writing = <<>> /\ send_buffer = <<>>
  /\ write_fut = "done" \/ sender = "panicked" => write_result # "ok"
  /\ write_result = "closed" => write_state = "Closing"
  /\ fin => sender = "dropped" \/ write_state = "Closing"

FlushOK == flushed <= Len(frames) /\ FlushIsComplete

\* The receive buffer does not hold the whole of the next frame.
NoFrame ==
  Decoded < Len(frames) => Len(recv_buffer) < FrameLen(frames[Decoded + 1].msg)

\* How far a poll of poll_next has come, and what poll_next last ended with.
ReaderOK ==
  /\ reader = "item" => RecvQueueFull \/ NoFrame
  /\ reader = "match" => recv_queue = <<>> /\ NoFrame
  /\ read_state = "Reading" => buf = <<>>
  /\ read_fut = "done" => ending # "open"
  /\ reader = "panicked" => ending = "io_error"
  /\ ending = "end" => reader = "app" /\ fin

\* After a decoding error the undecodable frame stays at the front.
FailedAtFront ==
  ending = "decode_error" =>
    /\ reader \in {"app", "process"}
    /\ ~ RecvQueueFull
    /\ Decoded < Len(frames)
    /\ FrameLen(frames[Decoded + 1].msg) <= Len(recv_buffer)
    /\ frames[Decoded + 1].msg \in Undecodable

(***************************************************************************)
(* What holds of both adapters.                                            *)
(***************************************************************************)
ConnInv ==
  /\ TypeOK /\ FramesContiguous /\ FramesOrdered /\ InOrder /\ ReceiverBytes
  /\ AcceptedOK /\ WriterOK /\ FlushOK /\ ReaderOK /\ FailedAtFront

(***************************************************************************)
(* The bytes behind the receive buffer, up to where a reset lost them.     *)
(***************************************************************************)
BufEnd    == DecodedBytes + Len(recv_buffer) + Len(buf)
SocketEnd == BufEnd + Len(socket)
WriteEnd  == SocketEnd + Len(writing)

Intact ==
  /\ IsRun(buf, DecodedBytes + Len(recv_buffer))
  /\ BufEnd <= StreamLen
  /\ ~ broken =>
       /\ IsRun(socket, BufEnd) /\ IsRun(writing, SocketEnd)
       /\ IsRun(send_buffer, WriteEnd)
       /\ WriteEnd + Len(send_buffer) = StreamLen

(***************************************************************************)
(* The receive buffer is full with the beginning of a frame that does not  *)
(* fit: nothing is fed or decoded any more.                                *)
(***************************************************************************)
Blocked ==
  /\ Decoded < Len(frames)
  /\ RecvBufferSize <= Len(recv_buffer)
  /\ Len(recv_buffer) < FrameLen(frames[Decoded + 1].msg)

\* Everything that was accepted has been returned when the end is seen.
EndOK == ending = "end" /\ write_state = "Closing" => delivered = accepted

-----------------------------------------------------------------------------
(* Facts about a state.                                                    *)

\* The counts of decoded messages and bytes are naturals.
LEMMA DecodedType ==
  ASSUME TypeOK, Decoded <= Len(frames)
  PROVE  /\ StateTypeOK
         /\ Decoded \in 0 .. Len(frames) /\ Decoded \in Nat /\ Len(frames) \in Nat
         /\ DecodedBytes = Boundary(Decoded)
         /\ DecodedBytes \in Nat /\ StreamLen \in Nat
<1>1. StateTypeOK
  BY DEF TypeOK
<1>2. /\ Decoded \in 0 .. Len(frames) /\ Decoded \in Nat /\ Len(frames) \in Nat
      /\ DecodedBytes = Boundary(Decoded)
  BY DEF TypeOK, StateTypeOK, Decoded, DecodedBytes, Boundary
<1> HIDE DEF Decoded
<1>3. QED
  BY <1>1, <1>2, BoundaryType, StreamLenType

\* The lengths of the buffers.
LEMMA Lengths ==
  ASSUME TypeOK
  PROVE  /\ Len(recv_buffer) \in Nat /\ Len(buf) \in Nat /\ Len(socket) \in Nat
         /\ Len(writing) \in Nat /\ Len(send_buffer) \in Nat
         /\ Len(recv_queue) \in Nat /\ Len(delivered) \in Nat /\ Len(accepted) \in Nat
BY DEF TypeOK, StateTypeOK

(***************************************************************************)
(* TypeOK by owner: a step of one task leaves the types of the other's     *)
(* variables, and those of the protocol state, as they are.                *)
(***************************************************************************)
WriterTypeOK ==
  /\ sender \in {"app", "feed", "start_send", "flush", "close", "panicked", "dropped"}
  /\ write_state \in {"Idle", "Writing", "Closing"}
  /\ write_fut \in {"running", "written", "done"}
  /\ writing \in Seq(Nat)
  /\ accepted \in Seq(Message)
  /\ flushed \in Nat
  /\ write_result \in {"ok", "failed", "closed"}

ReaderTypeOK ==
  /\ reader \in {"app", "process", "item", "match", "panicked"}
  /\ read_state \in {"Idle", "Reading"}
  /\ read_fut \in {"running", "done"}
  /\ buf \in Seq(Nat)
  /\ delivered \in Seq(Message)
  /\ ending \in {"open", "end", "decode_error", "io_error"}

NetworkTypeOK ==
  /\ socket \in Seq(Nat)
  /\ Len(socket) <= SocketCapacity
  /\ fin \in BOOLEAN
  /\ broken \in BOOLEAN

\* The parts make up the whole.
LEMMA TypeParts ==
  TypeOK <=> StateTypeOK /\ WriterTypeOK /\ ReaderTypeOK /\ NetworkTypeOK
BY Zenon DEF TypeOK, WriterTypeOK, ReaderTypeOK, NetworkTypeOK

\* In the next state, too.
LEMMA TypePartsNext ==
  StateTypeOK' /\ WriterTypeOK' /\ ReaderTypeOK' /\ NetworkTypeOK' => TypeOK'
BY Zenon DEF TypeOK, WriterTypeOK, ReaderTypeOK, NetworkTypeOK

\* A step of the sending task keeps the types of the receiving one.
LEMMA ReaderTypeKept ==
  ASSUME TypeOK, UNCHANGED readerVars
  PROVE  ReaderTypeOK'
<1>1. ReaderTypeOK
  BY TypeParts
<1>2. QED
  BY <1>1 DEF ReaderTypeOK, readerVars

\* A step of the receiving task keeps the types of the sending one.
LEMMA WriterTypeKept ==
  ASSUME TypeOK, UNCHANGED writerVars
  PROVE  WriterTypeOK'
<1>1. WriterTypeOK
  BY TypeParts
<1>2. QED
  BY <1>1 DEF WriterTypeOK, writerVars

\* The next frame ends within the stream.
LEMMA NextFrameEnd ==
  ASSUME ConnInv, Decoded < Len(frames)
  PROVE  /\ Decoded + 1 \in 1 .. Len(frames)
         /\ frames[Decoded + 1].start = DecodedBytes
         /\ FrameLen(frames[Decoded + 1].msg) \in Nat \ {0}
         /\ DecodedBytes + FrameLen(frames[Decoded + 1].msg) <= StreamLen
<1>1. /\ TypeOK /\ StateTypeOK /\ FramesContiguous /\ FramesOrdered
      /\ Decoded \in 0 .. Len(frames) /\ Decoded \in Nat /\ Len(frames) \in Nat
      /\ DecodedBytes = Boundary(Decoded)
  BY DecodedType DEF ConnInv, InOrder
<1> HIDE DEF Decoded
<1>2. Decoded \in 0 .. Len(frames) - 1 /\ Decoded + 1 \in 1 .. Len(frames)
  BY <1>1
<1>3. frames[Decoded + 1].start = DecodedBytes
  BY <1>1, <1>2, NextStart
<1>4. QED
  BY <1>1, <1>2, <1>3, FrameFacts, FramesInStream

\* When everything is decoded the stream ends at the last frame decoded.
LEMMA AllDecoded ==
  ASSUME TypeOK, Decoded = Len(frames)
  PROVE  DecodedBytes = StreamLen
BY DEF TypeOK, StateTypeOK, DecodedBytes, StreamLen

\* A buffer that is not empty holds the beginning of a frame.
LEMMA BufferedFrame ==
  ASSUME ConnInv, recv_buffer # <<>>
  PROVE  /\ Decoded < Len(frames)
         /\ recv_buffer[1] = frames[Decoded + 1].start + 1
<1>1. /\ TypeOK /\ Len(recv_buffer) \in Nat \ {0} /\ ReceiverBytes
      /\ Decoded \in Nat /\ Len(frames) \in Nat /\ Decoded <= Len(frames)
      /\ DecodedBytes \in Nat /\ StreamLen \in Nat
  BY DecodedType DEF ConnInv, TypeOK, StateTypeOK, InOrder
<1>2. Decoded < Len(frames)
  BY <1>1, AllDecoded DEF ReceiverBytes
<1>3. recv_buffer[1] = DecodedBytes + 1
  BY <1>1 DEF ReceiverBytes, IsRun
<1>4. QED
  BY <1>2, <1>3, NextFrameEnd

\* A chunk refused while poll_next waits for bytes blocks the receiver.
LEMMA RefusedBlocks ==
  ASSUME ConnInv, reader = "match", NEW n \in Nat, Fed(n) # n
  PROVE  Blocked
<1>1. RecvBufferSize <= Len(recv_buffer) /\ recv_buffer # <<>>
  BY FedFacts, ConfigAssumption DEF ConnInv, TypeOK, StateTypeOK
<1>2. Decoded < Len(frames)
  BY <1>1, BufferedFrame
<1>3. QED
  BY <1>1, <1>2 DEF Blocked, ConnInv, ReaderOK, NoFrame

\* A blocked receiver has a frame longer than the buffer at the front.
LEMMA BlockedByLongFrame ==
  ASSUME ConnInv, Blocked
  PROVE  LongFrameAtFront
<1>1. recv_buffer # <<>> /\ Len(recv_buffer) \in Nat
  BY ConfigAssumption DEF ConnInv, TypeOK, StateTypeOK, Blocked
<1>2. /\ recv_buffer[1] = frames[Decoded + 1].start + 1
      /\ Decoded + 1 \in 1 .. Len(frames)
      /\ FrameLen(frames[Decoded + 1].msg) \in Nat
  BY <1>1, BufferedFrame, NextFrameEnd DEF Blocked
<1>3. Decoded + 1 \in DOMAIN frames
  BY <1>2 DEF ConnInv, TypeOK, StateTypeOK
<1>4. FrameLen(frames[Decoded + 1].msg) > RecvBufferSize
  BY <1>1, <1>2, ConfigAssumption DEF Blocked
<1>5. QED
  BY <1>1, <1>2, <1>3, <1>4 DEF LongFrameAtFront

\* With every byte received and no complete frame left, everything accepted
\* was returned.
LEMMA EverythingReturned ==
  ASSUME ConnInv, recv_queue = <<>>, NoFrame, sender # "start_send",
         DecodedBytes + Len(recv_buffer) = StreamLen
  PROVE  delivered = accepted
<1>1. /\ TypeOK /\ StateTypeOK /\ Decoded \in Nat /\ Len(frames) \in Nat
      /\ Decoded <= Len(frames) /\ DecodedBytes \in Nat /\ StreamLen \in Nat
      /\ Len(recv_buffer) \in Nat
  BY DecodedType DEF ConnInv, InOrder, StateTypeOK
<1>2. Decoded = Len(frames)
  BY <1>1, NextFrameEnd DEF NoFrame
<1>3. /\ delivered \in Seq(Message) /\ Len(delivered) = Len(frames)
      /\ \A i \in 1 .. Len(frames) : delivered[i] = frames[i].msg
  BY <1>1, <1>2 DEF TypeOK, Decoded, ConnInv, InOrder
<1>4. accepted = FrameMessages
  BY DEF ConnInv, AcceptedOK, Messages, FrameMessages
<1>5. /\ accepted \in Seq(Message) /\ Len(accepted) = Len(frames)
      /\ \A i \in 1 .. Len(frames) : accepted[i] = frames[i].msg
  BY <1>1, <1>4, FrameMessagesType
<1>6. QED
  BY <1>3, <1>5, SeqEqual

-----------------------------------------------------------------------------
(* What is left alone keeps its part of the invariant.                     *)

\* What a step has to preserve; Intact may give way to Blocked.
Keeps ==
  /\ ConnInv'
  /\ Intact => Intact'
  /\ Blocked => Blocked'
  /\ EndOK => EndOK'

\* A step that leaves the history and the receiving side alone.
LEMMA ReaderUnmoved ==
  ASSUME ConnInv, UNCHANGED <<frames, readVars, readerVars>>, fin => fin'
  PROVE  /\ FramesContiguous' /\ FramesOrdered' /\ InOrder' /\ ReceiverBytes'
         /\ ReaderOK' /\ FailedAtFront'
         /\ Decoded' = Decoded /\ DecodedBytes' = DecodedBytes /\ StreamLen' = StreamLen
         /\ Messages' = Messages
         /\ Blocked => Blocked'
<1>1. /\ frames' = frames /\ recv_buffer' = recv_buffer /\ recv_queue' = recv_queue
      /\ delivered' = delivered /\ reader' = reader /\ read_state' = read_state
      /\ read_fut' = read_fut /\ buf' = buf /\ ending' = ending
  BY DEF readVars, readerVars
<1>2. Decoded' = Decoded
  BY <1>1 DEF Decoded
<1>3. DecodedBytes' = DecodedBytes /\ StreamLen' = StreamLen /\ Messages' = Messages
  BY <1>1, <1>2 DEF DecodedBytes, StreamLen, End, Messages
<1>4. FramesContiguous' /\ FramesOrdered'
  BY <1>1 DEF ConnInv, FramesContiguous, FramesOrdered, End
<1>5. InOrder'
  BY <1>1, <1>2 DEF ConnInv, InOrder
<1>6. ReceiverBytes'
  BY <1>1, <1>3 DEF ConnInv, ReceiverBytes, IsRun
<1>7. ReaderOK' /\ FailedAtFront'
  BY <1>1, <1>2 DEF ConnInv, ReaderOK, FailedAtFront, NoFrame, RecvQueueFull
<1>8. Blocked => Blocked'
  BY <1>1, <1>2 DEF Blocked
<1>9. QED
  BY <1>2, <1>3, <1>4, <1>5, <1>6, <1>7, <1>8

\* A step that leaves the sending side alone.
LEMMA WriterUnmoved ==
  ASSUME ConnInv, UNCHANGED <<writeVars, writerVars>>, fin' = fin
  PROVE  /\ AcceptedOK' /\ WriterOK' /\ FlushOK' /\ FramesContiguous' /\ FramesOrdered'
         /\ StreamLen' = StreamLen /\ Messages' = Messages
<1>1. /\ frames' = frames /\ send_queue' = send_queue /\ send_buffer' = send_buffer
      /\ sender' = sender /\ write_state' = write_state /\ write_fut' = write_fut
      /\ writing' = writing /\ accepted' = accepted /\ flushed' = flushed
      /\ write_result' = write_result
  BY DEF writeVars, writerVars
<1>2. StreamLen' = StreamLen /\ Messages' = Messages
  BY <1>1 DEF StreamLen, End, Messages
<1>3. AcceptedOK'
  BY <1>1, <1>2 DEF ConnInv, AcceptedOK
<1>4. WriterOK'
  BY <1>1 DEF ConnInv, WriterOK
<1>5. FlushOK'
  BY <1>1, <1>2 DEF ConnInv, FlushOK, FlushIsComplete, End
<1>6. FramesContiguous' /\ FramesOrdered'
  BY <1>1 DEF ConnInv, FramesContiguous, FramesOrdered, End
<1>7. QED
  BY <1>2, <1>3, <1>4, <1>5, <1>6

\* A step that moves no byte.
LEMMA BytesUnmoved ==
  ASSUME Intact, UNCHANGED <<recv_buffer, buf, socket, writing, send_buffer, broken>>,
         DecodedBytes' = DecodedBytes, StreamLen' = StreamLen
  PROVE  Intact'
<1>1. BufEnd' = BufEnd /\ SocketEnd' = SocketEnd /\ WriteEnd' = WriteEnd
  BY DEF BufEnd, SocketEnd, WriteEnd
<1>2. QED
  BY <1>1 DEF Intact, IsRun

\* After the end nothing is delivered or accepted, and no close begins.
LEMMA EndUnmoved ==
  ASSUME EndOK, UNCHANGED <<ending, delivered>>,
         ending = "end" => /\ accepted' = accepted
                           /\ write_state' = "Closing" => write_state = "Closing"
  PROVE  EndOK'
BY DEF EndOK

\* A step of the sending task that moves no byte.
LEMMA WriterControlKeeps ==
  ASSUME ConnInv, TypeOK', AcceptedOK', WriterOK', FlushOK',
         UNCHANGED <<stateVars, readerVars, writing, accepted, socket, broken>>,
         fin => fin',
         ending = "end" /\ write_state' = "Closing" => write_state = "Closing"
  PROVE  Keeps
<1>1. /\ UNCHANGED <<frames, readVars, readerVars>>
      /\ UNCHANGED <<recv_buffer, buf, socket, writing, send_buffer, broken>>
      /\ UNCHANGED <<ending, delivered, accepted>>
  BY DEF stateVars, writeVars, readVars, readerVars
<1>2. /\ FramesContiguous' /\ FramesOrdered' /\ InOrder' /\ ReceiverBytes'
      /\ ReaderOK' /\ FailedAtFront'
      /\ DecodedBytes' = DecodedBytes /\ StreamLen' = StreamLen
      /\ Blocked => Blocked'
  BY <1>1, ReaderUnmoved
<1>3. ConnInv'
  BY <1>2 DEF ConnInv
<1>4. Intact => Intact'
  BY <1>1, <1>2, BytesUnmoved
<1>5. EndOK => EndOK'
  BY <1>1, EndUnmoved
<1>6. QED
  BY <1>2, <1>3, <1>4, <1>5 DEF Keeps

-----------------------------------------------------------------------------
(* The steps of the sending task the adapters share.                       *)

\* In the middle of no start_send, sender may change to another operation.
LEMMA SenderMoves ==
  ASSUME ConnInv, sender # "start_send", sender' # "start_send",
         UNCHANGED <<frames, send_queue, accepted>>
  PROVE  AcceptedOK'
<1>1. Messages' = Messages
  BY DEF Messages
<1>2. QED
  BY <1>1 DEF ConnInv, AcceptedOK

\* Flushes that are not counted change nothing about those that were.
LEMMA FlushedMoves ==
  ASSUME ConnInv, UNCHANGED <<frames, flushed, writing, send_buffer>>
  PROVE  FlushOK'
<1>1. StreamLen' = StreamLen
  BY DEF StreamLen, End
<1>2. QED
  BY <1>1 DEF ConnInv, FlushOK, FlushIsComplete, End

\* The sending task begins an operation.
LEMMA BeginOpKeeps ==
  ASSUME ConnInv, NEW op \in {"feed", "flush", "close"}, BeginOp(op)
  PROVE  Keeps
<1>1. TypeOK'
  BY DEF ConnInv, TypeOK, BeginOp, StateTypeOK, stateVars, writeVars, readVars,
         readerVars, networkVars
<1>2. sender # "start_send" /\ sender' # "start_send"
  BY DEF BeginOp
<1>3. UNCHANGED <<frames, send_queue, send_buffer, accepted, flushed, writing>>
  BY DEF BeginOp, stateVars, writeVars
<1>4. WriterOK'
  BY DEF ConnInv, WriterOK, BeginOp, stateVars, writeVars, networkVars
<1>5. QED
  BY <1>1, <1>2, <1>3, <1>4, SenderMoves, FlushedMoves, WriterControlKeeps
     DEF BeginOp, networkVars

\* A flush that found nothing to write, or a connection that is closing.
LEMMA FlushKeeps ==
  ASSUME ConnInv, FlushReady \/ FlushReset
  PROVE  Keeps
<1>1. TypeOK'
  BY SMTT(30) DEF ConnInv, TypeOK, FlushReady, FlushReset, StateTypeOK, stateVars, writeVars,
         readVars, readerVars, networkVars
<1>2. /\ sender # "start_send" /\ sender' # "start_send"
      /\ UNCHANGED <<frames, send_queue, send_buffer, accepted, writing>>
  BY DEF FlushReady, FlushReset, stateVars, writeVars
<1>3. WriterOK'
  BY DEF ConnInv, WriterOK, FlushReady, FlushReset, stateVars, writeVars, networkVars
<1>4. FlushOK'
  <2>1. CASE FlushReady
    <3>1. /\ writing = <<>> /\ send_buffer = <<>> /\ flushed' = Len(frames)
          /\ frames \in Seq(Frame) /\ Len(frames) \in Nat
      BY <2>1 DEF FlushReady, WriterIdle, ConnInv, WriterOK, TypeOK, StateTypeOK
    <3>2. Len(frames) > 0 => StreamLen = End(frames[Len(frames)])
      BY <3>1 DEF StreamLen
    <3>3. Len(frames) > 0 => End(frames[Len(frames)]) \in Nat
      BY <3>1, FrameFacts DEF ConnInv, TypeOK
    <3>4. StreamLen' = StreamLen
      BY <1>2 DEF StreamLen, End
    <3>5. Len(writing') + Len(send_buffer') = 0
      BY <1>2, <3>1
    <3>6. QED
      BY <1>2, <3>1, <3>2, <3>3, <3>4, <3>5 DEF FlushOK, FlushIsComplete, End
  <2>2. CASE FlushReset
    BY <1>2, <2>2, FlushedMoves DEF FlushReset
  <2>3. QED
    BY <2>1, <2>2
<1>5. QED
  BY <1>1, <1>2, <1>3, <1>4, SenderMoves, WriterControlKeeps
     DEF FlushReady, FlushReset, networkVars

\* A close that has written everything shuts the writer down.
LEMMA StartClosingKeeps ==
  ASSUME ConnInv, StartClosing
  PROVE  Keeps
<1>1. TypeOK'
  BY DEF ConnInv, TypeOK, StartClosing, StateTypeOK, stateVars, writeVars,
         readVars, readerVars, networkVars
<1>2. /\ sender # "start_send" /\ sender' # "start_send"
      /\ UNCHANGED <<frames, send_queue, send_buffer, accepted, writing, flushed>>
  BY DEF StartClosing, stateVars, writeVars
<1>3. WriterOK'
  BY DEF ConnInv, WriterOK, StartClosing, WriterIdle, stateVars, writeVars, networkVars
<1>4. ending # "end"
  BY DEF ConnInv, WriterOK, ReaderOK, StartClosing, WriterIdle
<1>5. QED
  BY <1>1, <1>2, <1>3, <1>4, SenderMoves, FlushedMoves, WriterControlKeeps
     DEF StartClosing, networkVars

\* Dropping the connection.
LEMMA DropKeeps ==
  ASSUME ConnInv, DropConnection
  PROVE  Keeps
<1>1. TypeOK'
  BY DEF ConnInv, TypeOK, DropConnection, StateTypeOK, stateVars, writeVars,
         readVars, readerVars, networkVars
<1>2. /\ sender # "start_send" /\ sender' # "start_send"
      /\ UNCHANGED <<frames, send_queue, send_buffer, accepted, writing, flushed>>
  BY DEF DropConnection, stateVars, writeVars
<1>3. WriterOK'
  BY DEF ConnInv, WriterOK, DropConnection, stateVars, writeVars, networkVars
<1>4. QED
  BY <1>1, <1>2, <1>3, SenderMoves, FlushedMoves, WriterControlKeeps
     DEF DropConnection

\* A reset loses what was in the kernel; the receiver keeps what it has read.
LEMMA BreakKeeps ==
  ASSUME ConnInv, BreakConnection
  PROVE  Keeps
<1>1. TypeOK'
  BY SocketAssumption
     DEF ConnInv, TypeOK, BreakConnection, StateTypeOK, stateVars, writeVars, readVars,
         readerVars, writerVars
<1>2. /\ UNCHANGED <<frames, readVars, readerVars, writeVars, writerVars, fin>>
      /\ UNCHANGED <<recv_buffer, buf, delivered, ending, accepted, write_state>>
  BY DEF BreakConnection, stateVars, writeVars, readVars, readerVars, writerVars
<1>3. /\ InOrder' /\ ReceiverBytes' /\ ReaderOK' /\ FailedAtFront'
      /\ DecodedBytes' = DecodedBytes /\ StreamLen' = StreamLen
      /\ Blocked => Blocked'
  BY <1>2, ReaderUnmoved
<1>4. AcceptedOK' /\ WriterOK' /\ FlushOK' /\ FramesContiguous' /\ FramesOrdered'
  BY <1>2, WriterUnmoved
<1>5. ConnInv'
  BY <1>1, <1>3, <1>4 DEF ConnInv
<1>6. Intact => Intact'
  BY <1>2, <1>3 DEF Intact, IsRun, BufEnd, BreakConnection
<1>7. EndOK => EndOK'
  BY <1>2, EndUnmoved
<1>8. QED
  BY <1>3, <1>5, <1>6, <1>7 DEF Keeps

\* A flush or a close begins to write what was encoded.
LEMMA TakeBatchKeeps ==
  ASSUME ConnInv, TakeBatch
  PROVE  Keeps
<1>1. /\ UNCHANGED <<frames, readVars, readerVars, send_queue, accepted, fin, flushed>>
      /\ UNCHANGED <<recv_buffer, buf, socket, broken, delivered, ending, sender>>
      /\ sender # "start_send" /\ writing = <<>> /\ write_state = "Idle"
      /\ writing' = send_buffer /\ send_buffer' = <<>> /\ write_state' = "Writing"
  BY DEF TakeBatch, WriterIdle, consume_all, stateVars, writeVars, readVars, readerVars,
         writerVars, networkVars, ConnInv, WriterOK
<1>2. TypeOK'
  BY <1>1 DEF ConnInv, TypeOK, TakeBatch, consume_all, StateTypeOK, readVars, readerVars
<1>3. /\ InOrder' /\ ReceiverBytes' /\ ReaderOK' /\ FailedAtFront'
      /\ FramesContiguous' /\ FramesOrdered'
      /\ DecodedBytes' = DecodedBytes /\ StreamLen' = StreamLen
      /\ Blocked => Blocked'
  BY <1>1, ReaderUnmoved
<1>4. AcceptedOK'
  BY <1>1, SenderMoves
<1>5. WriterOK'
  BY <1>1 DEF ConnInv, WriterOK, TakeBatch, WriterIdle
<1>6. FlushOK'
  <2>1. Len(writing') + Len(send_buffer') = Len(writing) + Len(send_buffer)
    BY <1>1, Lengths DEF ConnInv
  <2>2. QED
    BY <1>1, <1>3, <2>1 DEF ConnInv, FlushOK, FlushIsComplete, End
<1>7. ConnInv'
  BY <1>2, <1>3, <1>4, <1>5, <1>6 DEF ConnInv
<1>8. ASSUME Intact
      PROVE  Intact'
  <2>1. BufEnd' = BufEnd /\ SocketEnd' = SocketEnd
    BY <1>1, <1>3 DEF BufEnd, SocketEnd
  <2>2. /\ TypeOK /\ Len(writing) = 0 /\ Len(send_buffer') = 0
        /\ Len(send_buffer) \in Nat /\ SocketEnd \in Nat
    BY <1>1, DecodedType, Lengths, SMTT(30) DEF ConnInv, InOrder, SocketEnd, BufEnd
  <2>3. WriteEnd = SocketEnd /\ WriteEnd' = SocketEnd + Len(send_buffer)
    BY <1>1, <2>1, <2>2 DEF WriteEnd
  <2>4. IsRun(send_buffer, WriteEnd) => IsRun(writing', SocketEnd')
    BY <1>1, <2>1, <2>3 DEF IsRun
  <2>5. IsRun(send_buffer', WriteEnd')
    BY <2>2 DEF IsRun
  <2>6. IsRun(buf, DecodedBytes + Len(recv_buffer))
          => IsRun(buf', DecodedBytes' + Len(recv_buffer'))
    BY <1>1, <1>3 DEF IsRun
  <2>7. IsRun(socket, BufEnd) => IsRun(socket', BufEnd')
    BY <1>1, <2>1 DEF IsRun
  <2>8. WriteEnd + Len(send_buffer) = StreamLen
          => WriteEnd' + Len(send_buffer') = StreamLen'
    BY <1>3, <2>2, <2>3
  <2>9. QED
    BY <1>1, <1>3, <1>8, <2>1, <2>4, <2>5, <2>6, <2>7, <2>8 DEF Intact
<1>9. EndOK => EndOK'
  BY <1>1, EndUnmoved
<1>10. QED
  BY <1>3, <1>7, <1>8, <1>9 DEF Keeps

\* The start_send of a connection that is not closing.
StartSendStep(m) ==
  /\ sender = "feed"
  /\ write_state = "Idle"
  /\ feed_item(m)
  /\ accepted' = Append(accepted, m)
  /\ sender' = "start_send"
  /\ UNCHANGED <<write_state, write_fut, writing, flushed, write_result, readerVars,
                 networkVars>>

\* The send queue has room: the last start_send has emptied it.
LEMMA QueueHasRoom ==
  ASSUME ConnInv, sender # "start_send"
  PROVE  send_queue = <<>> /\ ~ SendQueueFull
BY ConfigAssumption DEF ConnInv, AcceptedOK, SendQueueFull

\* start_send puts the message into the queue.
LEMMA StartSendKeeps ==
  ASSUME ConnInv, NEW m \in Message, StartSendStep(m)
  PROVE  Keeps
<1>1. /\ send_queue = <<>> /\ send_queue' = <<m>> /\ accepted' = Append(accepted, m)
      /\ UNCHANGED <<frames, send_buffer, readVars, readerVars, networkVars, write_state,
                     write_fut, writing, flushed, write_result>>
      /\ sender = "feed" /\ sender' = "start_send" /\ write_state = "Idle"
  BY QueueHasRoom DEF StartSendStep, feed_item
<1>2. UNCHANGED <<recv_buffer, recv_queue, buf, socket, fin, broken, delivered, ending>>
  BY <1>1 DEF readVars, readerVars, networkVars
<1>3. TypeOK'
  <2>1. send_queue' \in Seq(Message) /\ Len(send_queue') <= SendQueueSize
    BY <1>1, ConfigAssumption
  <2>2. accepted' \in Seq(Message)
    BY <1>1 DEF ConnInv, TypeOK
  <2>3. QED
    BY <1>1, <1>2, <2>1, <2>2 DEF ConnInv, TypeOK, StateTypeOK, readerVars
<1>4. /\ InOrder' /\ ReceiverBytes' /\ ReaderOK' /\ FailedAtFront'
      /\ FramesContiguous' /\ FramesOrdered'
      /\ DecodedBytes' = DecodedBytes /\ StreamLen' = StreamLen /\ Messages' = Messages
      /\ Blocked => Blocked'
  BY <1>1, <1>2, ReaderUnmoved
<1>5. AcceptedOK'
  BY <1>1, <1>4 DEF ConnInv, AcceptedOK
<1>6. WriterOK'
  BY <1>1, <1>2 DEF ConnInv, WriterOK
<1>7. FlushOK'
  BY <1>1, FlushedMoves
<1>8. ConnInv'
  BY <1>3, <1>4, <1>5, <1>6, <1>7 DEF ConnInv
<1>9. Intact => Intact'
  BY <1>1, <1>2, <1>4, BytesUnmoved
<1>10. ending # "end"
  BY <1>1 DEF ConnInv, WriterOK, ReaderOK
<1>11. EndOK => EndOK'
  BY <1>2, <1>10, EndUnmoved
<1>12. QED
  BY <1>4, <1>8, <1>9, <1>11 DEF Keeps

\* The turns of the process that follows.
ProcessStep ==
  /\ sender = "start_send"
  /\ \/ EncodeNext /\ UNCHANGED <<sender, accepted>>
     \/ EncodeError /\ sender' = "app"
                    /\ accepted' = SubSeq(accepted, 1, Len(accepted) - 1)
     \/ EncodeDone /\ sender' = "app" /\ UNCHANGED accepted
  /\ UNCHANGED <<write_state, write_fut, writing, flushed, write_result, readerVars,
                 networkVars>>

\* The queue holds the message start_send put there, and nothing else.
LEMMA QueuedMessage ==
  ASSUME ConnInv, sender = "start_send", send_queue # <<>>
  PROVE  /\ Messages \in Seq(Message)
         /\ Head(send_queue) \in Message
         /\ Tail(send_queue) = <<>>
         /\ accepted = Append(Messages, Head(send_queue))
         /\ SubSeq(accepted, 1, Len(accepted) - 1) = Messages
<1>1. PICK m \in Message : accepted = Append(Messages, m) /\ send_queue = <<m>>
  BY DEF ConnInv, AcceptedOK
<1>2. Messages \in Seq(Message)
  BY FrameMessagesType DEF ConnInv, TypeOK, Messages, FrameMessages
<1>3. Head(send_queue) = m /\ Tail(send_queue) = <<>>
  BY <1>1
<1> HIDE DEF Messages
<1>4. SubSeq(accepted, 1, Len(accepted) - 1) = Messages
  <2>1. /\ accepted \in Seq(Message) /\ Len(accepted) = Len(Messages) + 1
        /\ Len(Messages) \in Nat
        /\ \A i \in 1 .. Len(Messages) : accepted[i] = Messages[i]
    BY <1>1, <1>2
  <2>2. /\ SubSeq(accepted, 1, Len(Messages)) \in Seq(Message)
        /\ Len(SubSeq(accepted, 1, Len(Messages))) = Len(Messages)
        /\ \A i \in 1 .. Len(Messages) :
             SubSeq(accepted, 1, Len(Messages))[i] = accepted[i]
    BY <2>1
  <2>3. SubSeq(accepted, 1, Len(Messages)) = Messages
    BY <1>2, <2>1, <2>2, SeqEqual
  <2>4. QED
    BY <2>1, <2>3
<1>5. QED
  BY <1>1, <1>2, <1>3, <1>4

(***************************************************************************)
(* Encoding a message extends the stream: what has come out of it, and     *)
(* what is on its way, stays what it was.                                  *)
(***************************************************************************)
LEMMA EncodeNextKeeps ==
  ASSUME ConnInv, ProcessStep, EncodeNext
  PROVE  Keeps
<1> DEFINE m == Head(send_queue)
           k == FrameLen(m)
<1>0. /\ TypeOK /\ StateTypeOK /\ FramesContiguous /\ FramesOrdered
      /\ Decoded \in 0 .. Len(frames) /\ Decoded \in Nat /\ Len(frames) \in Nat
      /\ DecodedBytes = Boundary(Decoded)
      /\ DecodedBytes \in Nat /\ StreamLen \in Nat
  BY DecodedType DEF ConnInv, InOrder
<1>1. /\ send_queue # <<>> /\ m \in Message /\ k \in Nat \ {0}
      /\ UNCHANGED <<sender, accepted, write_state, write_fut, writing, flushed,
                     write_result, readerVars, networkVars, readVars>>
      /\ sender = "start_send" /\ write_state = "Idle"
      /\ frames' = Append(frames, [msg |-> m, start |-> StreamLen])
      /\ send_queue' = Tail(send_queue)
      /\ send_buffer' = send_buffer \o Bytes(StreamLen, k)
  <2>1. m \in Message
    BY <1>0, EncodeNextFrames
  <2>2. UNCHANGED <<sender, accepted>>
    BY DEF ProcessStep, EncodeNext, EncodeError, EncodeDone
  <2>3. QED
    BY <2>1, <2>2, FrameLenType DEF ProcessStep, EncodeNext, ConnInv, WriterOK
<1>2. UNCHANGED <<recv_buffer, recv_queue, buf, socket, fin, broken, delivered, ending,
                  reader, read_state, read_fut>>
  BY <1>1 DEF readVars, readerVars, networkVars
<1>3. TypeOK'
  <2>1. StateTypeOK'
    BY <1>0, EncodeNextType
  <2>2. QED
    BY <1>0, <1>1, <1>2, <2>1 DEF TypeOK
<1>4. /\ Len(frames') = Len(frames) + 1
      /\ \A i \in 1 .. Len(frames) : frames'[i] = frames[i]
      /\ frames'[Len(frames) + 1].msg = m
      /\ StreamLen' = StreamLen + k
      /\ \A d \in 0 .. Len(frames) : Boundary(d)' = Boundary(d)
      /\ FramesContiguous' /\ FramesOrdered'
  <2>1. frames'[Len(frames) + 1].msg = m
    BY <1>0, <1>1 DEF StateTypeOK
  <2>2. QED
    BY <1>0, <1>1, <2>1, AppendFrame
<1>5. Decoded' = Decoded
  BY <1>2 DEF Decoded
<1>6. DecodedBytes' = DecodedBytes
  BY <1>0, <1>4, <1>5, <1>2 DEF DecodedBytes, Boundary
<1> HIDE DEF k, Decoded
<1>7. InOrder'
  <2>1. Decoded' <= Len(frames')
    BY <1>0, <1>4, <1>5
  <2>2. \A i \in 1 .. Len(delivered) : i \in 1 .. Len(frames)
    BY <1>0 DEF Decoded, TypeOK, StateTypeOK
  <2>3. \A i \in 1 .. Len(recv_queue) : Len(delivered) + i \in 1 .. Len(frames)
    BY <1>0 DEF Decoded, TypeOK, StateTypeOK
  <2>4. \A i \in 1 .. Decoded : i \in 1 .. Len(frames)
    BY <1>0
  <2>5. QED
    BY <1>2, <1>4, <1>5, <2>1, <2>2, <2>3, <2>4 DEF ConnInv, InOrder
<1>8. ReceiverBytes'
  <2>1. IsRun(recv_buffer, DecodedBytes) /\ DecodedBytes + Len(recv_buffer) <= StreamLen
    BY DEF ConnInv, ReceiverBytes
  <2>2. IsRun(recv_buffer', DecodedBytes')
    BY <1>2, <1>6, <2>1
  <2>3. k \in Nat /\ StreamLen \in Nat /\ StreamLen' = StreamLen + k
    BY <1>0, <1>1, <1>4
  <2>4. DecodedBytes \in Nat /\ Len(recv_buffer) \in Nat
    BY <1>0, Lengths
  <2>5. DecodedBytes + Len(recv_buffer) <= StreamLen'
    BY <2>1, <2>3, <2>4
  <2>6. DecodedBytes' + Len(recv_buffer') <= StreamLen'
    BY <1>2, <1>6, <2>5
  <2>7. QED
    BY <2>2, <2>6 DEF ReceiverBytes
<1>9. NoFrame => NoFrame'
  <2> SUFFICES ASSUME NoFrame, Decoded < Len(frames) + 1
               PROVE  Len(recv_buffer) < FrameLen(frames'[Decoded + 1].msg)
    BY <1>2, <1>4, <1>5 DEF NoFrame
  <2>1. CASE Decoded < Len(frames)
    <3>1. Decoded + 1 \in 1 .. Len(frames)
      BY <1>0, <2>1
    <3>2. QED
      BY <1>4, <2>1, <3>1 DEF NoFrame
  <2>2. CASE Decoded = Len(frames)
    <3>1. Len(recv_buffer) = 0
      BY <1>0, <2>2, AllDecoded, Lengths DEF ConnInv, ReceiverBytes
    <3>2. QED
      BY <1>1, <1>4, <2>2, <3>1 DEF k
  <2>3. QED
    BY <1>0, <2>1, <2>2
<1>10. ReaderOK'
  BY <1>2, <1>9 DEF ConnInv, ReaderOK, RecvQueueFull
<1>11. Decoded < Len(frames) =>
         /\ Decoded' < Len(frames')
         /\ frames'[Decoded' + 1].msg = frames[Decoded + 1].msg
  <2>1. Decoded < Len(frames) => Decoded + 1 \in 1 .. Len(frames)
    BY <1>0
  <2>2. QED
    BY <1>0, <1>4, <1>5, <2>1
<1>12. FailedAtFront' /\ (Blocked => Blocked')
  BY <1>2, <1>11 DEF ConnInv, FailedAtFront, RecvQueueFull, Blocked
<1>13. AcceptedOK'
  <2>1. accepted = Append(Messages, m) /\ send_queue' = <<>>
    BY <1>1, QueuedMessage
  <2>2. Messages' = Append(Messages, m)
    BY <1>0, EncodeNextFrames DEF Messages, FrameMessages
  <2>3. QED
    BY <1>1, <2>1, <2>2 DEF AcceptedOK
<1>14. WriterOK'
  BY <1>1, <1>2 DEF ConnInv, WriterOK
<1>15. /\ Bytes(StreamLen, k) \in Seq(Nat) /\ Len(Bytes(StreamLen, k)) = k
       /\ IsRun(Bytes(StreamLen, k), StreamLen)
       /\ send_buffer \in Seq(Nat) /\ Len(send_buffer') = Len(send_buffer) + k
  <2>1. /\ Bytes(StreamLen, k) \in Seq(Nat) /\ Len(Bytes(StreamLen, k)) = k
        /\ IsRun(Bytes(StreamLen, k), StreamLen)
    BY <1>0, <1>1, BytesType
  <2>2. send_buffer \in Seq(Nat)
    BY <1>0 DEF StateTypeOK
  <2>3. send_buffer' = send_buffer \o Bytes(StreamLen, k)
    BY <1>1
  <2>4. Len(send_buffer') = Len(send_buffer) + Len(Bytes(StreamLen, k))
    BY <2>1, <2>2, <2>3
  <2>5. QED
    BY <2>1, <2>2, <2>4
<1>16. FlushOK'
  <2>1. flushed \in Nat /\ flushed <= Len(frames)
    BY <1>0 DEF ConnInv, FlushOK, TypeOK
  <2>2. flushed' <= Len(frames')
    BY <1>0, <1>1, <1>4, <2>1
  <2>3. ASSUME flushed > 0
        PROVE  Len(writing') + Len(send_buffer') <= StreamLen' - End(frames'[flushed'])
    <3>1. frames'[flushed'] = frames[flushed] /\ End(frames[flushed]) \in Nat
      BY <1>0, <1>1, <1>4, <2>1, <2>3, FrameFacts
    <3>2. Len(writing) + Len(send_buffer) <= StreamLen - End(frames[flushed])
      BY <2>3 DEF ConnInv, FlushOK, FlushIsComplete
    <3>3. writing' = writing /\ Len(writing) \in Nat /\ Len(send_buffer) \in Nat
      BY <1>0, <1>1, Lengths
    <3>4. /\ Len(send_buffer') = Len(send_buffer) + k /\ k \in Nat
          /\ StreamLen' = StreamLen + k /\ StreamLen \in Nat
      BY <1>0, <1>1, <1>4, <1>15
    <3>5. QED
      BY <3>1, <3>2, <3>3, <3>4
  <2>4. QED
    BY <1>1, <2>2, <2>3 DEF FlushOK, FlushIsComplete, End
<1>17. ConnInv'
  BY <1>3, <1>4, <1>7, <1>8, <1>10, <1>12, <1>13, <1>14, <1>16 DEF ConnInv
<1>18. ASSUME Intact
       PROVE  Intact'
  <2>1. /\ BufEnd' = BufEnd /\ SocketEnd' = SocketEnd /\ WriteEnd' = WriteEnd
        /\ BufEnd \in Nat /\ WriteEnd \in Nat
    <3>1. BufEnd' = BufEnd /\ SocketEnd' = SocketEnd /\ WriteEnd' = WriteEnd
      BY <1>1, <1>2, <1>6 DEF BufEnd, SocketEnd, WriteEnd
    <3>2. BufEnd \in Nat /\ WriteEnd \in Nat
      <4>1. BufEnd \in Nat
        BY <1>0, Lengths DEF BufEnd
      <4>2. SocketEnd \in Nat
        BY <1>0, <4>1, Lengths DEF SocketEnd
      <4>3. QED
        BY <1>0, <4>1, <4>2, Lengths DEF WriteEnd
    <3>3. QED
      BY <3>1, <3>2
  <2>2. BufEnd <= StreamLen'
    BY <1>0, <1>1, <1>4, <1>18, <2>1 DEF Intact
  <2>3. ~ broken => IsRun(send_buffer', WriteEnd) /\ WriteEnd + Len(send_buffer') = StreamLen'
    <3> SUFFICES ASSUME ~ broken
                 PROVE  /\ IsRun(send_buffer', WriteEnd)
                        /\ WriteEnd + Len(send_buffer') = StreamLen'
      OBVIOUS
    <3>1. IsRun(send_buffer, WriteEnd) /\ WriteEnd + Len(send_buffer) = StreamLen
      BY <1>18 DEF Intact
    <3>2. IsRun(send_buffer \o Bytes(StreamLen, k), WriteEnd)
      BY <1>15, <2>1, <3>1, RunConcat
    <3>3. IsRun(send_buffer', WriteEnd)
      BY <1>1, <3>2
    <3>4. /\ Len(send_buffer') = Len(send_buffer) + k /\ k \in Nat
          /\ StreamLen' = StreamLen + k /\ StreamLen \in Nat /\ WriteEnd \in Nat
          /\ Len(send_buffer) \in Nat
      BY <1>0, <1>1, <1>4, <1>15, <2>1, Lengths
    <3>5. QED
      BY <3>1, <3>3, <3>4
  <2>4. QED
    BY <1>1, <1>2, <1>6, <1>18, <2>1, <2>2, <2>3 DEF Intact, IsRun
<1>19. ending # "end"
  BY <1>1 DEF ConnInv, WriterOK, ReaderOK
<1>20. EndOK => EndOK'
  BY <1>2, <1>19, EndUnmoved
<1>21. QED
  BY <1>12, <1>17, <1>18, <1>20 DEF Keeps

\* The process of start_send ends: with the message on the stream, or not
\* accepted.
LEMMA EncodeEndKeeps ==
  ASSUME ConnInv, ProcessStep, ~ EncodeNext
  PROVE  Keeps
<1>1. /\ sender = "start_send" /\ sender' = "app" /\ write_state = "Idle"
      /\ UNCHANGED <<frames, send_buffer, readVars, readerVars, networkVars, write_state,
                     write_fut, writing, flushed, write_result>>
      /\ UNCHANGED <<recv_buffer, recv_queue, buf, socket, fin, broken, delivered, ending>>
  BY DEF ProcessStep, EncodeError, EncodeDone, stateVars, writeVars, readVars, readerVars,
         networkVars, ConnInv, WriterOK
<1>2. /\ InOrder' /\ ReceiverBytes' /\ ReaderOK' /\ FailedAtFront'
      /\ FramesContiguous' /\ FramesOrdered'
      /\ DecodedBytes' = DecodedBytes /\ StreamLen' = StreamLen /\ Messages' = Messages
      /\ Blocked => Blocked'
  BY <1>1, ReaderUnmoved
<1>3. accepted' = Messages /\ send_queue' = <<>>
  <2>1. CASE EncodeError
    BY <1>1, <2>1, QueuedMessage DEF ProcessStep, EncodeError, EncodeDone
  <2>2. CASE EncodeDone
    <3>1. send_queue = <<>> /\ UNCHANGED <<send_queue, accepted>>
      BY <2>2 DEF ProcessStep, EncodeError, EncodeDone, stateVars, writeVars
    <3>2. QED
      BY <1>1, <3>1 DEF ConnInv, AcceptedOK
  <2>3. QED
    BY <2>1, <2>2 DEF ProcessStep
<1>4. TypeOK'
  <2>1. Messages \in Seq(Message)
    BY FrameMessagesType DEF ConnInv, TypeOK, Messages, FrameMessages
  <2>2. Len(send_queue') <= SendQueueSize /\ send_queue' \in Seq(Message)
    BY <1>3, ConfigAssumption
  <2>3. QED
    BY <1>1, <1>3, <2>1, <2>2 DEF ConnInv, TypeOK, StateTypeOK, readerVars
<1>5. AcceptedOK'
  BY <1>1, <1>2, <1>3 DEF AcceptedOK
<1>6. WriterOK'
  BY <1>1 DEF ConnInv, WriterOK
<1>7. FlushOK'
  BY <1>1, FlushedMoves
<1>8. ConnInv'
  BY <1>2, <1>4, <1>5, <1>6, <1>7 DEF ConnInv
<1>9. Intact => Intact'
  BY <1>1, <1>2, BytesUnmoved
<1>10. ending # "end"
  BY <1>1 DEF ConnInv, WriterOK, ReaderOK
<1>11. EndOK => EndOK'
  BY <1>1, <1>10, EndUnmoved
<1>12. QED
  BY <1>2, <1>8, <1>9, <1>11 DEF Keeps

\* The kernel takes the first bytes of what is being written.
MovedToSocket ==
  /\ socket' = socket \o SubSeq(writing, 1, Written)
  /\ writing' = SubSeq(writing, Written + 1, Len(writing))

(***************************************************************************)
(* The write_all moves bytes from its buffer into the kernel.              *)
(***************************************************************************)
LEMMA WriteKeeps ==
  ASSUME ConnInv, write_state = "Writing", ~ broken, MovedToSocket,
         write_state' \in {"Idle", "Writing"}, write_fut' \in {"running", "written"},
         write_state' = "Idle" => Written = Len(writing) /\ write_fut' = "running",
         UNCHANGED <<stateVars, readerVars, sender, accepted, flushed, write_result, fin,
                     broken>>
  PROVE  Keeps
<1>0. /\ writing \in Seq(Nat) /\ socket \in Seq(Nat)
      /\ Len(writing) \in Nat /\ Len(socket) \in Nat /\ Room \in Nat
  BY SocketAssumption DEF ConnInv, TypeOK, Room
<1>1. Written \in 0 .. Len(writing) /\ Written <= Room
  BY <1>0 DEF Written
<1>2. /\ SubSeq(writing, 1, Written) \in Seq(Nat) /\ writing' \in Seq(Nat)
      /\ Len(SubSeq(writing, 1, Written)) = Written
      /\ Len(writing') = Len(writing) - Written
      /\ socket' \in Seq(Nat) /\ Len(socket') = Len(socket) + Written
  <2> HIDE DEF Written
  <2>1. /\ SubSeq(writing, 1, Written) \in Seq(Nat)
        /\ Len(SubSeq(writing, 1, Written)) = Written
    BY <1>0, <1>1
  <2>2. writing' \in Seq(Nat) /\ Len(writing') = Len(writing) - Written
    BY <1>0, <1>1 DEF MovedToSocket
  <2>3. socket' \in Seq(Nat) /\ Len(socket') = Len(socket) + Written
    BY <1>0, <2>1 DEF MovedToSocket
  <2>4. QED
    BY <2>1, <2>2, <2>3
<1> HIDE DEF Written
<1>3. /\ UNCHANGED <<frames, readVars, readerVars, send_queue, send_buffer>>
      /\ UNCHANGED <<recv_buffer, buf, delivered, ending>>
      /\ sender # "start_send"
  BY DEF stateVars, writeVars, readVars, readerVars, ConnInv, WriterOK
<1>4. TypeOK'
  <2>1. Len(socket') <= SocketCapacity
    BY <1>0, <1>1, <1>2, SocketAssumption DEF Room
  <2>2. StateTypeOK'
    BY StateTypeKept DEF ConnInv, TypeOK
  <2>3. TypeOK /\ ReaderTypeOK' /\ WriterTypeOK /\ NetworkTypeOK
    BY TypeParts, ReaderTypeKept DEF ConnInv
  <2>4. WriterTypeOK'
    BY <1>2, <2>3 DEF WriterTypeOK
  <2>5. NetworkTypeOK'
    BY <1>2, <2>1, <2>3 DEF NetworkTypeOK
  <2>6. QED
    BY <2>2, <2>3, <2>4, <2>5, TypePartsNext
<1>5. /\ InOrder' /\ ReceiverBytes' /\ ReaderOK' /\ FailedAtFront'
      /\ FramesContiguous' /\ FramesOrdered'
      /\ DecodedBytes' = DecodedBytes /\ StreamLen' = StreamLen
      /\ Blocked => Blocked'
  BY <1>3, ReaderUnmoved
<1>6. AcceptedOK'
  BY <1>3, SenderMoves
<1>7. WriterOK'
  <2>1. write_state' = "Idle" => writing' = <<>>
    BY <1>0, <1>1, <1>2
  <2>2. QED
    BY <1>3, <2>1 DEF ConnInv, WriterOK
<1>8. FlushOK'
  <2>1. Len(writing') + Len(send_buffer') <= Len(writing) + Len(send_buffer)
    BY <1>0, <1>1, <1>2, <1>3, Lengths DEF ConnInv
  <2>2. flushed \in Nat /\ flushed <= Len(frames) /\ StateTypeOK
    BY DEF ConnInv, FlushOK, TypeOK
  <2>3. StreamLen \in Nat
    BY <2>2, StreamLenType
  <2>4. flushed > 0 => End(frames[flushed]) \in Nat
    BY <2>2, FrameFacts DEF StateTypeOK
  <2>5. Len(writing) + Len(send_buffer) \in Nat /\ Len(writing') + Len(send_buffer') \in Nat
    <3>1. Len(writing) \in Nat /\ Len(send_buffer) \in Nat
      BY Lengths DEF ConnInv
    <3>2. Len(writing') \in Nat /\ send_buffer' = send_buffer
      BY <1>2, <1>3
    <3>3. QED
      BY <3>1, <3>2
  <2>6. flushed > 0 =>
          Len(writing') + Len(send_buffer') <= StreamLen - End(frames[flushed])
    <3>1. flushed > 0 => Len(writing) + Len(send_buffer) <= StreamLen - End(frames[flushed])
      BY DEF ConnInv, FlushOK, FlushIsComplete
    <3> DEFINE left == Len(writing) + Len(send_buffer)
               left1 == Len(writing') + Len(send_buffer')
    <3>2. left \in Nat /\ left1 \in Nat /\ left1 <= left
      BY <2>1, <2>5
    <3>3. flushed > 0 => left <= StreamLen - End(frames[flushed])
      BY <3>1
    <3> HIDE DEF left, left1
    <3>4. flushed > 0 => left1 <= StreamLen - End(frames[flushed])
      BY <2>3, <2>4, <3>2, <3>3
    <3>5. QED
      BY <3>4 DEF left1
  <2>7. StreamLen' - End(frames'[flushed']) = StreamLen - End(frames[flushed])
    BY <1>3, <1>5
  <2>8. QED
    BY <1>3, <1>5, <2>2, <2>6, <2>7 DEF FlushOK, FlushIsComplete, End
<1>9. ConnInv'
  BY <1>4, <1>5, <1>6, <1>7, <1>8 DEF ConnInv
<1>10. ASSUME Intact
       PROVE  Intact'
  <2>1. /\ BufEnd' = BufEnd /\ SocketEnd' = SocketEnd + Written /\ WriteEnd' = WriteEnd
        /\ BufEnd \in Nat /\ SocketEnd \in Nat /\ SocketEnd = BufEnd + Len(socket)
    <3>1. /\ BufEnd' = BufEnd /\ SocketEnd = BufEnd + Len(socket)
          /\ SocketEnd' = BufEnd + Len(socket') /\ WriteEnd = SocketEnd + Len(writing)
          /\ WriteEnd' = SocketEnd' + Len(writing')
      BY <1>3, <1>5 DEF BufEnd, SocketEnd, WriteEnd
    <3>2. DecodedBytes \in Nat /\ Len(recv_buffer) \in Nat /\ Len(buf) \in Nat
      BY DecodedType, Lengths DEF ConnInv, InOrder
    <3>3. BufEnd \in Nat
      BY <3>2 DEF BufEnd
    <3>4. QED
      BY <1>0, <1>1, <1>2, <3>1, <3>3
  <2>2. IsRun(socket, BufEnd) /\ IsRun(writing, SocketEnd)
    BY <1>10 DEF Intact
  <2>3. /\ IsRun(SubSeq(writing, 1, Written), SocketEnd)
        /\ IsRun(writing', SocketEnd')
    BY <1>0, <1>1, <2>1, <2>2, RunSplit DEF MovedToSocket
  <2>4. IsRun(socket', BufEnd')
    BY <1>0, <1>2, <2>1, <2>2, <2>3, RunConcat DEF MovedToSocket
  <2>5. QED
    BY <1>3, <1>5, <1>10, <2>1, <2>3, <2>4 DEF Intact, IsRun
<1>11. EndOK => EndOK'
  BY <1>3, EndUnmoved
<1>12. QED
  BY <1>5, <1>9, <1>10, <1>11 DEF Keeps

-----------------------------------------------------------------------------
(* The steps of the receiving task the adapters share.                     *)

\* A step of the receiving task that moves no byte and no message.
LEMMA ReaderControlKeeps ==
  ASSUME ConnInv, TypeOK', ReaderOK', FailedAtFront', EndOK => EndOK',
         UNCHANGED <<stateVars, writerVars, buf, delivered, socket, fin, broken>>
  PROVE  Keeps
<1>1. /\ UNCHANGED <<writeVars, writerVars, frames, recv_buffer, recv_queue>>
      /\ UNCHANGED <<buf, socket, writing, send_buffer, broken, delivered>>
  BY DEF stateVars, writeVars, readVars, writerVars
<1>2. /\ AcceptedOK' /\ WriterOK' /\ FlushOK' /\ FramesContiguous' /\ FramesOrdered'
      /\ StreamLen' = StreamLen
  BY <1>1, WriterUnmoved
<1>3. Decoded' = Decoded
  BY <1>1 DEF Decoded
<1>4. DecodedBytes' = DecodedBytes
  BY <1>1, <1>3 DEF DecodedBytes, End
<1>5. InOrder'
  BY <1>1, <1>3 DEF ConnInv, InOrder
<1>6. ReceiverBytes'
  BY <1>1, <1>2, <1>4 DEF ConnInv, ReceiverBytes, IsRun
<1>7. ConnInv'
  BY <1>2, <1>5, <1>6 DEF ConnInv
<1>8. Intact => Intact'
  BY <1>1, <1>2, <1>4, BytesUnmoved
<1>9. Blocked => Blocked'
  BY <1>1, <1>3 DEF Blocked
<1>10. QED
  BY <1>7, <1>8, <1>9 DEF Keeps

\* The steps of poll_next that only decide what to do next.
LEMMA PollNextKeeps ==
  ASSUME ConnInv, BeginNext \/ NoItem \/ StartReading \/ ReadPanic
  PROVE  Keeps
<1>1. /\ UNCHANGED <<stateVars, writerVars, buf, delivered, socket, fin, broken>>
      /\ UNCHANGED <<recv_buffer, recv_queue, frames, ending, read_fut, accepted,
                     write_state>>
  BY DEF BeginNext, NoItem, StartReading, ReadPanic, networkVars, stateVars, readVars,
         writeVars, writerVars
<1>2. TypeOK'
  <2>1. StateTypeOK'
    BY <1>1, StateTypeKept DEF ConnInv, TypeOK
  <2>2. /\ reader' \in {"app", "process", "item", "match", "panicked"}
        /\ read_state' \in {"Idle", "Reading"}
    BY DEF ConnInv, TypeOK, BeginNext, NoItem, StartReading, ReadPanic
  <2>3. TypeOK /\ WriterTypeOK' /\ ReaderTypeOK /\ NetworkTypeOK
    BY <1>1, TypeParts, WriterTypeKept DEF ConnInv
  <2>4. ReaderTypeOK' /\ NetworkTypeOK'
    BY <1>1, <2>2, <2>3 DEF ReaderTypeOK, NetworkTypeOK
  <2>5. QED
    BY <2>1, <2>3, <2>4, TypePartsNext
<1>3. NoFrame' <=> NoFrame
  BY <1>1 DEF NoFrame, Decoded
<1>4. ending # "end"
  BY DEF ConnInv, ReaderOK, BeginNext, NoItem, StartReading, ReadPanic
<1>5. ReaderOK'
  <2>1. CASE BeginNext
    BY <1>1, <1>4, <2>1 DEF BeginNext, ConnInv, ReaderOK
  <2>2. CASE NoItem
    <3>1. ~ RecvQueueFull
      BY <2>2, ConfigAssumption DEF NoItem, RecvQueueFull
    <3>2. QED
      BY <1>1, <1>3, <1>4, <2>2, <3>1 DEF NoItem, ConnInv, ReaderOK
  <2>3. CASE StartReading
    BY <1>1, <1>4, <2>3 DEF StartReading, ConnInv, ReaderOK
  <2>4. CASE ReadPanic
    <3>1. ending = "io_error"
      BY <1>4, <2>4 DEF ReadPanic, ConnInv, ReaderOK, FailedAtFront, TypeOK
    <3>2. QED
      BY <1>1, <2>4, <3>1 DEF ReadPanic, ConnInv, ReaderOK
  <2>5. QED
    BY <2>1, <2>2, <2>3, <2>4
<1>6. FailedAtFront'
  <2>1. ending = "decode_error" => reader' = "process"
    BY DEF ConnInv, FailedAtFront, BeginNext, NoItem, StartReading, ReadPanic
  <2>2. QED
    BY <1>1, <2>1 DEF ConnInv, FailedAtFront, Decoded, RecvQueueFull
<1>7. EndOK => EndOK'
  BY <1>1, EndUnmoved
<1>8. QED
  BY <1>1, <1>2, <1>5, <1>6, <1>7, ReaderControlKeeps

\* process_read stops without another message.
LEMMA DecodeEndKeeps ==
  ASSUME ConnInv, ProcessRead, ~ DecodeNext
  PROVE  Keeps
<1>0. /\ StateTypeOK /\ FramesContiguous /\ FramesOrdered
      /\ Decoded \in 0 .. Len(frames) /\ Decoded \in Nat
      /\ IsRun(recv_buffer, Boundary(Decoded))
  BY DecodedType DEF ConnInv, InOrder, ReceiverBytes
<1>1. /\ UNCHANGED <<stateVars, writerVars, buf, delivered, socket, fin, broken>>
      /\ UNCHANGED <<recv_buffer, recv_queue, frames, read_fut, read_state, accepted,
                     write_state>>
      /\ reader = "process" /\ reader' \in {"app", "item"}
  BY DEF ProcessRead, DecodeError, DecodeDone, networkVars, stateVars, readVars,
         writeVars, writerVars
<1>2. \/ DecodeError /\ reader' = "app" /\ ending' = "decode_error"
      \/ DecodeDone /\ reader' = "item" /\ ending' = ending
  BY DEF ProcessRead
<1>3. TypeOK'
  <2>1. StateTypeOK'
    BY <1>1, StateTypeKept DEF ConnInv, TypeOK
  <2>2. TypeOK /\ WriterTypeOK' /\ ReaderTypeOK /\ NetworkTypeOK
    BY <1>1, TypeParts, WriterTypeKept DEF ConnInv
  <2>3. ReaderTypeOK' /\ NetworkTypeOK'
    BY <1>1, <1>2, <2>2 DEF ReaderTypeOK, NetworkTypeOK
  <2>4. QED
    BY <2>1, <2>2, <2>3, TypePartsNext
<1>4. NoFrame' <=> NoFrame
  BY <1>1 DEF NoFrame, Decoded
<1>5. ending # "end"
  BY <1>1 DEF ConnInv, ReaderOK
<1>6. DecodeDone => RecvQueueFull \/ NoFrame
  BY <1>0, DecodeDoneFrame DEF NoFrame
<1>7. RecvQueueFull' <=> RecvQueueFull
  BY <1>1 DEF RecvQueueFull
<1>8. ReaderOK'
  BY <1>1, <1>2, <1>4, <1>5, <1>6, <1>7 DEF ConnInv, ReaderOK
<1>9. FailedAtFront'
  <2>1. CASE DecodeError /\ reader' = "app" /\ ending' = "decode_error"
    <3>1. /\ Decoded < Len(frames)
          /\ FrameLen(frames[Decoded + 1].msg) <= Len(recv_buffer)
          /\ frames[Decoded + 1].msg \in Undecodable
      BY <1>0, <2>1, DecodeErrorFrame
    <3>2. ~ RecvQueueFull
      BY <2>1 DEF DecodeError
    <3>3. Decoded' = Decoded
      BY <1>1 DEF Decoded
    <3>4. QED
      BY <1>1, <1>7, <2>1, <3>1, <3>2, <3>3 DEF FailedAtFront
  <2>2. CASE DecodeDone /\ reader' = "item" /\ ending' = ending
    <3>1. ASSUME ending = "decode_error"
          PROVE  FALSE
      <4>1. /\ ~ RecvQueueFull /\ Decoded < Len(frames)
            /\ FrameLen(frames[Decoded + 1].msg) <= Len(recv_buffer)
        BY <3>1 DEF ConnInv, FailedAtFront
      <4>2. Len(recv_buffer) < FrameLen(frames[Decoded + 1].msg)
        BY <1>6, <2>2, <4>1 DEF NoFrame
      <4>3. Len(recv_buffer) \in Nat /\ FrameLen(frames[Decoded + 1].msg) \in Nat
        BY <4>1, NextFrameEnd, Lengths DEF ConnInv
      <4>4. QED
        BY <4>1, <4>2, <4>3
    <3>2. QED
      BY <2>2, <3>1 DEF FailedAtFront
  <2>3. QED
    BY <1>2, <2>1, <2>2
<1>10. EndOK => EndOK'
  <2>1. ending' # "end"
    BY <1>2, <1>5
  <2>2. QED
    BY <2>1 DEF EndOK
<1>11. QED
  BY <1>1, <1>3, <1>8, <1>9, <1>10, ReaderControlKeeps

(***************************************************************************)
(* Decoding moves the next frame from the receive buffer to the queue.     *)
(***************************************************************************)
LEMMA DecodeNextKeeps ==
  ASSUME ConnInv, ProcessRead, DecodeNext
  PROVE  Keeps
<1> DEFINE k == FrameLen(frames[Decoded + 1].msg)
           m == frames[Decoded + 1].msg
<1>0. /\ TypeOK /\ StateTypeOK /\ FramesContiguous /\ FramesOrdered
      /\ Decoded \in 0 .. Len(frames) /\ Decoded \in Nat /\ Len(frames) \in Nat
      /\ DecodedBytes = Boundary(Decoded) /\ DecodedBytes \in Nat /\ StreamLen \in Nat
      /\ IsRun(recv_buffer, Boundary(Decoded)) /\ Len(recv_buffer) \in Nat
  BY DecodedType, Lengths DEF ConnInv, InOrder, ReceiverBytes
<1>1. /\ Decoded < Len(frames)
      /\ k \in 1 .. Len(recv_buffer)
      /\ m \notin Undecodable
      /\ Boundary(Decoded + 1) = DecodedBytes + k
      /\ recv_queue' = Append(recv_queue, m)
      /\ recv_buffer' \in Seq(Nat)
      /\ Len(recv_buffer') = Len(recv_buffer) - k
      /\ IsRun(recv_buffer', Boundary(Decoded + 1))
  BY <1>0, DecodeNextFrame
<1>2. ending # "decode_error" /\ m \in Message
  <2>1. Decoded + 1 \in 1 .. Len(frames)
    BY <1>0, <1>1
  <2>2. QED
    BY <1>0, <1>1, <2>1, FrameFacts DEF ConnInv, FailedAtFront
<1>3. /\ UNCHANGED <<writeVars, writerVars, frames, buf, delivered, socket, fin, broken>>
      /\ UNCHANGED <<send_buffer, writing, accepted, write_state, read_state, read_fut>>
      /\ reader = "process"
  BY DEF ProcessRead, DecodeNext, writeVars, writerVars, networkVars
<1>4. \/ reader' = reader /\ ending' = ending
      \/ reader' = "app" /\ ending' = "decode_error"
      \/ reader' = "item" /\ ending' = ending
  BY DEF ProcessRead
<1>5. reader' = reader /\ ending' = ending
  <2>1. recv_queue' # recv_queue
    <3>1. recv_queue \in Seq(Message) /\ m \in Message
      BY <1>0, <1>2 DEF StateTypeOK
    <3>2. Len(recv_queue') = Len(recv_queue) + 1 /\ Len(recv_queue) \in Nat
      BY <1>1, <3>1
    <3>3. QED
      BY <3>2
  <2>2. ~ DecodeError /\ ~ DecodeDone
    BY <2>1 DEF DecodeError, DecodeDone, stateVars, readVars
  <2>3. QED
    BY <2>2 DEF ProcessRead
<1>6. TypeOK'
  <2>1. StateTypeOK'
    BY <1>0, DecodeNextType
  <2>2. QED
    BY <1>0, <1>3, <1>5, <2>1 DEF TypeOK, writerVars
<1>7. /\ AcceptedOK' /\ WriterOK' /\ FlushOK' /\ FramesContiguous' /\ FramesOrdered'
      /\ StreamLen' = StreamLen
  BY <1>3, WriterUnmoved
<1>8. /\ recv_queue \in Seq(Message) /\ Len(recv_queue) \in Nat /\ m \in Message
      /\ Len(delivered) \in Nat
      /\ Len(recv_queue') = Len(recv_queue) + 1
      /\ recv_queue'[Len(recv_queue) + 1] = m
      /\ \A i \in 1 .. Len(recv_queue) : recv_queue'[i] = recv_queue[i]
  <2>1. recv_queue \in Seq(Message) /\ m \in Message /\ Len(delivered) \in Nat
    BY <1>0, <1>2 DEF StateTypeOK, TypeOK
  <2>2. QED
    BY <1>1, <2>1, Z3
<1>9. Decoded = Len(delivered) + Len(recv_queue) /\ Decoded' = Decoded + 1
  BY <1>3, <1>8 DEF Decoded
<1>10. DecodedBytes' = DecodedBytes + k
  BY <1>0, <1>1, <1>3, <1>9 DEF DecodedBytes, Boundary, End
<1> HIDE DEF Decoded, k
<1>11. InOrder'
  <2>1. ASSUME NEW i \in 1 .. Len(recv_queue')
        PROVE  recv_queue'[i] = frames[Len(delivered) + i].msg
    <3>1. CASE i \in 1 .. Len(recv_queue)
      BY <1>8, <3>1 DEF ConnInv, InOrder
    <3>2. CASE i = Len(recv_queue) + 1
      <4>1. Len(delivered) + i = Decoded + 1
        BY <1>8, <1>9, <3>2
      <4>2. QED
        BY <1>8, <3>2, <4>1
    <3>3. QED
      BY <1>8, <3>1, <3>2
  <2>2. ASSUME NEW i \in 1 .. Decoded + 1
        PROVE  frames[i].msg \notin Undecodable
    <3>1. CASE i \in 1 .. Decoded
      BY <3>1 DEF ConnInv, InOrder
    <3>2. CASE i = Decoded + 1
      BY <1>1, <3>2
    <3>3. QED
      BY <1>0, <3>1, <3>2
  <2>3. Decoded + 1 <= Len(frames)
    BY <1>0, <1>1
  <2>4. QED
    BY <1>3, <1>9, <2>1, <2>2, <2>3 DEF ConnInv, InOrder
<1>12. ReceiverBytes'
  <2>1. DecodedBytes' + Len(recv_buffer') = DecodedBytes + Len(recv_buffer)
    BY <1>0, <1>1, <1>10, Z3
  <2>2. QED
    BY <1>1, <1>7, <1>10, <2>1 DEF ConnInv, ReceiverBytes, IsRun
<1>13. ReaderOK'
  BY <1>3, <1>5 DEF ConnInv, ReaderOK
<1>14. FailedAtFront'
  BY <1>2, <1>5 DEF FailedAtFront
<1>15. ConnInv'
  BY <1>6, <1>7, <1>11, <1>12, <1>13, <1>14 DEF ConnInv
<1>16. ASSUME Intact
       PROVE  Intact'
  <2>1. DecodedBytes' + Len(recv_buffer') = DecodedBytes + Len(recv_buffer)
    BY <1>0, <1>1, <1>10, Z3
  <2>2. BufEnd' = BufEnd /\ SocketEnd' = SocketEnd /\ WriteEnd' = WriteEnd
    BY <1>3, <2>1 DEF BufEnd, SocketEnd, WriteEnd
  <2>3. QED
    BY <1>3, <1>7, <1>16, <2>1, <2>2 DEF Intact, IsRun
<1>17. ~ Blocked
  BY <1>0, <1>1 DEF Blocked, k
<1>18. EndOK => EndOK'
  BY <1>3, <1>5, EndUnmoved
<1>19. QED
  BY <1>15, <1>16, <1>17, <1>18 DEF Keeps

(***************************************************************************)
(* poll_next returns the message at the head of the queue.                 *)
(***************************************************************************)
LEMMA ReturnItemKeeps ==
  ASSUME ConnInv, ReturnItem
  PROVE  Keeps
<1>1. /\ UNCHANGED <<writeVars, writerVars, frames, recv_buffer, buf, socket, fin, broken>>
      /\ UNCHANGED <<send_buffer, writing, accepted, write_state, read_state, read_fut,
                     ending>>
      /\ reader = "item" /\ reader' = "app"
      /\ recv_queue # <<>> /\ recv_queue' = Tail(recv_queue)
      /\ delivered' = Append(delivered, Head(recv_queue))
  BY DEF ReturnItem, consume_item, writeVars, writerVars, networkVars
<1>2. /\ TypeOK /\ recv_queue \in Seq(Message) /\ delivered \in Seq(Message)
      /\ Len(recv_queue) \in Nat \ {0} /\ Len(delivered) \in Nat
      /\ Head(recv_queue) = recv_queue[1] /\ recv_queue[1] \in Message
      /\ recv_queue' \in Seq(Message) /\ Len(recv_queue') = Len(recv_queue) - 1
      /\ \A i \in 1 .. Len(recv_queue) - 1 : recv_queue'[i] = recv_queue[i + 1]
  BY <1>1, Z3 DEF ConnInv, TypeOK, StateTypeOK
<1>3. /\ delivered' \in Seq(Message) /\ Len(delivered') = Len(delivered) + 1
      /\ delivered'[Len(delivered) + 1] = recv_queue[1]
      /\ \A i \in 1 .. Len(delivered) : delivered'[i] = delivered[i]
  BY <1>1, <1>2
<1>4. TypeOK'
  <2>1. StateTypeOK'
    BY <1>1, <1>2, ConfigAssumption DEF TypeOK, StateTypeOK, writeVars
  <2>2. QED
    BY <1>1, <1>2, <1>3, <2>1 DEF TypeOK, writerVars
<1>5. /\ AcceptedOK' /\ WriterOK' /\ FlushOK' /\ FramesContiguous' /\ FramesOrdered'
      /\ StreamLen' = StreamLen
  BY <1>1, WriterUnmoved
<1>6. Decoded' = Decoded
  BY <1>2, <1>3 DEF Decoded
<1>7. DecodedBytes' = DecodedBytes
  BY <1>1, <1>6 DEF DecodedBytes, End
<1>8. InOrder'
  <2>1. ASSUME NEW i \in 1 .. Len(delivered')
        PROVE  delivered'[i] = frames[i].msg
    <3>1. CASE i \in 1 .. Len(delivered)
      BY <1>3, <3>1 DEF ConnInv, InOrder
    <3>2. CASE i = Len(delivered) + 1
      <4>1. recv_queue[1] = frames[Len(delivered) + 1].msg
        BY <1>2 DEF ConnInv, InOrder
      <4>2. QED
        BY <1>3, <3>2, <4>1
    <3>3. QED
      BY <1>2, <1>3, <3>1, <3>2
  <2>2. ASSUME NEW i \in 1 .. Len(recv_queue')
        PROVE  recv_queue'[i] = frames[Len(delivered') + i].msg
    <3>1. i + 1 \in 1 .. Len(recv_queue) /\ Len(delivered) + (i + 1) = Len(delivered') + i
          /\ recv_queue'[i] = recv_queue[i + 1]
      BY <1>2, <1>3
    <3>2. recv_queue[i + 1] = frames[Len(delivered) + (i + 1)].msg
      BY <3>1 DEF ConnInv, InOrder
    <3>3. QED
      BY <3>1, <3>2
  <2>3. QED
    BY <1>1, <1>6, <2>1, <2>2 DEF ConnInv, InOrder
<1>9. ReceiverBytes'
  BY <1>1, <1>5, <1>7 DEF ConnInv, ReceiverBytes, IsRun
<1>10. ending # "end" /\ ending # "decode_error"
  BY <1>1 DEF ConnInv, ReaderOK, FailedAtFront
<1>11. ReaderOK'
  BY <1>1, <1>10 DEF ConnInv, ReaderOK
<1>12. FailedAtFront'
  BY <1>1, <1>10 DEF FailedAtFront
<1>13. ConnInv'
  BY <1>4, <1>5, <1>8, <1>9, <1>11, <1>12 DEF ConnInv
<1>14. Intact => Intact'
  BY <1>1, <1>5, <1>7, BytesUnmoved
<1>15. Blocked => Blocked'
  BY <1>1, <1>6 DEF Blocked
<1>16. EndOK => EndOK'
  BY <1>1, <1>10 DEF EndOK
<1>17. QED
  BY <1>13, <1>14, <1>15, <1>16 DEF Keeps

(***************************************************************************)
(* A read takes the first bytes the kernel holds.                          *)
(***************************************************************************)
LEMMA ReadKeeps ==
  ASSUME ConnInv, NEW max \in Nat, Read(max)
  PROVE  Keeps
<1>1. PICK n \in 1 .. max :
        /\ n <= Len(socket)
        /\ buf' = SubSeq(socket, 1, n)
        /\ socket' = SubSeq(socket, n + 1, Len(socket))
  BY DEF Read
<1>2. /\ UNCHANGED <<stateVars, writeVars, writerVars, frames, recv_buffer, recv_queue>>
      /\ UNCHANGED <<send_buffer, writing, accepted, write_state, read_fut, ending,
                     delivered, fin, broken>>
      /\ reader = "match" /\ reader' = "process" /\ buf = <<>> /\ read_state' = "Idle"
  BY DEF Read, stateVars, writeVars, readVars, writerVars, ConnInv, ReaderOK
<1>3. socket \in Seq(Nat) /\ Len(socket) \in Nat /\ n \in 0 .. Len(socket)
  BY <1>1 DEF ConnInv, TypeOK
<1>4. /\ buf' \in Seq(Nat) /\ socket' \in Seq(Nat)
      /\ Len(buf') = n /\ Len(socket') = Len(socket) - n
  BY <1>1, <1>3, SMTT(30)
<1>5. TypeOK'
  <2>1. StateTypeOK'
    BY <1>2, StateTypeKept DEF ConnInv, TypeOK
  <2>2. Len(socket') <= SocketCapacity
    BY <1>3, <1>4, SocketAssumption DEF ConnInv, TypeOK
  <2>3. TypeOK /\ WriterTypeOK' /\ ReaderTypeOK /\ NetworkTypeOK
    BY <1>2, TypeParts, WriterTypeKept DEF ConnInv
  <2>4. ReaderTypeOK' /\ NetworkTypeOK'
    BY <1>2, <1>4, <2>2, <2>3 DEF ReaderTypeOK, NetworkTypeOK
  <2>5. QED
    BY <2>1, <2>3, <2>4, TypePartsNext
<1>6. /\ AcceptedOK' /\ WriterOK' /\ FlushOK' /\ FramesContiguous' /\ FramesOrdered'
      /\ StreamLen' = StreamLen
  BY <1>2, WriterUnmoved
<1>7. Decoded' = Decoded
  BY <1>2 DEF Decoded
<1>8. DecodedBytes' = DecodedBytes
  BY <1>2, <1>7 DEF DecodedBytes, End
<1>9. InOrder'
  BY <1>2, <1>7 DEF ConnInv, InOrder
<1>10. ReceiverBytes'
  BY <1>2, <1>6, <1>8 DEF ConnInv, ReceiverBytes, IsRun
<1>11. ending # "end" /\ ending # "decode_error"
  BY <1>2 DEF ConnInv, ReaderOK, FailedAtFront
<1>12. ReaderOK'
  BY <1>2, <1>11 DEF ConnInv, ReaderOK
<1>13. FailedAtFront'
  BY <1>2, <1>11 DEF FailedAtFront
<1>14. ConnInv'
  BY <1>5, <1>6, <1>9, <1>10, <1>12, <1>13 DEF ConnInv
<1>15. ASSUME Intact
       PROVE  Intact'
  <2> DEFINE p == DecodedBytes + Len(recv_buffer)
  <2>1. /\ p \in Nat /\ StreamLen \in Nat /\ p <= StreamLen /\ BufEnd = p /\ p' = p
        /\ Len(writing) \in Nat /\ Len(send_buffer) \in Nat
    BY <1>2, <1>8, DecodedType, Lengths, SMTT(30) DEF ConnInv, InOrder, ReceiverBytes, BufEnd
  <2>2. ~ broken
    BY DEF Read
  <2>3. /\ IsRun(socket, p) /\ IsRun(writing, SocketEnd) /\ IsRun(send_buffer, WriteEnd)
        /\ WriteEnd + Len(send_buffer) = StreamLen
    BY <1>15, <2>1, <2>2 DEF Intact
  <2>4. BufEnd' = p + n
    BY <1>2, <1>4, <1>8 DEF BufEnd
  <2> HIDE DEF p
  <2>5. SocketEnd = p + Len(socket) /\ WriteEnd = SocketEnd + Len(writing)
    BY <2>1 DEF SocketEnd, WriteEnd
  <2>6. SocketEnd' = BufEnd' + Len(socket') /\ WriteEnd' = SocketEnd' + Len(writing')
    BY DEF SocketEnd, WriteEnd
  <2>7. SocketEnd' = SocketEnd /\ WriteEnd' = WriteEnd /\ BufEnd' <= StreamLen
    BY <1>2, <1>3, <1>4, <2>1, <2>3, <2>4, <2>5, <2>6, Z3
  <2>8. IsRun(buf', p) /\ IsRun(socket', p + n)
    BY <1>1, <1>3, <2>1, <2>3, RunSplit
  <2>9. QED
    BY <1>2, <1>6, <2>1, <2>2, <2>3, <2>4, <2>7, <2>8 DEF Intact, IsRun, p
<1>16. Blocked => Blocked'
  BY <1>2, <1>7 DEF Blocked
<1>17. EndOK => EndOK'
  BY <1>2, <1>11 DEF EndOK
<1>18. QED
  BY <1>14, <1>15, <1>16, <1>17 DEF Keeps

\* A chunk the receive buffer takes is taken as a whole.
LEMMA FeedTakenKeeps ==
  ASSUME ConnInv, Intact, reader = "match", read_state = "Idle",
         feed_bytes(buf), Fed(Len(buf)) = Len(buf),
         buf' = <<>>, read_state' \in {"Idle", "Reading"}, reader' = "process",
         UNCHANGED <<writerVars, read_fut, delivered, ending, networkVars>>
  PROVE  ConnInv' /\ Intact' /\ (EndOK => EndOK')
<1>1. /\ UNCHANGED <<writeVars, writerVars, frames, recv_queue>>
      /\ UNCHANGED <<send_buffer, writing, accepted, write_state, socket, fin, broken>>
  BY DEF feed_bytes, writeVars, writerVars, networkVars
<1>2. /\ TypeOK /\ recv_buffer \in Seq(Nat) /\ buf \in Seq(Nat)
      /\ Len(recv_buffer) \in Nat /\ Len(buf) \in Nat
      /\ DecodedBytes \in Nat /\ StreamLen \in Nat
  BY DecodedType, SMTT(30) DEF ConnInv, InOrder, TypeOK, StateTypeOK
<1>3. recv_buffer' = recv_buffer \o buf
  <2>1. SubSeq(buf, 1, Len(buf)) = buf
    <3>1. /\ SubSeq(buf, 1, Len(buf)) \in Seq(Nat)
          /\ Len(SubSeq(buf, 1, Len(buf))) = Len(buf)
          /\ \A i \in 1 .. Len(buf) : SubSeq(buf, 1, Len(buf))[i] = buf[i]
      BY <1>2
    <3>2. QED
      BY <1>2, <3>1, SeqEqual
  <2>2. QED
    BY <2>1 DEF feed_bytes
<1>4. Len(recv_buffer') = Len(recv_buffer) + Len(buf) /\ recv_buffer' \in Seq(Nat)
  BY <1>2, <1>3
<1>5. TypeOK'
  <2>1. StateTypeOK'
    BY <1>1, <1>4 DEF ConnInv, TypeOK, StateTypeOK, writeVars
  <2>2. QED
    BY <1>1, <1>2, <2>1 DEF TypeOK, writerVars
<1>6. /\ AcceptedOK' /\ WriterOK' /\ FlushOK' /\ FramesContiguous' /\ FramesOrdered'
      /\ StreamLen' = StreamLen
  BY <1>1, WriterUnmoved
<1>7. Decoded' = Decoded
  BY <1>1 DEF Decoded
<1>8. DecodedBytes' = DecodedBytes
  BY <1>1, <1>7 DEF DecodedBytes, End
<1>9. InOrder'
  BY <1>1, <1>7 DEF ConnInv, InOrder
<1>10. BufEnd = DecodedBytes + Len(recv_buffer') /\ BufEnd <= StreamLen
  BY <1>2, <1>4 DEF BufEnd, Intact
<1>11. ReceiverBytes'
  <2>1. IsRun(recv_buffer \o buf, DecodedBytes)
    BY <1>2, RunConcat DEF Intact, ConnInv, ReceiverBytes
  <2>2. QED
    BY <1>3, <1>6, <1>8, <1>10, <2>1 DEF ReceiverBytes, IsRun
<1>12. ending # "end" /\ ending # "decode_error"
  BY DEF ConnInv, ReaderOK, FailedAtFront
<1>13. ReaderOK' /\ FailedAtFront'
  BY <1>1, <1>12 DEF ConnInv, ReaderOK, FailedAtFront
<1>14. ConnInv'
  BY <1>5, <1>6, <1>9, <1>11, <1>13 DEF ConnInv
<1>15. Intact'
  <2>1. BufEnd' = BufEnd
    BY <1>2, <1>8, <1>10 DEF BufEnd
  <2>2. SocketEnd' = SocketEnd /\ WriteEnd' = WriteEnd
    BY <1>1, <2>1 DEF SocketEnd, WriteEnd
  <2>3. IsRun(buf', DecodedBytes' + Len(recv_buffer'))
    BY DEF IsRun
  <2>4. QED
    BY <1>1, <1>6, <1>10, <2>1, <2>2, <2>3 DEF Intact, IsRun
<1>16. EndOK => EndOK'
  BY <1>12 DEF EndOK
<1>17. QED
  BY <1>14, <1>15, <1>16

\* A refused chunk leaves the receive buffer as it is.
LEMMA FeedRefused ==
  ASSUME ConnInv, feed_bytes(buf), Fed(Len(buf)) # Len(buf)
  PROVE  Fed(Len(buf)) = 0 /\ UNCHANGED stateVars
<1>1. Fed(Len(buf)) = 0 /\ recv_buffer \in Seq(Nat) /\ buf \in Seq(Nat)
  BY FedFacts, Lengths DEF ConnInv, TypeOK, StateTypeOK
<1>2. SubSeq(buf, 1, 0) = <<>> /\ recv_buffer \o <<>> = recv_buffer
  BY <1>1
<1>3. QED
  BY <1>1, <1>2 DEF feed_bytes, stateVars, writeVars, readVars

\* When the peer has shut down and everything was read, everything was returned.
LEMMA EndSeen ==
  ASSUME ConnInv, Intact, reader = "match", read_state = "Reading",
         fin, ~ broken, socket = <<>>, write_state = "Closing"
  PROVE  delivered = accepted
<1>1. /\ recv_queue = <<>> /\ NoFrame /\ buf = <<>> /\ writing = <<>>
      /\ send_buffer = <<>> /\ sender # "start_send"
  BY DEF ConnInv, ReaderOK, WriterOK
<1>2. /\ Len(buf) = 0 /\ Len(writing) = 0 /\ Len(send_buffer) = 0 /\ Len(socket) = 0
      /\ WriteEnd + Len(send_buffer) = StreamLen
  BY <1>1 DEF Intact
<1>3. DecodedBytes \in Nat /\ Len(recv_buffer) \in Nat
  BY DecodedType, Lengths DEF ConnInv, InOrder
<1>4. DecodedBytes + Len(recv_buffer) = StreamLen
  BY <1>2, <1>3 DEF WriteEnd, SocketEnd, BufEnd
<1>5. QED
  BY <1>1, <1>4, EverythingReturned

\* When every byte flushed was read and no complete frame is left, every
\* message flushed was returned.
LEMMA FlushedReturned ==
  ASSUME ConnInv, Intact, ReaderSleeps
  PROVE  Len(delivered) >= flushed
<1> SUFFICES ASSUME flushed > Len(delivered)
             PROVE  FALSE
  BY DEF ConnInv, TypeOK
<1>1. /\ recv_queue = <<>> /\ NoFrame /\ buf = <<>>
      /\ ~ broken /\ socket = <<>> /\ FlushOK /\ StateTypeOK
      /\ FramesOrdered
  BY DEF ConnInv, ReaderOK, ReaderSleeps, TypeOK
<1>2. /\ Decoded = Len(delivered) /\ Decoded \in Nat /\ flushed \in Nat
      /\ Len(frames) \in Nat /\ DecodedBytes \in Nat /\ StreamLen \in Nat
      /\ Len(recv_buffer) \in Nat /\ Len(writing) \in Nat /\ Len(send_buffer) \in Nat
  BY <1>1, DecodedType, Lengths DEF ConnInv, InOrder, Decoded, TypeOK
<1>3. /\ flushed \in 1 .. Len(frames) /\ Decoded < flushed /\ Decoded < Len(frames)
  BY <1>1, <1>2 DEF FlushOK
<1>4. /\ Decoded + 1 \in 1 .. Len(frames)
      /\ frames[Decoded + 1].start = DecodedBytes
      /\ FrameLen(frames[Decoded + 1].msg) \in Nat
  BY <1>3, NextFrameEnd
<1>5. Len(recv_buffer) < FrameLen(frames[Decoded + 1].msg)
  BY <1>1, <1>3 DEF NoFrame
<1>6. DecodedBytes + Len(recv_buffer) + Len(writing) + Len(send_buffer) = StreamLen
  <2>1. /\ WriteEnd + Len(send_buffer) = StreamLen /\ Len(buf) = 0 /\ Len(socket) = 0
    BY <1>1 DEF Intact
  <2>2. QED
    BY <1>2, <2>1 DEF WriteEnd, SocketEnd, BufEnd
<1>7. Len(writing) + Len(send_buffer) <= StreamLen - End(frames[flushed])
  BY <1>1, <1>3 DEF FlushOK, FlushIsComplete
<1>8. /\ End(frames[Decoded + 1]) <= End(frames[flushed])
      /\ End(frames[flushed]) \in Nat
      /\ End(frames[Decoded + 1]) = DecodedBytes + FrameLen(frames[Decoded + 1].msg)
  <2>1. /\ End(frames[Decoded + 1]) = DecodedBytes + FrameLen(frames[Decoded + 1].msg)
        /\ End(frames[Decoded + 1]) \in Nat
    BY <1>1, <1>4, FrameFacts
  <2>2. /\ End(frames[flushed]) = frames[flushed].start + FrameLen(frames[flushed].msg)
        /\ End(frames[flushed]) \in Nat /\ frames[flushed].start \in Nat
        /\ FrameLen(frames[flushed].msg) \in Nat
    BY <1>1, <1>3, FrameFacts
  <2>3. CASE flushed = Decoded + 1
    BY <2>1, <2>3
  <2>4. CASE Decoded + 1 < flushed
    <3>1. End(frames[Decoded + 1]) <= frames[flushed].start
      BY <1>1, <1>3, <1>4, <2>4 DEF FramesOrdered
    <3>2. QED
      BY <2>1, <2>2, <3>1
  <2>5. Decoded + 1 < flushed \/ flushed = Decoded + 1
    BY <1>2, <1>3
  <2>6. QED
    BY <2>1, <2>2, <2>3, <2>4, <2>5
<1>9. QED
  BY <1>2, <1>4, <1>5, <1>6, <1>7, <1>8, SMTT(30)

-----------------------------------------------------------------------------
(* The shared steps together.                                              *)

SharedStep ==
  \/ \E op \in {"feed", "flush", "close"} : BeginOp(op)
  \/ TakeBatch \/ FlushReady \/ FlushReset \/ StartClosing
  \/ DropConnection \/ BreakConnection
  \/ BeginNext \/ ProcessRead \/ ReturnItem \/ NoItem \/ StartReading \/ ReadPanic
  \/ \E max \in Nat : Read(max)

\* They keep the invariants.
LEMMA SharedKeeps ==
  ASSUME ConnInv, SharedStep
  PROVE  Keeps
BY BeginOpKeeps, TakeBatchKeeps, FlushKeeps, StartClosingKeeps, DropKeeps, BreakKeeps,
   PollNextKeeps, DecodeEndKeeps, DecodeNextKeeps, ReturnItemKeeps, ReadKeeps
   DEF SharedStep

\* start_send and its process keep them.
LEMMA StartSendStepsKeep ==
  ASSUME ConnInv, (\E m \in Message : StartSendStep(m)) \/ ProcessStep
  PROVE  Keeps
BY StartSendKeeps, EncodeNextKeeps, EncodeEndKeeps

\* A step that changes nothing.
LEMMA StutterKeeps ==
  ASSUME ConnInv, UNCHANGED vars
  PROVE  Keeps
<1>1. /\ UNCHANGED <<stateVars, writerVars, readerVars>>
      /\ UNCHANGED <<buf, delivered, socket, fin, broken, ending, accepted, write_state>>
      /\ UNCHANGED <<frames, readVars>>
  <2>1. UNCHANGED <<stateVars, writerVars, readerVars, networkVars>>
    BY DEF vars
  <2>2. QED
    BY <2>1 DEF stateVars, writeVars, writerVars, readerVars, networkVars
<1>2. TypeOK'
  BY DEF ConnInv, TypeOK, StateTypeOK, vars, stateVars, writeVars, readVars, writerVars,
         readerVars, networkVars
<1>3. ReaderOK' /\ FailedAtFront'
  BY <1>1, ReaderUnmoved
<1>4. EndOK => EndOK'
  BY <1>1, EndUnmoved
<1>5. QED
  BY <1>1, <1>2, <1>3, <1>4, ReaderControlKeeps

\* The initial states satisfy them.
LEMMA InitHolds ==
  ASSUME Init
  PROVE  ConnInv /\ Intact /\ EndOK
<1>1. /\ send_queue = <<>> /\ send_buffer = <<>> /\ recv_buffer = <<>>
      /\ recv_queue = <<>> /\ frames = <<>> /\ writing = <<>> /\ socket = <<>>
      /\ buf = <<>> /\ accepted = <<>> /\ delivered = <<>>
  BY DEF Init, StateInit
<1>2. TypeOK
  <2>1. StateTypeOK
    BY <1>1, ConfigAssumption DEF StateTypeOK
  <2>2. Len(socket) <= SocketCapacity
    BY <1>1, SocketAssumption
  <2>3. /\ writing \in Seq(Nat) /\ socket \in Seq(Nat) /\ buf \in Seq(Nat)
        /\ accepted \in Seq(Message) /\ delivered \in Seq(Message)
    BY <1>1
  <2>4. /\ sender = "app" /\ write_state = "Idle" /\ write_fut = "running"
        /\ fin = FALSE /\ broken = FALSE /\ flushed = 0 /\ write_result = "ok"
        /\ reader = "app" /\ read_state = "Idle" /\ read_fut = "running"
        /\ ending = "open"
    BY DEF Init
  <2>5. QED
    BY <2>1, <2>2, <2>3, <2>4 DEF TypeOK
<1>3. Decoded = 0 /\ DecodedBytes = 0 /\ StreamLen = 0 /\ Len(frames) = 0
  BY <1>1 DEF Decoded, DecodedBytes, StreamLen
<1>4. FramesContiguous /\ FramesOrdered
  BY <1>1 DEF FramesContiguous, FramesOrdered
<1>5. InOrder /\ ReceiverBytes
  BY <1>1, <1>3 DEF InOrder, ReceiverBytes, IsRun
<1>6. AcceptedOK
  <2>1. Messages = <<>>
    BY <1>1 DEF Messages
  <2>2. QED
    BY <1>1, <2>1 DEF AcceptedOK, Init
<1>7. WriterOK /\ FlushOK /\ ReaderOK /\ FailedAtFront
  BY <1>1, <1>3 DEF Init, WriterOK, FlushOK, FlushIsComplete, ReaderOK, FailedAtFront
<1>8. BufEnd = 0 /\ SocketEnd = 0 /\ WriteEnd = 0
  BY <1>1, <1>3 DEF BufEnd, SocketEnd, WriteEnd
<1>9. Intact
  BY <1>1, <1>3, <1>8 DEF Intact, IsRun
<1>10. EndOK
  BY DEF Init, EndOK
<1>11. QED
  BY <1>2, <1>4, <1>5, <1>6, <1>7, <1>9, <1>10 DEF ConnInv

-----------------------------------------------------------------------------
(* What the invariants say.                                                *)

\* The properties both adapters have.
LEMMA SafetyFollows ==
  ASSUME ConnInv
  PROVE  /\ TypeOK /\ AcceptedOnStream /\ FlushIsComplete /\ PanicsOnlyAfterEnd
         /\ RefusesOnlyLongFrames
<1>1. PanicsOnlyAfterEnd
  BY DEF ConnInv, WriterOK, ReaderOK, PanicsOnlyAfterEnd
<1>2. RefusesOnlyLongFrames
  <2> SUFFICES ASSUME reader = "match", Fed(Len(buf)) # Len(buf)
               PROVE  LongFrameAtFront
    BY DEF RefusesOnlyLongFrames
  <2>1. Blocked
    BY RefusedBlocks, Lengths DEF ConnInv
  <2>2. QED
    BY <2>1, BlockedByLongFrame
<1>3. QED
  BY <1>1, <1>2 DEF ConnInv, AcceptedOK, AcceptedOnStream, FlushOK

\* The five places hold the stream from the last decoded message on.
LEMMA StreamFollows ==
  ASSUME ConnInv, Intact
  PROVE  StreamIntact
<1> SUFFICES ASSUME ~ broken
             PROVE  /\ Decoded <= Len(frames)
                    /\ IsRun(recv_buffer \o buf \o socket \o writing \o send_buffer,
                             DecodedBytes)
                    /\ DecodedBytes + Len(recv_buffer) + Len(buf) + Len(socket)
                         + Len(writing) + Len(send_buffer) = StreamLen
  BY DEF StreamIntact
<1>1. /\ recv_buffer \in Seq(Nat) /\ buf \in Seq(Nat) /\ socket \in Seq(Nat)
      /\ writing \in Seq(Nat) /\ send_buffer \in Seq(Nat)
      /\ DecodedBytes \in Nat /\ Decoded <= Len(frames)
  BY DecodedType DEF ConnInv, InOrder, TypeOK, StateTypeOK
<1>2. /\ IsRun(recv_buffer, DecodedBytes)
      /\ IsRun(buf, DecodedBytes + Len(recv_buffer))
      /\ IsRun(socket, BufEnd) /\ IsRun(writing, SocketEnd) /\ IsRun(send_buffer, WriteEnd)
      /\ WriteEnd + Len(send_buffer) = StreamLen
  BY DEF ConnInv, ReceiverBytes, Intact
<1> DEFINE s2 == recv_buffer \o buf
           s3 == s2 \o socket
           s4 == s3 \o writing
<1>3. /\ s2 \in Seq(Nat) /\ IsRun(s2, DecodedBytes)
      /\ Len(s2) = Len(recv_buffer) + Len(buf)
  BY <1>1, <1>2, RunConcat
<1> HIDE DEF s2
<1>4. BufEnd = DecodedBytes + Len(s2)
  BY <1>1, <1>3 DEF BufEnd
<1>5. s3 \in Seq(Nat) /\ IsRun(s3, DecodedBytes) /\ Len(s3) = Len(s2) + Len(socket)
  BY <1>1, <1>2, <1>3, <1>4, RunConcat
<1> HIDE DEF s3
<1>6. SocketEnd = DecodedBytes + Len(s3)
  BY <1>1, <1>3, <1>4, <1>5 DEF SocketEnd
<1>7. s4 \in Seq(Nat) /\ IsRun(s4, DecodedBytes) /\ Len(s4) = Len(s3) + Len(writing)
  BY <1>1, <1>2, <1>5, <1>6, RunConcat
<1> HIDE DEF s4
<1>8. WriteEnd = DecodedBytes + Len(s4)
  BY <1>1, <1>5, <1>6, <1>7 DEF WriteEnd
<1>9. IsRun(s4 \o send_buffer, DecodedBytes)
  BY <1>1, <1>2, <1>7, <1>8, RunConcat
<1>10. QED
  BY <1>1, <1>2, <1>9 DEF s2, s3, s4, WriteEnd, SocketEnd, BufEnd

-----------------------------------------------------------------------------
(* Refinement of MessageChannel.                                           *)

\* A step that encodes a message sends it.
LEMMA EncodeSends ==
  ASSUME StateTypeOK, EncodeNext, delivered' = delivered
  PROVE  \E m \in Message : Channel!Send(m)
BY EncodeNextFrames DEF Channel!Send, Messages, FrameMessages

\* A step that returns a message receives the next one sent.
LEMMA ReturnReceives ==
  ASSUME ConnInv, ReturnItem
  PROVE  Channel!Receive
<1>1. /\ StateTypeOK /\ InOrder /\ recv_queue \in Seq(Message)
      /\ Len(recv_queue) \in Nat \ {0} /\ Head(recv_queue) = recv_queue[1]
      /\ Len(delivered) \in Nat /\ Len(frames) \in Nat
      /\ frames' = frames /\ delivered' = Append(delivered, Head(recv_queue))
  BY DEF ConnInv, TypeOK, StateTypeOK, ReturnItem, consume_item, writeVars
<1>2. Len(delivered) + 1 \in 1 .. Decoded /\ Decoded <= Len(frames) /\ Decoded \in Nat
  BY <1>1 DEF InOrder, Decoded
<1>3. /\ recv_queue[1] = frames[Len(delivered) + 1].msg
      /\ frames[Len(delivered) + 1].msg \notin Undecodable
      /\ Len(delivered) + 1 \in 1 .. Len(frames)
  BY <1>1, <1>2 DEF InOrder
<1>4. /\ Len(Messages) = Len(frames)
      /\ Messages[Len(delivered) + 1] = frames[Len(delivered) + 1].msg
  BY <1>1, <1>3, FrameMessagesType DEF Messages, FrameMessages
<1>5. Messages' = Messages
  BY <1>1 DEF Messages
<1>6. QED
  BY <1>1, <1>3, <1>4, <1>5 DEF Channel!Receive

\* The steps that leave the channel alone.
LEMMA QuietStep ==
  ASSUME UNCHANGED <<frames, delivered>>
  PROVE  UNCHANGED <<Messages, delivered>>
BY DEF Messages

\* Of the shared steps and those of start_send, only the encoding and the
\* returning of a message are steps of the channel.
LEMMA SharedRefines ==
  ASSUME ConnInv, SharedStep \/ (\E m \in Message : StartSendStep(m)) \/ ProcessStep
  PROVE  Channel!Next \/ UNCHANGED <<Messages, delivered>>
<1>1. CASE ReturnItem
  BY <1>1, ReturnReceives DEF Channel!Next
<1>2. CASE ProcessStep /\ EncodeNext
  BY <1>2, EncodeSends DEF ProcessStep, readerVars, Channel!Next, ConnInv, TypeOK
<1>3. CASE ProcessStep /\ ~ EncodeNext
  <2>1. UNCHANGED <<frames, delivered>>
    BY <1>3 DEF ProcessStep, EncodeError, EncodeDone, stateVars, writeVars, readerVars
  <2>2. QED
    BY <2>1, QuietStep
<1>4. CASE \E m \in Message : StartSendStep(m)
  BY <1>4, QuietStep DEF StartSendStep, feed_item, readerVars
<1>5. CASE ProcessRead
  <2>1. UNCHANGED <<frames, delivered>>
    BY <1>5 DEF ProcessRead, DecodeNext, DecodeError, DecodeDone, stateVars, writeVars
  <2>2. QED
    BY <2>1, QuietStep
<1>6. CASE SharedStep /\ ~ ProcessRead /\ ~ ReturnItem
  <2>1. UNCHANGED <<frames, delivered>>
    BY <1>6 DEF SharedStep, BeginOp, TakeBatch, consume_all, FlushReady, FlushReset,
       StartClosing, DropConnection, BreakConnection, BeginNext, NoItem, StartReading,
       ReadPanic, Read, stateVars, writeVars, readerVars
  <2>2. QED
    BY <2>1, QuietStep
<1>7. QED
  BY <1>1, <1>2, <1>3, <1>4, <1>5, <1>6 DEF SharedStep

\* After a decoding error they return nothing and report nothing else.
LEMMA SharedFinal ==
  ASSUME ConnInv, SharedStep \/ (\E m \in Message : StartSendStep(m)) \/ ProcessStep,
         ending = "decode_error"
  PROVE  UNCHANGED <<ending, delivered>>
<1>1. reader \in {"app", "process"}
  BY DEF ConnInv, FailedAtFront
<1>2. CASE ProcessRead
  BY <1>2 DEF ProcessRead
<1>3. CASE ProcessStep \/ \E m \in Message : StartSendStep(m)
  BY <1>3 DEF ProcessStep, StartSendStep, readerVars
<1>4. CASE SharedStep /\ ~ ProcessRead
  BY <1>1, <1>4 DEF SharedStep, BeginOp, TakeBatch, FlushReady, FlushReset,
     StartClosing, DropConnection, BreakConnection, BeginNext, NoItem, StartReading,
     ReadPanic, Read, ReturnItem, readerVars
<1>5. QED
  BY <1>2, <1>3, <1>4

-----------------------------------------------------------------------------
(* Every step lowers what is left to happen.                               *)

\* The list, component by component.
LEMMA RankParts ==
  /\ DOMAIN Rank = 1 .. 16
  /\ Rank[1] = Until(broken, TRUE) /\ Rank[2] = SenderRank
  /\ Rank[3] = Len(send_queue) /\ Rank[4] = Len(send_buffer)
  /\ Rank[5] = Len(writing) /\ Rank[6] = WriteStateRank
  /\ Rank[7] = Until(fin, TRUE) /\ Rank[8] = WriteFutRank
  /\ Rank[9] = Until(ending, "end") /\ Rank[10] = Until(read_fut, "done")
  /\ Rank[11] = Len(socket) /\ Rank[12] = Len(buf)
  /\ Rank[13] = Len(recv_buffer) /\ Rank[14] = Len(recv_queue)
  /\ Rank[15] = Until(read_state, "Reading") /\ Rank[16] = ReaderRank
BY DEF Rank

\* The list after a step.
LEMMA RankPartsNext ==
  /\ Rank[1]' = Until(broken, TRUE)' /\ Rank[2]' = SenderRank'
  /\ Rank[3]' = Len(send_queue') /\ Rank[4]' = Len(send_buffer')
  /\ Rank[5]' = Len(writing') /\ Rank[6]' = WriteStateRank'
  /\ Rank[7]' = Until(fin, TRUE)' /\ Rank[8]' = WriteFutRank'
  /\ Rank[9]' = Until(ending, "end")' /\ Rank[10]' = Until(read_fut, "done")'
  /\ Rank[11]' = Len(socket') /\ Rank[12]' = Len(buf')
  /\ Rank[13]' = Len(recv_buffer') /\ Rank[14]' = Len(recv_queue')
  /\ Rank[15]' = Until(read_state, "Reading")' /\ Rank[16]' = ReaderRank'
BY DEF Rank

\* The components before the n-th are unchanged.
KeptBelow(n) == \A k \in 1 .. n - 1 : Rank[k]' = Rank[k]

\* A step that lowers a component and keeps those before it.
LEMMA LowerAt ==
  ASSUME NEW n \in 1 .. 16, KeptBelow(n), Rank[n]' < Rank[n]
  PROVE  Advance
<1>1. n \in DOMAIN Rank
  BY RankParts
<1>2. QED
  BY <1>1, Zenon DEF Advance, KeptBelow

\* The components before the next are unchanged too.
LEMMA KeptNext ==
  ASSUME NEW n \in 1 .. 16, KeptBelow(n), Rank[n]' = Rank[n]
  PROVE  KeptBelow(n + 1)
<1>1. \A k \in 1 .. (n + 1) - 1 : k = n \/ k \in 1 .. n - 1
  OBVIOUS
<1>2. QED
  BY <1>1, Zenon DEF KeptBelow

\* A step that leaves what a component is about.
LEMMA SameParts ==
  /\ UNCHANGED broken => Rank[1]' = Rank[1]
  /\ UNCHANGED sender => Rank[2]' = Rank[2]
  /\ UNCHANGED send_queue => Rank[3]' = Rank[3]
  /\ UNCHANGED send_buffer => Rank[4]' = Rank[4]
  /\ UNCHANGED writing => Rank[5]' = Rank[5]
  /\ UNCHANGED write_state => Rank[6]' = Rank[6]
  /\ UNCHANGED fin => Rank[7]' = Rank[7]
  /\ UNCHANGED write_fut => Rank[8]' = Rank[8]
  /\ UNCHANGED ending => Rank[9]' = Rank[9]
  /\ UNCHANGED read_fut => Rank[10]' = Rank[10]
  /\ UNCHANGED socket => Rank[11]' = Rank[11]
  /\ UNCHANGED buf => Rank[12]' = Rank[12]
  /\ UNCHANGED recv_buffer => Rank[13]' = Rank[13]
  /\ UNCHANGED recv_queue => Rank[14]' = Rank[14]
  /\ UNCHANGED read_state => Rank[15]' = Rank[15]
<1>1. /\ UNCHANGED broken => Until(broken, TRUE)' = Until(broken, TRUE)
      /\ UNCHANGED fin => Until(fin, TRUE)' = Until(fin, TRUE)
      /\ UNCHANGED write_fut => WriteFutRank' = WriteFutRank
      /\ UNCHANGED ending => Until(ending, "end")' = Until(ending, "end")
      /\ UNCHANGED read_fut => Until(read_fut, "done")' = Until(read_fut, "done")
      /\ UNCHANGED read_state => Until(read_state, "Reading")' = Until(read_state, "Reading")
  BY DEF Until, WriteFutRank
<1>2. /\ UNCHANGED sender => SenderRank' = SenderRank
      /\ UNCHANGED write_state => WriteStateRank' = WriteStateRank
  BY DEF SenderRank, WriteStateRank
<1>3. /\ UNCHANGED send_queue => Len(send_queue') = Len(send_queue)
      /\ UNCHANGED send_buffer => Len(send_buffer') = Len(send_buffer)
      /\ UNCHANGED writing => Len(writing') = Len(writing)
      /\ UNCHANGED socket => Len(socket') = Len(socket)
      /\ UNCHANGED buf => Len(buf') = Len(buf)
      /\ UNCHANGED recv_buffer => Len(recv_buffer') = Len(recv_buffer)
      /\ UNCHANGED recv_queue => Len(recv_queue') = Len(recv_queue)
  OBVIOUS
<1>4. /\ UNCHANGED broken => Rank[1]' = Rank[1]
      /\ UNCHANGED fin => Rank[7]' = Rank[7]
      /\ UNCHANGED write_fut => Rank[8]' = Rank[8]
      /\ UNCHANGED ending => Rank[9]' = Rank[9]
      /\ UNCHANGED read_fut => Rank[10]' = Rank[10]
      /\ UNCHANGED read_state => Rank[15]' = Rank[15]
  BY <1>1, RankParts, RankPartsNext, Zenon
<1>5. /\ UNCHANGED sender => Rank[2]' = Rank[2]
      /\ UNCHANGED write_state => Rank[6]' = Rank[6]
  BY <1>2, RankParts, RankPartsNext, Zenon
<1>6. /\ UNCHANGED send_queue => Rank[3]' = Rank[3]
      /\ UNCHANGED send_buffer => Rank[4]' = Rank[4]
      /\ UNCHANGED writing => Rank[5]' = Rank[5]
      /\ UNCHANGED socket => Rank[11]' = Rank[11]
      /\ UNCHANGED buf => Rank[12]' = Rank[12]
      /\ UNCHANGED recv_buffer => Rank[13]' = Rank[13]
      /\ UNCHANGED recv_queue => Rank[14]' = Rank[14]
  BY <1>3, RankParts, RankPartsNext, Zenon
<1>7. QED
  BY <1>4, <1>5, <1>6

\* The sending task's part of the list, and what it is about.
SenderUnmoved ==
  UNCHANGED <<broken, sender, send_queue, send_buffer, writing, write_state, fin,
              write_fut>>

\* The first components, as far as a step leaves what they are about.
LEMMA KeptParts ==
  /\ KeptBelow(1)
  /\ UNCHANGED broken => KeptBelow(2)
  /\ UNCHANGED <<broken, sender>> => KeptBelow(3)
  /\ UNCHANGED <<broken, sender, send_queue>> => KeptBelow(4)
  /\ UNCHANGED <<broken, sender, send_queue, send_buffer>> => KeptBelow(5)
  /\ SenderUnmoved => KeptBelow(9)
<1>1. KeptBelow(1)
  BY DEF KeptBelow
<1>2. UNCHANGED broken => KeptBelow(2)
  BY <1>1, KeptNext, SameParts
<1>3. UNCHANGED <<broken, sender>> => KeptBelow(3)
  BY <1>2, KeptNext, SameParts
<1>4. UNCHANGED <<broken, sender, send_queue>> => KeptBelow(4)
  BY <1>3, KeptNext, SameParts
<1>5. UNCHANGED <<broken, sender, send_queue, send_buffer>> => KeptBelow(5)
  BY <1>4, KeptNext, SameParts
<1>6. SenderUnmoved => KeptBelow(9)
  <2> SUFFICES ASSUME SenderUnmoved
               PROVE  KeptBelow(9)
    OBVIOUS
  <2>1. KeptBelow(6)
    BY <1>5, KeptNext, SameParts DEF SenderUnmoved
  <2>2. KeptBelow(7)
    BY <2>1, KeptNext, SameParts DEF SenderUnmoved
  <2>3. KeptBelow(8)
    BY <2>2, KeptNext, SameParts DEF SenderUnmoved
  <2>4. QED
    BY <2>3, KeptNext, SameParts DEF SenderUnmoved
<1>7. QED
  BY <1>1, <1>2, <1>3, <1>4, <1>5, <1>6

\* A reset, and a step of the sending task other than a write.
LEMMA SenderLowers ==
  ASSUME \/ broken # TRUE /\ broken' = TRUE
         \/ UNCHANGED broken /\ SenderRank' < SenderRank
         \/ /\ UNCHANGED <<broken, sender>>
            /\ Len(send_queue') < Len(send_queue)
         \/ /\ UNCHANGED <<broken, sender, send_queue>>
            /\ Len(send_buffer') < Len(send_buffer)
  PROVE  Advance
<1>1. CASE broken # TRUE /\ broken' = TRUE
  <2>1. Until(broken, TRUE) = 1 /\ Until(broken, TRUE)' = 0
    BY <1>1, Zenon DEF Until
  <2>2. Rank[1] = 1 /\ Rank[1]' = 0
    BY <2>1, RankParts, RankPartsNext, Zenon
  <2>3. QED
    BY <2>2, LowerAt, KeptParts
<1>2. CASE UNCHANGED broken /\ SenderRank' < SenderRank
  <2>1. Rank[2]' < Rank[2]
    BY <1>2, RankParts, RankPartsNext
  <2>2. QED
    BY <1>2, <2>1, LowerAt, KeptParts
<1>3. CASE UNCHANGED <<broken, sender>> /\ Len(send_queue') < Len(send_queue)
  <2>1. Rank[3]' < Rank[3]
    BY <1>3, RankParts, RankPartsNext
  <2>2. QED
    BY <1>3, <2>1, LowerAt, KeptParts
<1>4. CASE UNCHANGED <<broken, sender, send_queue>> /\ Len(send_buffer') < Len(send_buffer)
  <2>1. Rank[4]' < Rank[4]
    BY <1>4, RankParts, RankPartsNext
  <2>2. QED
    BY <1>4, <2>1, LowerAt, KeptParts
<1>5. QED
  BY <1>1, <1>2, <1>3, <1>4

\* A step that writes, or ends what the connection was doing.
LEMMA WriteLowers ==
  ASSUME UNCHANGED <<broken, sender, send_queue, send_buffer>>,
         \/ Len(writing') < Len(writing)
         \/ UNCHANGED writing /\ WriteStateRank' < WriteStateRank
         \/ UNCHANGED <<writing, write_state>> /\ fin # TRUE /\ fin' = TRUE
         \/ /\ UNCHANGED <<writing, write_state, fin>>
            /\ write_fut = "written" /\ write_fut' # "written"
  PROVE  Advance
<1>1. KeptBelow(5)
  BY KeptParts
<1>2. CASE Len(writing') < Len(writing)
  <2>1. Rank[5]' < Rank[5]
    BY <1>2, RankParts, RankPartsNext
  <2>2. QED
    BY <1>1, <2>1, LowerAt
<1>3. ASSUME UNCHANGED writing
      PROVE  KeptBelow(6)
  BY <1>1, <1>3, KeptNext, SameParts
<1>4. CASE UNCHANGED writing /\ WriteStateRank' < WriteStateRank
  <2>1. Rank[6]' < Rank[6]
    BY <1>4, RankParts, RankPartsNext
  <2>2. QED
    BY <1>3, <1>4, <2>1, LowerAt
<1>5. ASSUME UNCHANGED <<writing, write_state>>
      PROVE  KeptBelow(7)
  BY <1>3, <1>5, KeptNext, SameParts
<1>6. CASE UNCHANGED <<writing, write_state>> /\ fin # TRUE /\ fin' = TRUE
  <2>1. Until(fin, TRUE) = 1 /\ Until(fin, TRUE)' = 0
    BY <1>6, Zenon DEF Until
  <2>2. Rank[7] = 1 /\ Rank[7]' = 0
    BY <2>1, RankParts, RankPartsNext, Zenon
  <2>3. QED
    BY <1>5, <1>6, <2>2, LowerAt
<1>7. CASE /\ UNCHANGED <<writing, write_state, fin>>
           /\ write_fut = "written" /\ write_fut' # "written"
  <2>1. Rank[8]' < Rank[8]
    BY <1>7, RankParts, RankPartsNext DEF Until, WriteFutRank
  <2>2. KeptBelow(8)
    BY <1>5, <1>7, KeptNext, SameParts
  <2>3. QED
    BY <2>1, <2>2, LowerAt
<1>8. QED
  BY <1>2, <1>4, <1>6, <1>7

\* A step of the receiving task that ends the stream, or reads from the socket.
LEMMA ReadLowers ==
  ASSUME SenderUnmoved,
         \/ ending # "end" /\ ending' = "end"
         \/ /\ ending # "end" /\ ending' # "end"
            /\ read_fut # "done" /\ read_fut' = "done"
         \/ UNCHANGED <<ending, read_fut>> /\ Len(socket') < Len(socket)
  PROVE  Advance
<1>1. KeptBelow(9)
  BY KeptParts
<1>2. CASE ending # "end" /\ ending' = "end"
  <2>1. Rank[9]' < Rank[9]
    BY <1>2, RankParts, RankPartsNext DEF Until, WriteFutRank
  <2>2. QED
    BY <1>1, <2>1, LowerAt
<1>3. CASE /\ ending # "end" /\ ending' # "end"
           /\ read_fut # "done" /\ read_fut' = "done"
  <2>1. Rank[9]' = Rank[9] /\ Rank[10]' < Rank[10]
    BY <1>3, RankParts, RankPartsNext DEF Until, WriteFutRank
  <2>2. KeptBelow(10)
    BY <1>1, <2>1, KeptNext
  <2>3. QED
    BY <2>1, <2>2, LowerAt
<1>4. CASE UNCHANGED <<ending, read_fut>> /\ Len(socket') < Len(socket)
  <2>1. Rank[11]' < Rank[11]
    BY <1>4, RankParts, RankPartsNext
  <2>2. KeptBelow(10)
    BY <1>1, <1>4, KeptNext, SameParts
  <2>3. KeptBelow(11)
    BY <1>4, <2>2, KeptNext, SameParts
  <2>4. QED
    BY <2>1, <2>3, LowerAt
<1>5. QED
  BY <1>2, <1>3, <1>4

\* A step of the receiving task that does not read.
LEMMA PollLowers ==
  ASSUME SenderUnmoved, UNCHANGED <<ending, read_fut, socket>>,
         \/ Len(buf') < Len(buf)
         \/ UNCHANGED buf /\ Len(recv_buffer') < Len(recv_buffer)
         \/ UNCHANGED <<buf, recv_buffer>> /\ Len(recv_queue') < Len(recv_queue)
         \/ /\ UNCHANGED <<buf, recv_buffer, recv_queue>>
            /\ read_state # "Reading" /\ read_state' = "Reading"
         \/ /\ UNCHANGED <<buf, recv_buffer, recv_queue, read_state>>
            /\ ReaderRank' < ReaderRank
  PROVE  Advance
<1>1. KeptBelow(12)
  <2>1. KeptBelow(9)
    BY KeptParts
  <2>2. KeptBelow(10)
    BY <2>1, KeptNext, SameParts
  <2>3. KeptBelow(11)
    BY <2>2, KeptNext, SameParts
  <2>4. QED
    BY <2>3, KeptNext, SameParts
<1>2. CASE Len(buf') < Len(buf)
  <2>1. Rank[12]' < Rank[12]
    BY <1>2, RankParts, RankPartsNext
  <2>2. QED
    BY <1>1, <2>1, LowerAt
<1>3. ASSUME UNCHANGED buf
      PROVE  KeptBelow(13)
  BY <1>1, <1>3, KeptNext, SameParts
<1>4. CASE UNCHANGED buf /\ Len(recv_buffer') < Len(recv_buffer)
  <2>1. Rank[13]' < Rank[13]
    BY <1>4, RankParts, RankPartsNext
  <2>2. QED
    BY <1>3, <1>4, <2>1, LowerAt
<1>5. ASSUME UNCHANGED <<buf, recv_buffer>>
      PROVE  KeptBelow(14)
  BY <1>3, <1>5, KeptNext, SameParts
<1>6. CASE UNCHANGED <<buf, recv_buffer>> /\ Len(recv_queue') < Len(recv_queue)
  <2>1. Rank[14]' < Rank[14]
    BY <1>6, RankParts, RankPartsNext
  <2>2. QED
    BY <1>5, <1>6, <2>1, LowerAt
<1>7. ASSUME UNCHANGED <<buf, recv_buffer, recv_queue>>
      PROVE  KeptBelow(15)
  BY <1>5, <1>7, KeptNext, SameParts
<1>8. CASE /\ UNCHANGED <<buf, recv_buffer, recv_queue>>
           /\ read_state # "Reading" /\ read_state' = "Reading"
  <2>1. Rank[15]' < Rank[15]
    BY <1>8, RankParts, RankPartsNext DEF Until, WriteFutRank
  <2>2. QED
    BY <1>7, <1>8, <2>1, LowerAt
<1>9. CASE /\ UNCHANGED <<buf, recv_buffer, recv_queue, read_state>>
           /\ ReaderRank' < ReaderRank
  <2>1. Rank[16]' < Rank[16]
    BY <1>9, RankParts, RankPartsNext
  <2>2. KeptBelow(16)
    BY <1>7, <1>9, KeptNext, SameParts
  <2>3. QED
    BY <2>1, <2>2, LowerAt
<1>10. QED
  BY <1>2, <1>4, <1>6, <1>8, <1>9

\* An operation that goes on or ends.
LEMMA SenderStepAdvances ==
  ASSUME ConnInv,
         \/ TakeBatch \/ FlushReady \/ FlushReset \/ StartClosing
         \/ DropConnection \/ BreakConnection
  PROVE  Advance
<1>1. CASE TakeBatch
  <2>1. /\ UNCHANGED <<broken, sender, send_queue>>
        /\ send_buffer # <<>> /\ send_buffer' = <<>>
    BY <1>1 DEF TakeBatch, consume_all, networkVars
  <2>2. Len(send_buffer') < Len(send_buffer)
    BY <2>1 DEF ConnInv, TypeOK, StateTypeOK
  <2>3. QED
    BY <2>1, <2>2, SenderLowers
<1>2. CASE FlushReady \/ FlushReset
  <2>1. UNCHANGED broken /\ sender = "flush" /\ sender' = "app"
    BY <1>2 DEF FlushReady, FlushReset, networkVars
  <2>2. SenderRank = 3 /\ SenderRank' = 1
    BY <2>1 DEF SenderRank
  <2>3. QED
    BY <2>1, <2>2, SenderLowers
<1>3. CASE StartClosing
  <2>1. /\ UNCHANGED <<broken, sender, send_queue, send_buffer, writing>>
        /\ write_state = "Idle" /\ write_state' = "Closing"
    BY <1>3 DEF StartClosing, WriterIdle, networkVars, stateVars, writeVars
  <2>2. WriteStateRank = 1 /\ WriteStateRank' = 0
    BY <2>1 DEF WriteStateRank
  <2>3. QED
    BY <2>1, <2>2, WriteLowers
<1>4. CASE DropConnection
  <2>1. UNCHANGED broken /\ sender = "app" /\ sender' = "dropped"
    BY <1>4 DEF DropConnection
  <2>2. SenderRank = 1 /\ SenderRank' = 0
    BY <2>1 DEF SenderRank
  <2>3. QED
    BY <2>1, <2>2, SenderLowers
<1>5. CASE BreakConnection
  <2>1. broken # TRUE /\ broken' = TRUE
    BY <1>5 DEF BreakConnection
  <2>2. QED
    BY <2>1, SenderLowers
<1>6. QED
  BY <1>1, <1>2, <1>3, <1>4, <1>5

\* start_send takes the message, and its process encodes it or gives it up.
LEMMA StartSendAdvances ==
  ASSUME ConnInv, (\E m \in Message : StartSendStep(m)) \/ ProcessStep
  PROVE  Advance
<1>1. UNCHANGED broken
  BY DEF StartSendStep, ProcessStep, networkVars
<1>2. CASE \E m \in Message : StartSendStep(m)
  <2>1. sender = "feed" /\ sender' = "start_send"
    BY <1>2 DEF StartSendStep
  <2>2. SenderRank = 3 /\ SenderRank' = 2
    BY <2>1 DEF SenderRank
  <2>3. QED
    BY <1>1, <2>2, SenderLowers
<1>3. CASE ProcessStep /\ EncodeNext /\ UNCHANGED sender
  <2>1. send_queue \in Seq(Message) /\ send_queue # <<>> /\ send_queue' = Tail(send_queue)
    BY <1>3 DEF EncodeNext, ConnInv, TypeOK, StateTypeOK
  <2>2. Len(send_queue') < Len(send_queue)
    BY <2>1
  <2>3. QED
    BY <1>1, <1>3, <2>2, SenderLowers
<1>4. CASE sender = "start_send" /\ sender' = "app"
  <2>1. SenderRank = 2 /\ SenderRank' = 1
    BY <1>4 DEF SenderRank
  <2>2. QED
    BY <1>1, <2>1, SenderLowers
<1>5. QED
  BY <1>2, <1>3, <1>4 DEF ProcessStep

\* A turn of poll_next.
LEMMA PollNextAdvances ==
  ASSUME ConnInv, BeginNext \/ NoItem \/ StartReading \/ ReadPanic \/ ReturnItem
  PROVE  Advance
<1>1. SenderUnmoved /\ UNCHANGED <<ending, read_fut, socket, buf, recv_buffer>>
  BY DEF BeginNext, NoItem, StartReading, ReadPanic, ReturnItem, consume_item,
         SenderUnmoved, writerVars, networkVars, stateVars, writeVars, readVars
<1>2. CASE BeginNext \/ NoItem \/ ReadPanic
  <2>1. UNCHANGED <<recv_queue, read_state>>
    BY <1>2 DEF BeginNext, NoItem, ReadPanic, stateVars, readVars
  <2>2. ReaderRank' < ReaderRank
    BY <1>2 DEF BeginNext, NoItem, ReadPanic, ReaderRank
  <2>3. QED
    BY <1>1, <2>1, <2>2, PollLowers
<1>3. CASE StartReading
  <2>1. UNCHANGED recv_queue /\ read_state # "Reading" /\ read_state' = "Reading"
    BY <1>3 DEF StartReading, stateVars, readVars
  <2>2. QED
    BY <1>1, <2>1, PollLowers
<1>4. CASE ReturnItem
  <2>1. recv_queue \in Seq(Message) /\ recv_queue # <<>> /\ recv_queue' = Tail(recv_queue)
    BY <1>4 DEF ReturnItem, consume_item, ConnInv, TypeOK, StateTypeOK
  <2>2. Len(recv_queue') < Len(recv_queue)
    BY <2>1
  <2>3. QED
    BY <1>1, <2>2, PollLowers
<1>5. QED
  BY <1>2, <1>3, <1>4

\* A turn of the loop that decodes, which stops at an undecodable message.
LEMMA ProcessReadAdvances ==
  ASSUME ConnInv, ProcessRead
  PROVE  MeetsUndecodable \/ Advance
<1>1. SenderUnmoved /\ UNCHANGED <<read_fut, socket, buf, read_state>>
  BY DEF ProcessRead, DecodeNext, DecodeError, DecodeDone, SenderUnmoved, writerVars,
         networkVars, stateVars, writeVars
<1>2. CASE DecodeNext /\ UNCHANGED <<reader, ending>>
  <2>1. PICK i \in DOMAIN frames :
          /\ FrontComplete(i)
          /\ recv_buffer' =
               SubSeq(recv_buffer, FrameLen(frames[i].msg) + 1, Len(recv_buffer))
    BY <1>2 DEF DecodeNext
  <2>2. /\ recv_buffer \in Seq(Nat) /\ Len(recv_buffer) \in Nat
        /\ FrameLen(frames[i].msg) \in Nat \ {0}
        /\ FrameLen(frames[i].msg) <= Len(recv_buffer)
    <3>1. StateTypeOK /\ frames \in Seq(Frame)
      BY DEF ConnInv, TypeOK, StateTypeOK
    <3>2. i \in 1 .. Len(frames)
      BY <2>1, <3>1
    <3>3. recv_buffer \in Seq(Nat) /\ Len(recv_buffer) \in Nat
      BY <3>1 DEF StateTypeOK
    <3>4. FrameLen(frames[i].msg) \in Nat \ {0}
      BY <3>1, <3>2, FrameFacts
    <3>5. FrameLen(frames[i].msg) <= Len(recv_buffer)
      BY <2>1 DEF FrontComplete
    <3>6. QED
      BY <3>3, <3>4, <3>5
  <2>3. Len(recv_buffer') = Len(recv_buffer) - FrameLen(frames[i].msg)
    BY <2>1, <2>2
  <2>4. Len(recv_buffer') < Len(recv_buffer)
    BY <2>2, <2>3
  <2>5. QED
    BY <1>1, <1>2, <2>4, PollLowers
<1>3. CASE DecodeError /\ reader' = "app"
  BY <1>3 DEF ProcessRead, MeetsUndecodable
<1>4. CASE DecodeDone /\ reader' = "item" /\ UNCHANGED ending
  <2>1. UNCHANGED <<recv_buffer, recv_queue>>
    BY <1>4 DEF DecodeDone, stateVars, readVars
  <2>2. ReaderRank = 3 /\ ReaderRank' = 2
    BY <1>4 DEF ProcessRead, ReaderRank
  <2>3. QED
    BY <1>1, <1>4, <2>1, <2>2, PollLowers
<1>5. QED
  BY <1>2, <1>3, <1>4 DEF ProcessRead

\* A read takes bytes off the socket.
LEMMA ReadAdvances ==
  ASSUME ConnInv, NEW max \in Nat, Read(max)
  PROVE  Advance
<1>1. SenderUnmoved /\ UNCHANGED <<ending, read_fut>>
  BY DEF Read, SenderUnmoved, writerVars, stateVars, writeVars
<1>2. PICK n \in 1 .. max :
        n <= Len(socket) /\ socket' = SubSeq(socket, n + 1, Len(socket))
  BY DEF Read
<1>3. socket \in Seq(Nat) /\ Len(socket) \in Nat
  BY DEF ConnInv, TypeOK
<1>4. Len(socket') = Len(socket) - n
  BY <1>2, <1>3
<1>5. Len(socket') < Len(socket)
  BY <1>2, <1>3, <1>4
<1>6. QED
  BY <1>1, <1>5, ReadLowers

\* The shared steps.
LEMMA SharedAdvances ==
  ASSUME ConnInv, SharedStep
  PROVE  StepAdvances
BY SenderStepAdvances, PollNextAdvances, ProcessReadAdvances, ReadAdvances, Zenon
   DEF SharedStep, StepAdvances

\* A step by which the sending task's operation ends.
LEMMA OperationEnds ==
  ASSUME UNCHANGED broken, sender \in {"feed", "flush", "close"},
         sender' \in {"app", "panicked"}
  PROVE  StepAdvances
<1>1. SenderRank = 3 /\ SenderRank' < 3
  BY DEF SenderRank
<1>2. QED
  BY <1>1, SenderLowers DEF StepAdvances

\* A write of what the socket has room for.
LEMMA WriteAdvances ==
  ASSUME ConnInv, Room > 0, writing # <<>>,
         writing' = SubSeq(writing, Written + 1, Len(writing)),
         UNCHANGED <<broken, sender, send_queue, send_buffer>>
  PROVE  StepAdvances
<1>1. /\ writing \in Seq(Nat) /\ Len(writing) \in Nat /\ Len(writing) # 0
      /\ Room \in Nat
  BY SocketAssumption DEF ConnInv, TypeOK, Room
<1>2. Written \in 1 .. Len(writing)
  BY <1>1 DEF Written
<1>3. Len(writing') = Len(writing) - Written
  BY <1>1, <1>2
<1>4. Len(writing') < Len(writing)
  BY <1>1, <1>2, <1>3
<1>5. QED
  BY <1>4, WriteLowers DEF StepAdvances

-----------------------------------------------------------------------------
(* A pending write has somebody to wait for.                               *)

\* Only a reset makes a read fail, and nothing undoes it.
FailsByReset == ending = "io_error" => broken

\* The steps that are not a read's end.
LEMMA SharedFailsByReset ==
  ASSUME FailsByReset,
         SharedStep \/ (\E m \in Message : StartSendStep(m)) \/ ProcessStep
  PROVE  FailsByReset'
<1>1. CASE ProcessRead
  BY <1>1 DEF ProcessRead, FailsByReset, networkVars
<1>2. CASE BreakConnection
  BY <1>2 DEF BreakConnection, FailsByReset
<1>3. CASE ~ ProcessRead /\ ~ BreakConnection
  <2>1. UNCHANGED <<ending, broken>>
    BY <1>3 DEF SharedStep, StartSendStep, ProcessStep, BeginOp, TakeBatch, FlushReady,
       FlushReset, StartClosing, DropConnection, BeginNext, ReturnItem, NoItem,
       StartReading, ReadPanic, Read, readerVars, networkVars
  <2>2. QED
    BY <2>1 DEF FailsByReset
<1>4. QED
  BY <1>1, <1>2, <1>3

\* While a write waits for room, the receiving task has something to read.
LEMMA WaitsForReader ==
  ASSUME ConnInv, FailsByReset
  PROVE  PendingWriteHasReader
<1> SUFFICES ASSUME WriteWaits
             PROVE  /\ reader # "panicked" /\ ending # "end"
                    /\ reader = "match" /\ read_state = "Reading"
                         => socket # <<>> /\ read_fut = "running"
  BY DEF PendingWriteHasReader
<1>1. ~ broken /\ ~ fin
  BY DEF WriteWaits, ConnInv, WriterOK
<1>2. ending # "io_error"
  BY <1>1 DEF FailsByReset
<1>3. reader # "panicked" /\ ending # "end"
  BY <1>1, <1>2 DEF ConnInv, ReaderOK
<1>4. socket # <<>>
  BY SocketAssumption DEF WriteWaits, Room
<1>5. ASSUME reader = "match"
      PROVE  read_fut = "running"
  <2>1. ending = "open"
    BY <1>2, <1>3, <1>5 DEF ConnInv, TypeOK, FailedAtFront
  <2>2. QED
    BY <2>1 DEF ConnInv, TypeOK, ReaderOK
<1>6. QED
  BY <1>3, <1>4, <1>5

=============================================================================
