--------------------------- MODULE ConnectionState ---------------------------
(***************************************************************************)
(* The sans-io protocol state of sansrpc-proto (connection_state.rs): the  *)
(* write half turns queued messages into length-prefixed frames, the read  *)
(* half turns the bytes of the peer's frames back into messages.  Neither  *)
(* half does any I/O; a driver moves bytes (FramedLink) or an adapter owns *)
(* a socket (TokioConnection).                                             *)
(*                                                                         *)
(* The module describes one direction: the write half of the sending peer  *)
(* and the read half of the receiving one.  into_split shows that the two  *)
(* halves of one ConnectionState share nothing, so a full connection is    *)
(* two independent copies of this direction.                               *)
(*                                                                         *)
(* A byte is abstracted to its position in the sender's outgoing byte      *)
(* stream.  frames, a history variable, says what that stream holds: frame *)
(* i carries message frames[i].msg and its bytes are the FrameLen bytes    *)
(* after position frames[i].start.                                         *)
(*                                                                         *)
(* An operator whose name ends in _mutant is the definition it is named    *)
(* after with a plausible mistake; PROJECT.json says which property        *)
(* notices it.                                                             *)
(***************************************************************************)
EXTENDS Naturals, Sequences

CONSTANTS
  Message,         \* the messages applications exchange
  HeaderLen,       \* bytes of a length prefix: 8, a u64, in the code
  BodyLen,         \* BodyLen[m]: how many bytes the coder makes of m
  Unencodable,     \* messages the sender's coder rejects
  Undecodable,     \* messages the receiver's coder rejects
  SendQueueSize,   \* WriteConnectionConfig.send_queue_size
  RecvQueueSize,   \* ReadConnectionConfig.recv_queue_size
  RecvBufferSize   \* ReadConnectionConfig.recv_buffer_size

(***************************************************************************)
(* The three sizes are NonZeroUsize.                                       *)
(***************************************************************************)
ASSUME ConfigAssumption ==
  /\ HeaderLen \in Nat \ {0}
  /\ BodyLen \in [Message -> Nat]
  /\ Unencodable \subseteq Message
  /\ Undecodable \subseteq Message
  /\ SendQueueSize \in Nat \ {0}
  /\ RecvQueueSize \in Nat \ {0}
  /\ RecvBufferSize \in Nat \ {0}

VARIABLES
  send_queue,      \* messages accepted and not yet encoded
  send_buffer,     \* encoded bytes not yet consumed
  recv_buffer,     \* bytes received and not yet decoded
  recv_queue,      \* messages decoded and not yet consumed
  frames           \* history: the frames encoded so far

writeVars == <<send_queue, send_buffer, frames>>
readVars  == <<recv_buffer, recv_queue>>
stateVars == <<writeVars, readVars>>

Frame == [msg : Message, start : Nat]

FrameLen(m) == HeaderLen + BodyLen[m]
End(f)      == f.start + FrameLen(f.msg)

\* The number of bytes the sender has encoded so far.
StreamLen == IF frames = <<>> THEN 0 ELSE End(frames[Len(frames)])

\* The n bytes that follow position p of the stream.
Bytes(p, n) == [i \in 1 .. n |-> p + i]

\* The bytes of s are those that follow position p of the stream.
IsRun(s, p) == \A x \in 1 .. Len(s) : s[x] = p + x

StateTypeOK ==
  /\ send_queue \in Seq(Message)
  /\ Len(send_queue) <= SendQueueSize
  /\ send_buffer \in Seq(Nat)
  /\ recv_buffer \in Seq(Nat)
  /\ recv_queue \in Seq(Message)
  /\ Len(recv_queue) <= RecvQueueSize
  /\ frames \in Seq(Frame)

StateInit ==
  /\ send_queue = <<>>
  /\ send_buffer = <<>>
  /\ recv_buffer = <<>>
  /\ recv_queue = <<>>
  /\ frames = <<>>

-----------------------------------------------------------------------------
(* The write half: ConnectionWriteState.                                   *)

SendQueueFull == Len(send_queue) >= SendQueueSize

\* The check of the size is forgotten.
feed_item_mutant(m) ==
  /\ send_queue' = Append(send_queue, m)
  /\ UNCHANGED <<send_buffer, frames, readVars>>

\* A full queue hands the message back to the caller.
feed_item(m) ==
  /\ send_queue' = IF SendQueueFull THEN send_queue ELSE Append(send_queue, m)
  /\ UNCHANGED <<send_buffer, frames, readVars>>

(***************************************************************************)
(* process() of the write half is a loop; these are its turns.  The caller *)
(* holds the half exclusively until EncodeError or EncodeDone returns.     *)
(***************************************************************************)
EncodeNext ==
  /\ send_queue # <<>>
  /\ Head(send_queue) \notin Unencodable
  /\ send_queue' = Tail(send_queue)
  /\ send_buffer' = send_buffer \o Bytes(StreamLen, FrameLen(Head(send_queue)))
  /\ frames' = Append(frames, [msg |-> Head(send_queue), start |-> StreamLen])
  /\ UNCHANGED readVars

\* The queue is dropped with the message.
EncodeError_mutant ==
  /\ send_queue # <<>>
  /\ Head(send_queue) \in Unencodable
  /\ send_queue' = <<>>
  /\ UNCHANGED <<send_buffer, frames, readVars>>

\* The message is popped only once it is encoded.
EncodeError_keep_mutant ==
  /\ send_queue # <<>>
  /\ Head(send_queue) \in Unencodable
  /\ UNCHANGED stateVars

\* The message is popped before it is encoded, so a rejected one is gone.
EncodeError ==
  /\ send_queue # <<>>
  /\ Head(send_queue) \in Unencodable
  /\ send_queue' = Tail(send_queue)
  /\ UNCHANGED <<send_buffer, frames, readVars>>

EncodeDone ==
  /\ send_queue = <<>>
  /\ UNCHANGED stateVars

\* What consume_bytes(len) returns: everything when fewer than len are left.
BytesConsumed(len) ==
  IF Len(send_buffer) < len THEN send_buffer ELSE SubSeq(send_buffer, 1, len)

\* With an empty buffer consume_bytes and consume_all return None.
consume_bytes(len) ==
  /\ send_buffer # <<>>
  /\ send_buffer' = SubSeq(send_buffer, Len(BytesConsumed(len)) + 1, Len(send_buffer))
  /\ UNCHANGED <<send_queue, frames, readVars>>

consume_all ==
  /\ send_buffer # <<>>
  /\ send_buffer' = <<>>
  /\ UNCHANGED <<send_queue, frames, readVars>>

available_space ==
  SendQueueSize - (IF Len(send_queue) > SendQueueSize THEN Len(send_queue)
                                                      ELSE SendQueueSize)

-----------------------------------------------------------------------------
(* The read half: ConnectionReadState.                                     *)

\* A chunk is refused when it does not fit.
Fed_strict_mutant(n) == IF Len(recv_buffer) + n >= RecvBufferSize THEN 0 ELSE n

\* How many of the n bytes offered feed_bytes takes: all of them, even past
\* recv_buffer_size, unless the buffer is already full.
Fed(n) ==
  IF /\ Len(recv_buffer) + n >= RecvBufferSize
     /\ Len(recv_buffer) >= RecvBufferSize
  THEN 0
  ELSE n

\* Only the bytes that fit are stored, and the whole chunk is reported taken.
feed_bytes_mutant(bytes) ==
  /\ recv_buffer' = IF Fed(Len(bytes)) <= RecvBufferSize - Len(recv_buffer)
                    THEN recv_buffer \o SubSeq(bytes, 1, Fed(Len(bytes)))
                    ELSE recv_buffer
                           \o SubSeq(bytes, 1, RecvBufferSize - Len(recv_buffer))
  /\ UNCHANGED <<recv_queue, writeVars>>

feed_bytes(bytes) ==
  /\ recv_buffer' = recv_buffer \o SubSeq(bytes, 1, Fed(Len(bytes)))
  /\ UNCHANGED <<recv_queue, writeVars>>

(***************************************************************************)
(* process() of the read half is a loop too.  Its length prefix is that of *)
(* the frame the buffer begins with: FramedLink shows that the buffer      *)
(* always begins at a frame boundary and has no gap, so that the prefix    *)
(* and the body it reads are those of one frame (ByteConservation).        *)
(***************************************************************************)
RecvQueueFull == Len(recv_queue) >= RecvQueueSize

FrontFrame(i) ==
  /\ Len(recv_buffer) >= HeaderLen
  /\ recv_buffer[1] = frames[i].start + 1

\* A frame is complete only when another byte follows it.
FrontComplete_mutant(i) ==
  /\ FrontFrame(i)
  /\ Len(recv_buffer) > FrameLen(frames[i].msg)

FrontComplete(i) ==
  /\ FrontFrame(i)
  /\ Len(recv_buffer) >= FrameLen(frames[i].msg)

\* The decoded frame is not split off the buffer.
DecodeNext_mutant ==
  /\ ~ RecvQueueFull
  /\ \E i \in DOMAIN frames :
       /\ FrontComplete(i)
       /\ frames[i].msg \notin Undecodable
       /\ recv_queue' = Append(recv_queue, frames[i].msg)
  /\ UNCHANGED <<recv_buffer, writeVars>>

DecodeNext ==
  /\ ~ RecvQueueFull
  /\ \E i \in DOMAIN frames :
       /\ FrontComplete(i)
       /\ frames[i].msg \notin Undecodable
       /\ recv_queue' = Append(recv_queue, frames[i].msg)
       /\ recv_buffer' =
            SubSeq(recv_buffer, FrameLen(frames[i].msg) + 1, Len(recv_buffer))
  /\ UNCHANGED writeVars

\* The frame is split off the buffer before it is decoded.
DecodeError_mutant ==
  /\ ~ RecvQueueFull
  /\ \E i \in DOMAIN frames :
       /\ FrontComplete(i)
       /\ frames[i].msg \in Undecodable
       /\ recv_buffer' =
            SubSeq(recv_buffer, FrameLen(frames[i].msg) + 1, Len(recv_buffer))
  /\ UNCHANGED <<recv_queue, writeVars>>

\* The frame stays in the buffer: the next call meets it again.
DecodeError ==
  /\ ~ RecvQueueFull
  /\ \E i \in DOMAIN frames :
       FrontComplete(i) /\ frames[i].msg \in Undecodable
  /\ UNCHANGED stateVars

DecodeDone ==
  /\ \/ RecvQueueFull
     \/ Len(recv_buffer) < HeaderLen
     \/ \E i \in DOMAIN frames :
          FrontFrame(i) /\ Len(recv_buffer) < FrameLen(frames[i].msg)
  /\ UNCHANGED stateVars

consume_item ==
  /\ recv_queue # <<>>
  /\ recv_queue' = Tail(recv_queue)
  /\ UNCHANGED <<recv_buffer, writeVars>>

=============================================================================
