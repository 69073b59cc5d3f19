----------------------------- MODULE FramedLink -----------------------------
(***************************************************************************)
(* One direction of a connection under an ideal driver: a driver that      *)
(* calls the public methods of both halves in any order, takes encoded     *)
(* bytes in any portion, and offers them to the peer in order, in chunks   *)
(* of any size up to MaxChunk, keeping the chunks feed_bytes refuses.      *)
(* This is what ConnectionState requires of an adapter; it implements      *)
(* MessageChannel.                                                         *)
(***************************************************************************)
EXTENDS ConnectionState

CONSTANTS
  MaxChunk,   \* the longest slice the driver consumes or feeds at once
  MaxItems    \* bound on the messages the application hands over

ASSUME LinkAssumption == MaxChunk \in Nat \ {0} /\ MaxItems \in Nat

VARIABLES
  wire,           \* bytes consumed from the sender, not yet fed to the receiver
  writer,         \* "ready", or "encoding" while process_write runs
  reader,         \* "ready", or "decoding" while process_read runs
  accepted,       \* history: the messages feed_item accepted
  delivered,      \* history: the messages consume_item returned
  decoder         \* history: "failed" once process_read has returned an error

driverVars == <<wire, writer, reader, accepted, delivered, decoder>>
vars == <<stateVars, driverVars>>

TypeOK ==
  /\ StateTypeOK
  /\ wire \in Seq(Nat)
  /\ writer \in {"ready", "encoding"}
  /\ reader \in {"ready", "decoding"}
  /\ accepted \in Seq(Message)
  /\ delivered \in Seq(Message)
  /\ decoder \in {"ok", "failed"}

Init ==
  /\ StateInit
  /\ wire = <<>>
  /\ writer = "ready"
  /\ reader = "ready"
  /\ accepted = <<>>
  /\ delivered = <<>>
  /\ decoder = "ok"

-----------------------------------------------------------------------------
(* The sending application and the driver's outgoing side.                 *)

Feed(m) ==
  /\ writer = "ready"
  /\ Len(accepted) < MaxItems
  /\ feed_item(m)
  /\ accepted' = IF SendQueueFull THEN accepted ELSE Append(accepted, m)
  /\ UNCHANGED <<wire, writer, reader, delivered, decoder>>

BeginEncode ==
  /\ writer = "ready"
  /\ writer' = "encoding"
  /\ UNCHANGED <<stateVars, wire, reader, accepted, delivered, decoder>>

EncodeTurn ==
  /\ writer = "encoding"
  /\ \/ EncodeNext /\ UNCHANGED writer
     \/ (EncodeError \/ EncodeDone) /\ writer' = "ready"
  /\ UNCHANGED <<wire, reader, accepted, delivered, decoder>>

TakeBytes(len) ==
  /\ writer = "ready"
  /\ consume_bytes(len)
  /\ wire' = wire \o BytesConsumed(len)
  /\ UNCHANGED <<writer, reader, accepted, delivered, decoder>>

TakeAll ==
  /\ writer = "ready"
  /\ consume_all
  /\ wire' = wire \o send_buffer
  /\ UNCHANGED <<writer, reader, accepted, delivered, decoder>>

-----------------------------------------------------------------------------
(* The driver's incoming side and the receiving application.               *)

Offer(n) ==
  /\ reader = "ready"
  /\ n <= Len(wire)
  /\ feed_bytes(SubSeq(wire, 1, n))
  /\ wire' = SubSeq(wire, Fed(n) + 1, Len(wire))
  /\ UNCHANGED <<writer, reader, accepted, delivered, decoder>>

BeginDecode ==
  /\ reader = "ready"
  /\ reader' = "decoding"
  /\ UNCHANGED <<stateVars, wire, writer, accepted, delivered, decoder>>

DecodeTurn ==
  /\ reader = "decoding"
  /\ \/ DecodeNext /\ UNCHANGED <<reader, decoder>>
     \/ DecodeError /\ reader' = "ready" /\ decoder' = "failed"
     \/ DecodeDone /\ reader' = "ready" /\ UNCHANGED decoder
  /\ UNCHANGED <<wire, writer, accepted, delivered>>

Consume ==
  /\ reader = "ready"
  /\ consume_item
  /\ delivered' = Append(delivered, Head(recv_queue))
  /\ UNCHANGED <<wire, writer, reader, accepted, decoder>>

Next ==
  \/ \E m \in Message : Feed(m)
  \/ BeginEncode \/ EncodeTurn
  \/ \E n \in 1 .. MaxChunk : TakeBytes(n)
  \/ TakeAll
  \/ \E n \in 1 .. MaxChunk : Offer(n)
  \/ BeginDecode \/ DecodeTurn
  \/ Consume

SafeSpec == Init /\ [][Next]_vars

(***************************************************************************)
(* The driver makes its calls in rotation, as the loops of poll_next and   *)
(* poll_flush do: a call it can make again and again, it makes.  A call    *)
(* under way returns.  The application need not send, and consumes what is *)
(* decoded.                                                                *)
(***************************************************************************)
Fairness ==
  /\ WF_vars(BeginEncode) /\ WF_vars(EncodeTurn)
  /\ SF_vars(TakeAll)
  /\ SF_vars(\E n \in 1 .. MaxChunk : Offer(n))
  /\ WF_vars(BeginDecode) /\ WF_vars(DecodeTurn)
  /\ SF_vars(Consume)

Spec == SafeSpec /\ Fairness

-----------------------------------------------------------------------------
(* Properties.                                                             *)

\* The number of messages decoded so far, and of the bytes they took.
Decoded == Len(delivered) + Len(recv_queue)
DecodedBytes == IF Decoded = 0 THEN 0 ELSE End(frames[Decoded])

(***************************************************************************)
(* Every encoded byte that has not been decoded is in exactly one place,   *)
(* and the receiver's buffer, the bytes in transit and the sender's buffer *)
(* hold them in stream order.  So the receive buffer begins at a frame     *)
(* boundary and has no gap, whatever feed_bytes refused on the way.        *)
(***************************************************************************)
ByteConservation ==
  /\ Decoded <= Len(frames)
  /\ DecodedBytes + Len(recv_buffer) + Len(wire) + Len(send_buffer) = StreamLen
  /\ IsRun(recv_buffer, DecodedBytes)
  /\ IsRun(wire, DecodedBytes + Len(recv_buffer))
  /\ IsRun(send_buffer, DecodedBytes + Len(recv_buffer) + Len(wire))

(***************************************************************************)
(* What the receiving application has consumed, followed by what waits in  *)
(* its queue, is a prefix of what was encoded, and the receiver's coder    *)
(* accepts all of it.                                                      *)
(***************************************************************************)
InOrder ==
  /\ Decoded <= Len(frames)
  /\ \A i \in 1 .. Len(delivered) : delivered[i] = frames[i].msg
  /\ \A i \in 1 .. Len(recv_queue) :
       recv_queue[i] = frames[Len(delivered) + i].msg
  /\ \A i \in 1 .. Decoded : frames[i].msg \notin Undecodable

(***************************************************************************)
(* An encoding error costs the message that caused it and no other: the    *)
(* send queue holds the last of the accepted messages, and of those before *)
(* them the ones the coder can encode, and only they, are on the stream,   *)
(* once each, in the order they were accepted.  place says where.          *)
(***************************************************************************)
Popped == Len(accepted) - Len(send_queue)

Places(place) ==
  /\ \A i, j \in DOMAIN frames : i < j => place[i] < place[j]
  /\ \A i \in DOMAIN frames : frames[i].msg = accepted[place[i]]
  /\ \A k \in 1 .. Popped :
       accepted[k] \in Unencodable <=> \A i \in DOMAIN frames : place[i] # k

\* Of the messages popped from the queue only the unencodable are not on the stream.
OnlyUnencodableMissing ==
  /\ Popped >= 0
  /\ \A i \in DOMAIN send_queue : send_queue[i] = accepted[Popped + i]
  /\ \E place \in [DOMAIN frames -> 1 .. Popped] : Places(place)

(***************************************************************************)
(* recv_buffer_size is not a hard limit: feed_bytes takes a whole chunk    *)
(* while the buffer is one byte short of it.  The overshoot is less than   *)
(* one chunk.                                                              *)
(***************************************************************************)
RecvBufferBound == Len(recv_buffer) < RecvBufferSize + MaxChunk

(***************************************************************************)
(* A frame the receiver's coder rejects ends the stream: once process_read *)
(* has failed, no later call decodes another message, however the queue    *)
(* and the buffer move on.                                                 *)
(***************************************************************************)
DecodeErrorIsFinal == [][decoder = "failed" => Decoded' = Decoded]_vars

(***************************************************************************)
(* The driven halves implement the message channel: sent is what was       *)
(* encoded and received is what was consumed.  With the fairness above     *)
(* this includes that everything encoded ahead of the first undecodable    *)
(* message is consumed, which needs every frame to fit the receive buffer. *)
(***************************************************************************)
Channel == INSTANCE MessageChannel WITH
  sent     <- [i \in DOMAIN frames |-> frames[i].msg],
  received <- delivered

ImplementsChannel == Channel!Spec

(***************************************************************************)
(* "Available sender space counted in items", the comment on               *)
(* available_space (connection_state.rs:129 and :234).                     *)
(***************************************************************************)
AvailableSpaceCountsItems == available_space = SendQueueSize - Len(send_queue)

=============================================================================
