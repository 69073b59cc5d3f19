-------------------------- MODULE FramedLink_proofs --------------------------
(***************************************************************************)
(* Proofs about FramedLink: type correctness, the inductive invariant that *)
(* keeps the receive buffer at a frame boundary, and what follows from it. *)
(***************************************************************************)
EXTENDS FramedLink, ConnectionState_proofs

-----------------------------------------------------------------------------
(* Type correctness.                                                       *)

\* The queues and the byte strings are sequences.
LEMMA LinkTypes ==
  ASSUME TypeOK
  PROVE  /\ wire \in Seq(Nat) /\ send_buffer \in Seq(Nat) /\ recv_buffer \in Seq(Nat)
         /\ Len(wire) \in Nat /\ Len(send_buffer) \in Nat /\ Len(recv_buffer) \in Nat
         /\ recv_queue \in Seq(Message) /\ Len(recv_queue) \in Nat
         /\ Len(delivered) \in Nat /\ Len(frames) \in Nat
BY DEF TypeOK, StateTypeOK

\* The initial state has the right types.
LEMMA InitTypeOK == Init => TypeOK
BY ConfigAssumption DEF Init, StateInit, TypeOK, StateTypeOK

\* A driver step keeps the types.
LEMMA NextTypeOK == TypeOK /\ [Next]_vars => TypeOK'
<1> SUFFICES ASSUME TypeOK, [Next]_vars
             PROVE  TypeOK'
  OBVIOUS
<1>0. StateTypeOK
  BY DEF TypeOK
<1>1. ASSUME NEW m \in Message, Feed(m)
      PROVE  TypeOK'
  BY <1>1, ConfigAssumption
     DEF TypeOK, StateTypeOK, Feed, feed_item, SendQueueFull, readVars
<1>2. CASE BeginEncode
  BY <1>2 DEF TypeOK, StateTypeOK, BeginEncode, stateVars, writeVars, readVars
<1>3. CASE EncodeTurn
  <2>1. CASE EncodeNext /\ UNCHANGED writer
    <3>1. StateTypeOK'
      BY <1>0, <2>1, EncodeNextType
    <3>2. QED
      BY <1>3, <2>1, <3>1 DEF TypeOK, EncodeTurn
  <2>2. CASE EncodeError /\ writer' = "ready"
    BY <1>3, <2>2, ConfigAssumption
       DEF TypeOK, StateTypeOK, EncodeTurn, EncodeError, readVars
  <2>3. CASE EncodeDone /\ writer' = "ready"
    BY <1>3, <2>3
       DEF TypeOK, StateTypeOK, EncodeTurn, EncodeDone, stateVars, writeVars, readVars
  <2>4. QED
    BY <1>3, <2>1, <2>2, <2>3 DEF EncodeTurn
<1>4. ASSUME NEW n \in 1 .. MaxChunk, TakeBytes(n)
      PROVE  TypeOK'
  <2>1. BytesConsumed(n) \in Seq(Nat) /\ Len(BytesConsumed(n)) \in Nat
    BY <1>0, LinkAssumption DEF StateTypeOK, BytesConsumed
  <2>2. send_buffer' \in Seq(Nat)
    <3>1. send_buffer' = SubSeq(send_buffer, Len(BytesConsumed(n)) + 1, Len(send_buffer))
      BY <1>4 DEF TakeBytes, consume_bytes
    <3>2. QED
      BY <2>1, <3>1, LinkTypes, SuffixType
  <2>3. wire' \in Seq(Nat)
    <3>1. wire' = wire \o BytesConsumed(n)
      BY <1>4 DEF TakeBytes
    <3>2. QED
      BY <2>1, <3>1, LinkTypes
  <2>4. QED
    BY <1>4, <2>2, <2>3 DEF TypeOK, StateTypeOK, TakeBytes, consume_bytes, readVars
<1>5. CASE TakeAll
  BY <1>5 DEF TypeOK, StateTypeOK, TakeAll, consume_all, readVars
<1>6. ASSUME NEW n \in 1 .. MaxChunk, Offer(n)
      PROVE  TypeOK'
  <2>1. n \in Nat /\ n <= Len(wire) /\ Fed(n) \in Nat
    BY <1>6, LinkAssumption DEF Offer, Fed
  <2>2. wire' \in Seq(Nat)
    <3>1. wire' = SubSeq(wire, Fed(n) + 1, Len(wire))
      BY <1>6 DEF Offer
    <3>2. QED
      BY <2>1, <3>1, LinkTypes, SuffixType
  <2>3. recv_buffer' \in Seq(Nat)
    <3>1. PICK chunk : chunk = SubSeq(wire, 1, n)
      OBVIOUS
    <3>2. recv_buffer' = recv_buffer \o SubSeq(chunk, 1, Fed(Len(chunk)))
      BY <1>6, <3>1 DEF Offer, feed_bytes
    <3>3. chunk \in Seq(Nat) /\ Len(chunk) = n
      BY <2>1, <3>1, LinkTypes, SMTT(30)
    <3>4. SubSeq(chunk, 1, Fed(n)) \in Seq(Nat)
      BY <1>0, <2>1, <3>3, FedFacts
    <3>5. QED
      BY <3>2, <3>3, <3>4, LinkTypes
  <2>4. QED
    BY <1>6, <2>2, <2>3 DEF TypeOK, StateTypeOK, Offer, feed_bytes, writeVars
<1>7. CASE BeginDecode
  BY <1>7 DEF TypeOK, StateTypeOK, BeginDecode, stateVars, writeVars, readVars
<1>8. CASE DecodeTurn
  <2>1. CASE DecodeNext /\ UNCHANGED <<reader, decoder>>
    <3>1. StateTypeOK'
      BY <1>0, <2>1, DecodeNextType
    <3>2. QED
      BY <1>8, <2>1, <3>1 DEF TypeOK, DecodeTurn
  <2>2. CASE UNCHANGED stateVars
    BY <1>8, <2>2 DEF TypeOK, StateTypeOK, DecodeTurn, stateVars, writeVars, readVars
  <2>3. QED
    BY <1>8, <2>1, <2>2 DEF DecodeTurn, DecodeError, DecodeDone
<1>9. CASE Consume
  <2>1. /\ Head(recv_queue) \in Message
        /\ Tail(recv_queue) \in Seq(Message)
        /\ Len(Tail(recv_queue)) <= RecvQueueSize
    BY <1>0, <1>9, ConfigAssumption DEF StateTypeOK, Consume, consume_item
  <2>2. QED
    BY <1>9, <2>1 DEF TypeOK, StateTypeOK, Consume, consume_item, writeVars
<1>10. CASE UNCHANGED vars
  BY <1>10 DEF TypeOK, StateTypeOK, vars, driverVars, stateVars, writeVars, readVars
<1>11. QED
  BY <1>1, <1>2, <1>3, <1>4, <1>5, <1>6, <1>7, <1>8, <1>9, <1>10 DEF Next

(***************************************************************************)
(* Every reachable state is well typed; in particular the send queue and   *)
(* the receive queue never hold more than their configured sizes.          *)
(***************************************************************************)
THEOREM TypeCorrect == SafeSpec => []TypeOK
BY InitTypeOK, NextTypeOK, PTL DEF SafeSpec

-----------------------------------------------------------------------------
(* The inductive invariant.                                                *)

(***************************************************************************)
(* A failed decoder has the frame it failed on at the front.               *)
(***************************************************************************)
FailedAtFront ==
  decoder = "failed" =>
    /\ Decoded < Len(frames)
    /\ frames[Decoded + 1].msg \in Undecodable

(***************************************************************************)
(* ByteConservation alone is not inductive: that the buffer still begins   *)
(* at a boundary after a frame is decoded needs that the frame decoded is  *)
(* the next one, which holds because frames are contiguous and no two      *)
(* begin at the same place.                                                *)
(***************************************************************************)
IInv ==
  /\ TypeOK
  /\ FramesContiguous
  /\ FramesOrdered
  /\ ByteConservation
  /\ InOrder
  /\ RecvBufferBound
  /\ FailedAtFront

\* The counts of decoded messages and bytes are naturals.
LEMMA DecodedType ==
  ASSUME TypeOK, Decoded <= Len(frames)
  PROVE  /\ Decoded \in 0 .. Len(frames)
         /\ DecodedBytes = Boundary(Decoded)
         /\ Decoded \in Nat /\ DecodedBytes \in Nat
<1>1. StateTypeOK
  BY DEF TypeOK
<1>2. Decoded \in 0 .. Len(frames) /\ DecodedBytes = Boundary(Decoded)
  BY DEF TypeOK, StateTypeOK, Decoded, DecodedBytes, Boundary
<1>3. QED
  BY <1>1, <1>2, BoundaryType

(***************************************************************************)
(* A length prefix at the front of the receive buffer is that of the next  *)
(* frame to decode.                                                        *)
(***************************************************************************)
LEMMA FrontIsNext ==
  ASSUME IInv, NEW i \in 1 .. Len(frames), FrontFrame(i)
  PROVE  /\ i = Decoded + 1
         /\ Decoded < Len(frames)
         /\ frames[i].start = DecodedBytes
<1>1. StateTypeOK /\ TypeOK /\ FramesContiguous /\ FramesOrdered
  BY DEF IInv, TypeOK
<1>2. Decoded \in 0 .. Len(frames) /\ DecodedBytes = Boundary(Decoded)
  BY <1>1, DecodedType DEF IInv, ByteConservation
<1>3. IsRun(recv_buffer, Boundary(Decoded))
  BY <1>2 DEF IInv, ByteConservation
<1>4. recv_buffer # <<>> /\ recv_buffer[1] = frames[i].start + 1
  BY <1>1, ConfigAssumption DEF FrontFrame, StateTypeOK
<1> HIDE DEF Decoded
<1>5. QED
  BY <1>1, <1>2, <1>3, <1>4, FrontFrameIsNext

-----------------------------------------------------------------------------
(* Each action preserves the inductive invariant.                          *)

\* The send queue, the histories of the driver and the pcs do not matter.
LEMMA UnchangedInv ==
  ASSUME IInv, TypeOK',
         UNCHANGED <<send_buffer, readVars, frames, wire, delivered>>,
         decoder' = decoder
  PROVE  IInv'
BY DEF IInv, FramesContiguous, FramesOrdered, ByteConservation, InOrder,
       RecvBufferBound, FailedAtFront, Decoded, DecodedBytes, StreamLen, End,
       IsRun, readVars

\* Encoding appends a frame and its bytes to the stream.
LEMMA EncodeNextInv ==
  ASSUME IInv, TypeOK', EncodeNext,
         UNCHANGED <<wire, delivered, decoder>>
  PROVE  IInv'
<1> DEFINE m == Head(send_queue)
           b == Bytes(StreamLen, FrameLen(m))
<1>0. /\ TypeOK /\ StateTypeOK /\ FramesContiguous /\ FramesOrdered
      /\ ByteConservation /\ InOrder /\ RecvBufferBound /\ FailedAtFront
  BY DEF IInv, TypeOK
<1>1. m \in Message
  BY <1>0 DEF StateTypeOK, EncodeNext
<1>2. /\ frames' = Append(frames, [msg |-> m, start |-> StreamLen])
      /\ send_buffer' = send_buffer \o b
      /\ recv_buffer' = recv_buffer /\ recv_queue' = recv_queue
      /\ Decoded' = Decoded
  BY DEF EncodeNext, readVars, Decoded
<1> HIDE DEF m
<1>3. Decoded <= Len(frames)
  BY <1>0 DEF ByteConservation
<1>4. /\ Len(frames') = Len(frames) + 1
      /\ \A i \in 1 .. Len(frames) : frames'[i] = frames[i]
      /\ StreamLen' = StreamLen + FrameLen(m)
      /\ DecodedBytes' = DecodedBytes
      /\ FramesContiguous'
      /\ FramesOrdered'
  <2>1. /\ Len(frames') = Len(frames) + 1
        /\ \A i \in 1 .. Len(frames) : frames'[i] = frames[i]
        /\ StreamLen' = StreamLen + FrameLen(m)
        /\ FramesContiguous'
        /\ FramesOrdered'
    BY <1>0, <1>1, <1>2, AppendFrame
  <2>2. Decoded \in 0 .. Len(frames)
    BY <1>0, <1>3, DecodedType
  <2>3. DecodedBytes' = DecodedBytes
    BY <1>2, <2>1, <2>2 DEF DecodedBytes, End
  <2>4. QED
    BY <2>1, <2>3
<1>5. /\ Decoded \in Nat /\ DecodedBytes \in Nat /\ StreamLen \in Nat
      /\ FrameLen(m) \in Nat /\ Len(frames) \in Nat
  BY <1>0, <1>1, <1>3, DecodedType, StreamLenType, FrameLenType DEF StateTypeOK
<1>6. b \in Seq(Nat) /\ Len(b) = FrameLen(m) /\ IsRun(b, StreamLen)
  BY <1>5, BytesType
<1> HIDE DEF b
<1>7. ByteConservation'
  <2> DEFINE p == DecodedBytes + Len(recv_buffer) + Len(wire)
  <2>1. /\ Len(recv_buffer) \in Nat /\ Len(wire) \in Nat /\ p \in Nat
        /\ send_buffer \in Seq(Nat) /\ Len(send_buffer) \in Nat
    BY <1>0, <1>5, LinkTypes
  <2>2. IsRun(send_buffer, p) /\ p + Len(send_buffer) = StreamLen
    BY <1>0 DEF ByteConservation
  <2> HIDE DEF p
  <2>3. IsRun(send_buffer', p) /\ Len(send_buffer') = Len(send_buffer) + FrameLen(m)
    BY <1>2, <1>6, <2>1, <2>2, RunConcat
  <2>4. p + Len(send_buffer') = StreamLen'
    BY <1>4, <1>5, <2>1, <2>2, <2>3
  <2>5. Decoded' <= Len(frames')
    BY <1>2, <1>3, <1>4, <1>5
  <2>6. QED
    BY <1>0, <1>2, <1>4, <2>3, <2>4, <2>5 DEF ByteConservation, IsRun, p
<1>8. InOrder'
  <2>1. Len(delivered) \in Nat /\ Len(recv_queue) \in Nat
        /\ Decoded = Len(delivered) + Len(recv_queue)
    BY <1>0 DEF TypeOK, StateTypeOK, Decoded
  <2>2. \A i \in 1 .. Decoded : frames'[i] = frames[i]
    BY <1>3, <1>4, <1>5
  <2>3. \A i \in 1 .. Len(delivered) : i \in 1 .. Decoded
    BY <2>1
  <2>4. \A i \in 1 .. Len(recv_queue) : Len(delivered) + i \in 1 .. Decoded
    BY <2>1
  <2>5. Decoded' <= Len(frames')
    BY <1>2, <1>3, <1>4, <1>5
  <2>6. QED
    BY <1>0, <1>2, <2>2, <2>3, <2>4, <2>5 DEF InOrder
<1>9. FailedAtFront'
  BY <1>0, <1>2, <1>4, <1>5 DEF FailedAtFront
<1>10. RecvBufferBound'
  BY <1>0, <1>2 DEF RecvBufferBound
<1>11. QED
  BY <1>4, <1>7, <1>8, <1>9, <1>10 DEF IInv

\* The first k bytes of the send buffer go out on the wire.
MovedToWire(k) ==
  /\ wire' = wire \o SubSeq(send_buffer, 1, k)
  /\ send_buffer' = SubSeq(send_buffer, k + 1, Len(send_buffer))

\* Consuming bytes moves a prefix of the send buffer to the wire.
LEMMA TakeInv ==
  ASSUME IInv, TypeOK', NEW k \in 0 .. Len(send_buffer), MovedToWire(k),
         UNCHANGED <<readVars, frames, delivered, decoder>>
  PROVE  IInv'
<1> DEFINE p == DecodedBytes + Len(recv_buffer)
<1>0. TypeOK /\ StateTypeOK /\ ByteConservation
  BY DEF IInv, TypeOK
<1>1. /\ send_buffer \in Seq(Nat) /\ wire \in Seq(Nat)
      /\ Len(send_buffer) \in Nat /\ Len(wire) \in Nat /\ Len(recv_buffer) \in Nat
      /\ k \in Nat
  BY <1>0, LinkTypes
<1>2. UNCHANGED <<Decoded, DecodedBytes, StreamLen, recv_buffer, recv_queue>>
  BY DEF Decoded, DecodedBytes, StreamLen, End, readVars
<1>3. p \in Nat /\ StreamLen \in Nat
  BY <1>0, <1>1, DecodedType, StreamLenType DEF ByteConservation
<1>4. /\ IsRun(wire, p) /\ IsRun(send_buffer, p + Len(wire))
      /\ p + Len(wire) + Len(send_buffer) = StreamLen
  BY <1>0 DEF ByteConservation
<1> HIDE DEF p
<1>5. /\ SubSeq(send_buffer, 1, k) \in Seq(Nat)
      /\ Len(SubSeq(send_buffer, 1, k)) = k
      /\ IsRun(SubSeq(send_buffer, 1, k), p + Len(wire))
      /\ Len(send_buffer') = Len(send_buffer) - k
      /\ IsRun(send_buffer', p + Len(wire) + k)
  <2>1. p + Len(wire) \in Nat
    BY <1>1, <1>3
  <2>2. send_buffer' = SubSeq(send_buffer, k + 1, Len(send_buffer))
    BY DEF MovedToWire
  <2>3. IsRun(send_buffer, p + Len(wire))
    BY <1>4
  <2>4. QED
    BY <1>1, <2>1, <2>2, <2>3, RunSplit
<1>6. Len(wire') = Len(wire) + k /\ IsRun(wire', p)
  <2>1. wire' = wire \o SubSeq(send_buffer, 1, k)
    BY DEF MovedToWire
  <2>2. QED
    BY <1>1, <1>3, <1>4, <1>5, <2>1, RunConcat
<1> DEFINE lw == Len(wire')
           ls == Len(send_buffer')
<1>7. lw = Len(wire) + k /\ ls = Len(send_buffer) - k
  BY <1>5, <1>6
<1>8. IsRun(send_buffer', p + Len(wire) + k)
  BY <1>5
<1> HIDE DEF lw, ls
<1>9. p + lw + ls = StreamLen /\ p + lw = p + Len(wire) + k
  <2>1. p + Len(wire) + Len(send_buffer) = StreamLen
    BY <1>4
  <2>2. Len(send_buffer) \in Nat /\ Len(wire) \in Nat /\ k \in Nat
    BY <1>1
  <2>3. lw \in Nat /\ ls \in Nat
    BY <1>7, <2>2
  <2>4. p + lw = p + Len(wire) + k
    BY <1>3, <1>7, <2>2
  <2>5. p + lw + ls = StreamLen
    BY <1>3, <1>7, <2>1, <2>2, <2>3
  <2>6. QED
    BY <2>4, <2>5
<1>10. ByteConservation'
  <2>1. IsRun(send_buffer', p + lw)
    BY <1>8, <1>9
  <2>2. (Decoded <= Len(frames))'
    BY <1>0, <1>2 DEF ByteConservation
  <2>3. IsRun(recv_buffer, DecodedBytes)'
    BY <1>0, <1>2 DEF ByteConservation, IsRun
  <2>4. IsRun(wire, DecodedBytes + Len(recv_buffer))'
    BY <1>2, <1>6 DEF IsRun, p
  <2>5. IsRun(send_buffer, DecodedBytes + Len(recv_buffer) + Len(wire))'
    BY <1>2, <2>1 DEF IsRun, p, lw
  <2>6. (DecodedBytes + Len(recv_buffer) + Len(wire) + Len(send_buffer) = StreamLen)'
    BY <1>2, <1>9 DEF p, lw, ls
  <2>7. QED
    BY <2>2, <2>3, <2>4, <2>5, <2>6 DEF ByteConservation
<1>11. QED
  BY <1>2, <1>10
     DEF IInv, FramesContiguous, FramesOrdered, InOrder, RecvBufferBound,
         FailedAtFront, End

\* Offering bytes moves a prefix of the wire to the receive buffer.
LEMMA OfferInv ==
  ASSUME IInv, TypeOK', NEW n \in 1 .. MaxChunk, Offer(n)
  PROVE  IInv'
<1> DEFINE k == Fed(n)
           chunk == SubSeq(wire, 1, n)
<1>0. TypeOK /\ StateTypeOK /\ ByteConservation /\ RecvBufferBound
  BY DEF IInv, TypeOK
<1>1. /\ wire \in Seq(Nat) /\ recv_buffer \in Seq(Nat)
      /\ Len(wire) \in Nat /\ Len(recv_buffer) \in Nat /\ Len(send_buffer) \in Nat
      /\ n \in Nat /\ n <= Len(wire)
  <2>1. n \in Nat
    BY LinkAssumption
  <2>2. n <= Len(wire)
    BY DEF Offer
  <2>3. QED
    BY <1>0, <2>1, <2>2, LinkTypes
<1>2. k \in {0, n} /\ k \in Nat /\ k \in 0 .. Len(wire)
  BY <1>1 DEF Fed
<1>3. k # 0 => Len(recv_buffer) < RecvBufferSize
  BY <1>1, ConfigAssumption DEF Fed
<1>4. wire' = SubSeq(wire, k + 1, Len(wire))
  BY DEF Offer
<1>5. Len(chunk) = n
  BY <1>1
<1>6. SubSeq(chunk, 1, k) = SubSeq(wire, 1, k)
  <2>1. CASE k = 0
    BY <1>1, <2>1
  <2>2. CASE k = n
    BY <1>1, <2>2
  <2>3. QED
    BY <1>2, <2>1, <2>2
<1>7. recv_buffer' = recv_buffer \o SubSeq(wire, 1, k)
  BY <1>5, <1>6 DEF Offer, feed_bytes
<1> HIDE DEF k, chunk
<1>8. UNCHANGED <<Decoded, DecodedBytes, StreamLen, recv_queue, send_buffer, frames,
                  delivered, decoder>>
  BY DEF Offer, feed_bytes, writeVars, Decoded, DecodedBytes, StreamLen, End
<1>9. DecodedBytes \in Nat /\ StreamLen \in Nat
  BY <1>0, DecodedType, StreamLenType DEF ByteConservation
<1>10. /\ IsRun(recv_buffer, DecodedBytes)
       /\ IsRun(wire, DecodedBytes + Len(recv_buffer))
       /\ IsRun(send_buffer, DecodedBytes + Len(recv_buffer) + Len(wire))
       /\ DecodedBytes + Len(recv_buffer) + Len(wire) + Len(send_buffer) = StreamLen
  BY <1>0 DEF ByteConservation
<1>11. /\ SubSeq(wire, 1, k) \in Seq(Nat)
       /\ Len(SubSeq(wire, 1, k)) = k
       /\ IsRun(SubSeq(wire, 1, k), DecodedBytes + Len(recv_buffer))
       /\ Len(wire') = Len(wire) - k
       /\ IsRun(wire', DecodedBytes + Len(recv_buffer) + k)
  <2>1. DecodedBytes + Len(recv_buffer) \in Nat
    BY <1>1, <1>9
  <2>2. IsRun(wire, DecodedBytes + Len(recv_buffer))
    BY <1>10
  <2>3. QED
    BY <1>1, <1>2, <1>4, <2>1, <2>2, RunSplit
<1>12. Len(recv_buffer') = Len(recv_buffer) + k /\ IsRun(recv_buffer', DecodedBytes)
  BY <1>1, <1>7, <1>9, <1>10, <1>11, RunConcat
<1>13. DecodedBytes + Len(recv_buffer') = DecodedBytes + Len(recv_buffer) + k
  BY <1>1, <1>2, <1>9, <1>12
<1>14. DecodedBytes + Len(recv_buffer') + Len(wire')
         = DecodedBytes + Len(recv_buffer) + Len(wire)
  BY <1>1, <1>2, <1>9, <1>11, <1>12
<1>15. ByteConservation'
  BY <1>0, <1>8, <1>10, <1>11, <1>12, <1>13, <1>14 DEF ByteConservation, IsRun
<1>16. RecvBufferBound'
  <2>1. n <= MaxChunk /\ MaxChunk \in Nat /\ RecvBufferSize \in Nat
    BY ConfigAssumption, LinkAssumption
  <2>2. QED
    BY <1>0, <1>1, <1>2, <1>3, <1>12, <2>1 DEF RecvBufferBound
<1>17. QED
  BY <1>8, <1>15, <1>16
     DEF IInv, FramesContiguous, FramesOrdered, InOrder, FailedAtFront, End

(***************************************************************************)
(* Decoding moves the boundary past the next frame: the frame at the front *)
(* of the buffer is the one that follows the decoded ones.                 *)
(***************************************************************************)
LEMMA DecodeNextInv ==
  ASSUME IInv, TypeOK', DecodeNext,
         UNCHANGED <<wire, delivered, decoder>>
  PROVE  IInv'
<1>0. /\ TypeOK /\ StateTypeOK /\ FramesContiguous
      /\ ByteConservation /\ InOrder /\ RecvBufferBound /\ FailedAtFront
  BY DEF IInv, TypeOK
<1>1. PICK i \in 1 .. Len(frames) :
        /\ FrontComplete(i)
        /\ frames[i].msg \notin Undecodable
        /\ recv_queue' = Append(recv_queue, frames[i].msg)
        /\ recv_buffer' =
             SubSeq(recv_buffer, FrameLen(frames[i].msg) + 1, Len(recv_buffer))
  <2>1. DOMAIN frames = 1 .. Len(frames)
    BY <1>0 DEF StateTypeOK
  <2>2. QED
    BY <2>1 DEF DecodeNext
<1>2. i = Decoded + 1 /\ Decoded < Len(frames) /\ frames[i].start = DecodedBytes
  BY <1>1, FrontIsNext DEF FrontComplete
<1> DEFINE k == FrameLen(frames[i].msg)
<1>3. k \in Nat \ {0} /\ End(frames[i]) = DecodedBytes + k /\ frames[i].msg \in Message
  BY <1>0, <1>2, FrameFacts
<1>4. recv_buffer' = SubSeq(recv_buffer, k + 1, Len(recv_buffer)) /\ k <= Len(recv_buffer)
  BY <1>1 DEF FrontComplete
<1> HIDE DEF k
<1>5. /\ Decoded \in Nat /\ Len(frames) \in Nat /\ DecodedBytes \in Nat
      /\ recv_buffer \in Seq(Nat) /\ Len(recv_buffer) \in Nat
      /\ Len(wire) \in Nat /\ Len(send_buffer) \in Nat
      /\ recv_queue \in Seq(Message) /\ Len(recv_queue) \in Nat
      /\ Len(delivered) \in Nat /\ Decoded = Len(delivered) + Len(recv_queue)
  <2>1. Decoded \in Nat /\ DecodedBytes \in Nat
    BY <1>0, DecodedType DEF ByteConservation
  <2>2. Decoded = Len(delivered) + Len(recv_queue)
    BY DEF Decoded
  <2>3. QED
    BY <1>0, <2>1, <2>2, LinkTypes
<1>6. /\ Len(recv_queue') = Len(recv_queue) + 1
      /\ recv_queue'[Len(recv_queue) + 1] = frames[i].msg
      /\ \A x \in 1 .. Len(recv_queue) : recv_queue'[x] = recv_queue[x]
  BY <1>1, <1>3, <1>5
<1>7. UNCHANGED <<frames, StreamLen, send_buffer, wire, delivered, decoder>>
  BY DEF DecodeNext, writeVars, StreamLen, End
<1>8. Decoded' = Decoded + 1
  BY <1>5, <1>6, <1>7 DEF Decoded
<1>9. DecodedBytes' = DecodedBytes + k
  BY <1>2, <1>3, <1>5, <1>7, <1>8 DEF DecodedBytes, End
<1>10. ByteConservation'
  <2>1. /\ IsRun(recv_buffer, DecodedBytes)
        /\ DecodedBytes + Len(recv_buffer) + Len(wire) + Len(send_buffer) = StreamLen
        /\ IsRun(wire, DecodedBytes + Len(recv_buffer))
        /\ IsRun(send_buffer, DecodedBytes + Len(recv_buffer) + Len(wire))
    BY <1>0 DEF ByteConservation
  <2>2. k \in 0 .. Len(recv_buffer)
    BY <1>3, <1>4, <1>5
  <2>3. Len(recv_buffer') = Len(recv_buffer) - k /\ IsRun(recv_buffer', DecodedBytes + k)
    BY <1>4, <1>5, <2>1, <2>2, RunSplit
  <2>4. DecodedBytes' + Len(recv_buffer') = DecodedBytes + Len(recv_buffer)
    BY <1>3, <1>5, <1>9, <2>3
  <2>5. Decoded' <= Len(frames')
    BY <1>2, <1>5, <1>7, <1>8
  <2>6. QED
    BY <1>7, <1>9, <2>1, <2>3, <2>4, <2>5 DEF ByteConservation, IsRun
<1>11. InOrder'
  <2>1. ASSUME NEW x \in 1 .. Len(recv_queue')
        PROVE  recv_queue'[x] = frames[Len(delivered) + x].msg
    <3>1. CASE x = Len(recv_queue) + 1
      BY <1>2, <1>5, <1>6, <3>1
    <3>2. CASE x \in 1 .. Len(recv_queue)
      BY <1>0, <1>6, <3>2 DEF InOrder
    <3>3. QED
      BY <1>5, <1>6, <3>1, <3>2, Z3
  <2>2. ASSUME NEW x \in 1 .. Decoded'
        PROVE  frames[x].msg \notin Undecodable
    <3>1. CASE x = i
      BY <1>1, <3>1
    <3>2. CASE x \in 1 .. Decoded
      BY <1>0, <3>2 DEF InOrder
    <3>3. QED
      BY <1>2, <1>5, <1>8, <3>1, <3>2
  <2>3. Decoded' <= Len(frames)
    BY <1>2, <1>5, <1>8
  <2>4. QED
    BY <1>0, <1>7, <2>1, <2>2, <2>3 DEF InOrder
<1>12. RecvBufferBound'
  <2>1. Len(recv_buffer') <= Len(recv_buffer) /\ Len(recv_buffer') \in Nat
    BY <1>3, <1>4, <1>5
  <2>2. QED
    BY <1>0, <1>5, <2>1, ConfigAssumption, LinkAssumption DEF RecvBufferBound
<1>13. FailedAtFront'
  BY <1>0, <1>1, <1>2, <1>7 DEF FailedAtFront
<1>14. QED
  BY <1>7, <1>10, <1>11, <1>12, <1>13
     DEF IInv, FramesContiguous, FramesOrdered, End

\* A failed decoder has met the undecodable frame at the front.
LEMMA DecodeErrorInv ==
  ASSUME IInv, TypeOK', DecodeError, UNCHANGED <<wire, delivered>>
  PROVE  IInv'
<1>0. TypeOK /\ StateTypeOK
  BY DEF IInv, TypeOK
<1>1. PICK i \in 1 .. Len(frames) : FrontComplete(i) /\ frames[i].msg \in Undecodable
  <2>1. DOMAIN frames = 1 .. Len(frames)
    BY <1>0 DEF StateTypeOK
  <2>2. QED
    BY <2>1 DEF DecodeError
<1>2. i = Decoded + 1 /\ Decoded < Len(frames)
  BY <1>1, FrontIsNext DEF FrontComplete
<1>3. UNCHANGED <<frames, recv_buffer, recv_queue, send_buffer, wire, delivered,
                  Decoded, DecodedBytes, StreamLen>>
  BY DEF DecodeError, stateVars, writeVars, readVars, Decoded, DecodedBytes,
         StreamLen, End
<1>4. FailedAtFront'
  BY <1>1, <1>2, <1>3 DEF FailedAtFront
<1>5. QED
  BY <1>3, <1>4
     DEF IInv, FramesContiguous, FramesOrdered, ByteConservation, IsRun, InOrder,
         RecvBufferBound, End

\* Consuming a message moves it from the queue to the application.
LEMMA ConsumeInv ==
  ASSUME IInv, TypeOK', Consume
  PROVE  IInv'
<1>0. TypeOK /\ StateTypeOK /\ InOrder
  BY DEF IInv, TypeOK
<1>1. /\ recv_queue \in Seq(Message) /\ recv_queue # <<>>
      /\ delivered \in Seq(Message)
      /\ recv_queue' = Tail(recv_queue)
      /\ delivered' = Append(delivered, Head(recv_queue))
  BY <1>0 DEF TypeOK, StateTypeOK, Consume, consume_item
<1>2. /\ Len(recv_queue) \in Nat \ {0} /\ Len(delivered) \in Nat
      /\ Head(recv_queue) = recv_queue[1]
      /\ Len(recv_queue') = Len(recv_queue) - 1
      /\ \A x \in 1 .. Len(recv_queue) - 1 : recv_queue'[x] = recv_queue[x + 1]
  BY <1>1
<1>3. /\ Len(delivered') = Len(delivered) + 1
      /\ delivered'[Len(delivered) + 1] = recv_queue[1]
      /\ \A x \in 1 .. Len(delivered) : delivered'[x] = delivered[x]
  BY <1>1, <1>2
<1>4. Decoded' = Decoded /\ UNCHANGED <<frames, recv_buffer, send_buffer, wire, decoder>>
  BY <1>2, <1>3 DEF Decoded, Consume, consume_item, writeVars
<1>5. UNCHANGED <<DecodedBytes, StreamLen>>
  BY <1>4 DEF DecodedBytes, StreamLen, End
<1>6. InOrder'
  <2>1. ASSUME NEW x \in 1 .. Len(delivered')
        PROVE  delivered'[x] = frames[x].msg
    <3>1. CASE x = Len(delivered) + 1
      <4>1. recv_queue[1] = frames[Len(delivered) + 1].msg
        BY <1>0, <1>2 DEF InOrder
      <4>2. QED
        BY <1>3, <3>1, <4>1
    <3>2. CASE x \in 1 .. Len(delivered)
      BY <1>0, <1>3, <3>2 DEF InOrder
    <3>3. QED
      BY <1>2, <1>3, <3>1, <3>2
  <2>2. ASSUME NEW x \in 1 .. Len(recv_queue')
        PROVE  recv_queue'[x] = frames[Len(delivered') + x].msg
    <3>1. x \in Nat /\ x + 1 \in 1 .. Len(recv_queue)
      BY <1>2
    <3>2. recv_queue'[x] = recv_queue[x + 1]
      BY <1>2
    <3>3. recv_queue[x + 1] = frames[Len(delivered) + (x + 1)].msg
      BY <1>0, <3>1 DEF InOrder
    <3>4. Len(delivered) + (x + 1) = Len(delivered') + x
      BY <1>2, <1>3, <3>1
    <3>5. QED
      BY <3>2, <3>3, <3>4
  <2>3. QED
    BY <1>0, <1>4, <2>1, <2>2 DEF InOrder
<1>7. QED
  BY <1>4, <1>5, <1>6
     DEF IInv, FramesContiguous, FramesOrdered, ByteConservation, IsRun,
         RecvBufferBound, FailedAtFront, End

\* The invariant holds when both peers start.
LEMMA InitIInv == Init => IInv
<1> SUFFICES ASSUME Init
             PROVE  IInv
  OBVIOUS
<1>1. TypeOK
  BY InitTypeOK
<1>2. Decoded = 0 /\ DecodedBytes = 0 /\ StreamLen = 0
  BY DEF Init, StateInit, Decoded, DecodedBytes, StreamLen
<1>3. ByteConservation
  BY <1>2 DEF Init, StateInit, ByteConservation, IsRun
<1>4. InOrder
  BY <1>2 DEF Init, StateInit, InOrder
<1>5. FramesContiguous /\ FramesOrdered
  BY DEF Init, StateInit, FramesContiguous, FramesOrdered
<1>6. RecvBufferBound
  BY ConfigAssumption, LinkAssumption DEF Init, StateInit, RecvBufferBound
<1>7. FailedAtFront
  BY DEF Init, FailedAtFront
<1>8. QED
  BY <1>1, <1>3, <1>4, <1>5, <1>6, <1>7 DEF IInv

\* Every step of the driver keeps it.
LEMMA NextIInv == IInv /\ [Next]_vars => IInv'
<1> SUFFICES ASSUME IInv, [Next]_vars
             PROVE  IInv'
  OBVIOUS
<1>0. TypeOK /\ TypeOK' /\ StateTypeOK
  BY NextTypeOK DEF IInv, TypeOK
<1>1. ASSUME NEW m \in Message, Feed(m)
      PROVE  IInv'
  BY <1>0, <1>1, UnchangedInv DEF Feed, feed_item, readVars
<1>2. CASE BeginEncode
  BY <1>0, <1>2, UnchangedInv DEF BeginEncode, stateVars, writeVars
<1>3. CASE EncodeTurn
  <2>1. CASE EncodeNext
    BY <1>0, <1>3, <2>1, EncodeNextInv DEF EncodeTurn
  <2>2. CASE EncodeError \/ EncodeDone
    BY <1>0, <1>3, <2>2, UnchangedInv
       DEF EncodeTurn, EncodeError, EncodeDone, stateVars, writeVars
  <2>3. QED
    BY <1>3, <2>1, <2>2 DEF EncodeTurn
<1>4. ASSUME NEW n \in 1 .. MaxChunk, TakeBytes(n)
      PROVE  IInv'
  <2>1. send_buffer \in Seq(Nat) /\ n \in Nat /\ Len(send_buffer) \in Nat
    BY <1>0, LinkAssumption DEF StateTypeOK
  <2>2. PICK k \in 0 .. Len(send_buffer) :
          BytesConsumed(n) = SubSeq(send_buffer, 1, k) /\ Len(BytesConsumed(n)) = k
    <3>1. CASE Len(send_buffer) < n
      <4>1. SubSeq(send_buffer, 1, Len(send_buffer)) = send_buffer
        BY <2>1
      <4>2. BytesConsumed(n) = SubSeq(send_buffer, 1, Len(send_buffer))
        BY <3>1, <4>1 DEF BytesConsumed
      <4>3. Len(BytesConsumed(n)) = Len(send_buffer)
        BY <4>1, <4>2
      <4>4. Len(send_buffer) \in 0 .. Len(send_buffer)
        BY <2>1
      <4>5. QED
        BY <4>2, <4>3, <4>4
    <3>2. CASE n <= Len(send_buffer)
      <4>1. Len(SubSeq(send_buffer, 1, n)) = n
        BY <2>1, <3>2
      <4>2. QED
        BY <2>1, <3>2, <4>1 DEF BytesConsumed
    <3>3. QED
      BY <2>1, <3>1, <3>2
  <2>3. QED
    BY <1>0, <1>4, <2>2, TakeInv DEF MovedToWire, TakeBytes, consume_bytes
<1>5. CASE TakeAll
  <2>1. send_buffer \in Seq(Nat) /\ Len(send_buffer) \in Nat
    BY <1>0 DEF StateTypeOK
  <2>2. PICK k \in 0 .. Len(send_buffer) : k = Len(send_buffer)
    BY <2>1
  <2>3. /\ SubSeq(send_buffer, 1, k) = send_buffer
        /\ SubSeq(send_buffer, k + 1, Len(send_buffer)) = <<>>
    BY <2>1, <2>2
  <2>4. QED
    BY <1>0, <1>5, <2>3, TakeInv DEF MovedToWire, TakeAll, consume_all
<1>6. ASSUME NEW n \in 1 .. MaxChunk, Offer(n)
      PROVE  IInv'
  BY <1>0, <1>6, OfferInv
<1>7. CASE BeginDecode
  BY <1>0, <1>7, UnchangedInv DEF BeginDecode, stateVars, writeVars, readVars
<1>8. CASE DecodeTurn
  <2>1. CASE DecodeNext /\ UNCHANGED <<reader, decoder>>
    BY <1>0, <1>8, <2>1, DecodeNextInv DEF DecodeTurn
  <2>2. CASE DecodeError
    BY <1>0, <1>8, <2>2, DecodeErrorInv DEF DecodeTurn
  <2>3. CASE DecodeDone /\ UNCHANGED decoder
    BY <1>0, <1>8, <2>3, UnchangedInv
       DEF DecodeTurn, DecodeDone, stateVars, writeVars, readVars
  <2>4. QED
    BY <1>8, <2>1, <2>2, <2>3 DEF DecodeTurn
<1>9. CASE Consume
  BY <1>0, <1>9, ConsumeInv
<1>10. CASE UNCHANGED vars
  BY <1>0, <1>10, UnchangedInv
     DEF vars, driverVars, stateVars, writeVars, readVars
<1>11. QED
  BY <1>1, <1>2, <1>3, <1>4, <1>5, <1>6, <1>7, <1>8, <1>9, <1>10 DEF Next

-----------------------------------------------------------------------------
(* What follows from the inductive invariant.                              *)

\* The inductive invariant holds in every reachable state.
LEMMA InvariantHolds == SafeSpec => []IInv
BY InitIInv, NextIInv, PTL DEF SafeSpec

(***************************************************************************)
(* No byte is lost, duplicated or reordered between the two halves, for    *)
(* every queue and buffer size and every chunking: the receive buffer      *)
(* always begins at a frame boundary.                                      *)
(***************************************************************************)
THEOREM BytesConserved == SafeSpec => []ByteConservation
<1>1. IInv => ByteConservation
  BY DEF IInv
<1>2. QED
  BY <1>1, InvariantHolds, PTL

(***************************************************************************)
(* The messages consumed are, in order, those that were encoded.           *)
(***************************************************************************)
THEOREM DeliveredInOrder == SafeSpec => []InOrder
<1>1. IInv => InOrder
  BY DEF IInv
<1>2. QED
  BY <1>1, InvariantHolds, PTL

(***************************************************************************)
(* The receive buffer exceeds recv_buffer_size by less than one chunk.     *)
(***************************************************************************)
THEOREM BufferBounded == SafeSpec => []RecvBufferBound
<1>1. IInv => RecvBufferBound
  BY DEF IInv
<1>2. QED
  BY <1>1, InvariantHolds, PTL

\* A step out of a failed state decodes nothing.
LEMMA FailedDecodesNothing ==
  IInv /\ [Next]_vars => (decoder = "failed" => Decoded' = Decoded)
<1> SUFFICES ASSUME IInv, [Next]_vars, decoder = "failed"
             PROVE  Decoded' = Decoded
  OBVIOUS
<1>0. TypeOK /\ StateTypeOK /\ FailedAtFront
  BY DEF IInv, TypeOK
<1>1. CASE DecodeTurn /\ DecodeNext
  <2>1. PICK i \in 1 .. Len(frames) : FrontComplete(i) /\ frames[i].msg \notin Undecodable
    <3>1. DOMAIN frames = 1 .. Len(frames)
      BY <1>0 DEF StateTypeOK
    <3>2. QED
      BY <1>1, <3>1 DEF DecodeNext
  <2>2. i = Decoded + 1
    BY <2>1, FrontIsNext DEF FrontComplete
  <2>3. QED
    BY <1>0, <2>1, <2>2 DEF FailedAtFront
<1>2. CASE Consume
  <2>1. /\ recv_queue \in Seq(Message) /\ recv_queue # <<>>
        /\ delivered \in Seq(Message)
        /\ recv_queue' = Tail(recv_queue)
        /\ delivered' = Append(delivered, Head(recv_queue))
    BY <1>0, <1>2 DEF TypeOK, StateTypeOK, Consume, consume_item
  <2>2. QED
    BY <2>1 DEF Decoded
<1>3. CASE UNCHANGED <<delivered, recv_queue>>
  BY <1>3 DEF Decoded
<1>4. \/ DecodeTurn /\ DecodeNext
      \/ Consume
      \/ UNCHANGED <<delivered, recv_queue>>
  <2>1. CASE \E m \in Message : Feed(m)
    BY <2>1 DEF Feed, feed_item, readVars
  <2>2. CASE BeginEncode \/ BeginDecode
    BY <2>2 DEF BeginEncode, BeginDecode, stateVars, readVars
  <2>3. CASE EncodeTurn
    BY <2>3 DEF EncodeTurn, EncodeNext, EncodeError, EncodeDone, stateVars, readVars
  <2>4. CASE (\E n \in 1 .. MaxChunk : TakeBytes(n)) \/ TakeAll
    BY <2>4 DEF TakeBytes, TakeAll, consume_bytes, consume_all, readVars
  <2>5. CASE \E n \in 1 .. MaxChunk : Offer(n)
    BY <2>5 DEF Offer, feed_bytes
  <2>6. CASE DecodeTurn /\ ~ DecodeNext
    BY <2>6 DEF DecodeTurn, DecodeError, DecodeDone, stateVars, readVars
  <2>7. CASE UNCHANGED vars
    BY <2>7 DEF vars, driverVars, stateVars, readVars
  <2>8. QED
    BY <2>1, <2>2, <2>3, <2>4, <2>5, <2>6, <2>7 DEF Next
<1>5. QED
  BY <1>1, <1>2, <1>3, <1>4

(***************************************************************************)
(* An undecodable frame ends the stream: after the first decoding error    *)
(* nothing more is ever decoded.                                           *)
(***************************************************************************)
THEOREM FailureIsFinal == SafeSpec => DecodeErrorIsFinal
BY InvariantHolds, FailedDecodesNothing, PTL DEF SafeSpec, DecodeErrorIsFinal

-----------------------------------------------------------------------------
(* Refinement of MessageChannel.                                           *)

\* The value of the channel's variable sent.
Sent == [i \in DOMAIN frames |-> frames[i].msg]

\* A step that encodes a message sends it.
LEMMA EncodeSends ==
  ASSUME StateTypeOK, EncodeNext, delivered' = delivered
  PROVE  \E m \in Message : Channel!Send(m)
BY EncodeNextFrames DEF Channel!Send, Sent, FrameMessages

\* A step that hands a message to the application receives the next one sent.
LEMMA ConsumeReceives ==
  ASSUME IInv, Consume
  PROVE  Channel!Receive
<1>0. TypeOK /\ StateTypeOK /\ InOrder
  BY DEF IInv, TypeOK
<1>1. /\ recv_queue \in Seq(Message) /\ Len(recv_queue) \in Nat \ {0}
      /\ Head(recv_queue) = recv_queue[1]
      /\ Len(delivered) \in Nat /\ Len(frames) \in Nat
      /\ DOMAIN frames = 1 .. Len(frames)
      /\ frames' = frames /\ delivered' = Append(delivered, Head(recv_queue))
  BY <1>0 DEF TypeOK, StateTypeOK, Consume, consume_item, writeVars
<1>2. /\ recv_queue[1] = frames[Len(delivered) + 1].msg
      /\ frames[Len(delivered) + 1].msg \notin Undecodable
      /\ Len(delivered) + 1 \in 1 .. Len(frames)
  <2>1. Len(delivered) + 1 \in 1 .. Decoded /\ Decoded <= Len(frames) /\ Decoded \in Nat
    BY <1>0, <1>1 DEF InOrder, Decoded
  <2>2. QED
    BY <1>0, <1>1, <2>1 DEF InOrder
<1>3. Len(Sent) = Len(frames) /\ Sent[Len(delivered) + 1] = frames[Len(delivered) + 1].msg
  BY <1>0, <1>2, FrameMessagesType DEF Sent, FrameMessages
<1>4. Sent' = Sent
  BY <1>1 DEF Sent
<1>5. QED
  BY <1>1, <1>2, <1>3, <1>4 DEF Channel!Receive, Sent

\* Every other step leaves the channel as it is.
LEMMA StepRefines ==
  IInv /\ [Next]_vars => [Channel!Next]_<<Sent, delivered>>
<1> SUFFICES ASSUME IInv, [Next]_vars
             PROVE  Channel!Next \/ (Sent' = Sent /\ delivered' = delivered)
  OBVIOUS
<1>0. StateTypeOK
  BY DEF IInv, TypeOK
<1>1. CASE EncodeTurn /\ EncodeNext
  BY <1>0, <1>1, EncodeSends DEF EncodeTurn, Channel!Next
<1>2. CASE Consume
  BY <1>2, ConsumeReceives DEF Channel!Next
<1>3. CASE UNCHANGED <<frames, delivered>>
  BY <1>3 DEF Sent
<1>4. \/ EncodeTurn /\ EncodeNext
      \/ Consume
      \/ UNCHANGED <<frames, delivered>>
  <2>1. CASE \E m \in Message : Feed(m)
    BY <2>1 DEF Feed, feed_item
  <2>2. CASE BeginEncode \/ BeginDecode
    BY <2>2 DEF BeginEncode, BeginDecode, stateVars, writeVars
  <2>3. CASE EncodeTurn /\ ~ EncodeNext
    BY <2>3 DEF EncodeTurn, EncodeError, EncodeDone, stateVars, writeVars
  <2>4. CASE (\E n \in 1 .. MaxChunk : TakeBytes(n)) \/ TakeAll
    BY <2>4 DEF TakeBytes, TakeAll, consume_bytes, consume_all
  <2>5. CASE \E n \in 1 .. MaxChunk : Offer(n)
    BY <2>5 DEF Offer, feed_bytes, writeVars
  <2>6. CASE DecodeTurn
    BY <2>6 DEF DecodeTurn, DecodeNext, DecodeError, DecodeDone, stateVars, writeVars
  <2>7. CASE UNCHANGED vars
    BY <2>7 DEF vars, driverVars, stateVars, writeVars
  <2>8. QED
    BY <2>1, <2>2, <2>3, <2>4, <2>5, <2>6, <2>7 DEF Next
<1>5. QED
  BY <1>1, <1>2, <1>3, <1>4

(***************************************************************************)
(* The halves, driven in any order, implement the safety of MessageChannel *)
(* with sent the encoded messages and received the consumed ones.          *)
(***************************************************************************)
THEOREM ImplementsChannelSafety == SafeSpec => Channel!SafeSpec
<1>1. Init => Channel!Init
  BY DEF Init, StateInit, Channel!Init
<1>2. IInv /\ [Next]_vars => [Channel!Next]_(Channel!channelVars)
  BY StepRefines DEF Sent, Channel!channelVars
<1>3. QED
  BY <1>1, <1>2, InvariantHolds, PTL DEF SafeSpec, Channel!SafeSpec

-----------------------------------------------------------------------------
(* An encoding error costs one message.                                    *)

\* What an index is of.
LEMMA PoppedType ==
  ASSUME TypeOK
  PROVE  /\ Len(accepted) \in Nat /\ Len(send_queue) \in Nat /\ Len(frames) \in Nat
         /\ DOMAIN accepted = 1 .. Len(accepted)
         /\ DOMAIN send_queue = 1 .. Len(send_queue) /\ DOMAIN frames = 1 .. Len(frames)
         /\ Popped \in Int
BY DEF TypeOK, StateTypeOK, Popped

\* A message that is accepted waits behind the others.
LEMMA FeedMissing ==
  ASSUME TypeOK, TypeOK', OnlyUnencodableMissing, NEW m \in Message, Feed(m)
  PROVE  OnlyUnencodableMissing'
<1>1. CASE SendQueueFull
  BY <1>1 DEF Feed, feed_item, OnlyUnencodableMissing, Popped, Places, readVars
<1>2. CASE ~ SendQueueFull
  <2>1. /\ accepted' = Append(accepted, m) /\ send_queue' = Append(send_queue, m)
        /\ UNCHANGED frames
        /\ accepted \in Seq(Message) /\ send_queue \in Seq(Message)
    BY <1>2 DEF Feed, feed_item, TypeOK, StateTypeOK, readVars
  <2>2. /\ Len(accepted') = Len(accepted) + 1 /\ Len(send_queue') = Len(send_queue) + 1
        /\ DOMAIN send_queue' = 1 .. Len(send_queue) + 1
        /\ \A k \in 1 .. Len(accepted) : accepted'[k] = accepted[k]
        /\ \A k \in 1 .. Len(send_queue) : send_queue'[k] = send_queue[k]
        /\ accepted'[Len(accepted) + 1] = m /\ send_queue'[Len(send_queue) + 1] = m
    BY <2>1
  <2>3. Popped' = Popped /\ Popped \in Nat /\ Popped + Len(send_queue) = Len(accepted)
    BY <2>2, PoppedType DEF Popped, OnlyUnencodableMissing
  <2>4. \A i \in DOMAIN send_queue' : send_queue'[i] = accepted'[Popped + i]
    <3> SUFFICES ASSUME NEW i \in 1 .. Len(send_queue) + 1
                 PROVE  send_queue'[i] = accepted'[Popped + i]
      BY <2>2
    <3>1. CASE i = Len(send_queue) + 1
      BY <2>2, <2>3, <3>1, PoppedType
    <3>2. CASE i \in 1 .. Len(send_queue)
      <4>1. Popped + i \in 1 .. Len(accepted)
        BY <2>3, <3>2, PoppedType
      <4>2. QED
        BY <2>2, <3>2, <4>1, PoppedType DEF OnlyUnencodableMissing
    <3>3. QED
      BY <3>1, <3>2, PoppedType
  <2>5. PICK place \in [DOMAIN frames -> 1 .. Popped] : Places(place)
    BY DEF OnlyUnencodableMissing
  <2>6. \A k \in 1 .. Popped : accepted'[k] = accepted[k]
    BY <2>2, <2>3, PoppedType
  <2>7. Places(place)'
    BY <2>1, <2>3, <2>5, <2>6 DEF Places
  <2>8. QED
    BY <2>1, <2>3, <2>4, <2>5, <2>7 DEF OnlyUnencodableMissing
<1>3. QED
  BY <1>1, <1>2

\* What is left of the queue when the first message is popped.
LEMMA PopQueue ==
  ASSUME TypeOK, OnlyUnencodableMissing, UNCHANGED accepted, send_queue # <<>>,
         send_queue' = Tail(send_queue)
  PROVE  /\ Popped \in Nat /\ Popped' = Popped + 1
         /\ Head(send_queue) = accepted[Popped + 1]
         /\ \A i \in DOMAIN send_queue' : send_queue'[i] = accepted[Popped' + i]
<1>1. /\ send_queue \in Seq(Message) /\ Len(send_queue) >= 1
      /\ Head(send_queue) = send_queue[1]
      /\ Len(send_queue') = Len(send_queue) - 1
      /\ DOMAIN send_queue' = 1 .. Len(send_queue) - 1
      /\ \A i \in 1 .. Len(send_queue) - 1 : send_queue'[i] = send_queue[i + 1]
  BY DEF TypeOK, StateTypeOK
<1>2. Popped \in Nat /\ Popped' = Popped + 1
  BY <1>1, PoppedType DEF Popped, OnlyUnencodableMissing
<1>3. \A i \in 1 .. Len(send_queue) : send_queue[i] = accepted[Popped + i]
  BY PoppedType DEF OnlyUnencodableMissing
<1>4. Head(send_queue) = accepted[Popped + 1]
  BY <1>1, <1>3, PoppedType
<1>5. ASSUME NEW i \in 1 .. Len(send_queue) - 1
      PROVE  send_queue'[i] = accepted[Popped' + i]
  <2>1. i + 1 \in 1 .. Len(send_queue) /\ Popped + (i + 1) = Popped' + i
    BY <1>2, <1>5, PoppedType
  <2>2. send_queue[i + 1] = accepted[Popped + (i + 1)]
    BY <1>3, <2>1
  <2>3. QED
    BY <1>1, <2>1, <2>2
<1>6. QED
  BY <1>1, <1>2, <1>4, <1>5

\* A message that is encoded is the next on the stream.
LEMMA EncodeMissing ==
  ASSUME TypeOK, TypeOK', OnlyUnencodableMissing, UNCHANGED accepted, EncodeNext
  PROVE  OnlyUnencodableMissing'
<1>1. /\ Popped \in Nat /\ Popped' = Popped + 1
      /\ Head(send_queue) = accepted[Popped + 1]
      /\ \A i \in DOMAIN send_queue' : send_queue'[i] = accepted[Popped' + i]
  BY PopQueue DEF EncodeNext
<1>2. PICK place \in [DOMAIN frames -> 1 .. Popped] : Places(place)
  BY DEF OnlyUnencodableMissing
<1> DEFINE n == Len(frames)
<1>3. n \in Nat /\ DOMAIN frames = 1 .. n
  BY PoppedType
<1>4. /\ DOMAIN frames' = 1 .. n + 1
      /\ \A i \in 1 .. n : frames'[i] = frames[i]
      /\ frames'[n + 1].msg = accepted[Popped + 1]
      /\ accepted[Popped + 1] \notin Unencodable
  <2>1. frames' = Append(frames, [msg |-> Head(send_queue), start |-> StreamLen])
    BY DEF EncodeNext
  <2>2. frames \in Seq(Frame)
    BY DEF TypeOK, StateTypeOK
  <2>3. QED
    BY <1>1, <2>1, <2>2 DEF EncodeNext
<1> HIDE DEF n
<1>5. PICK next \in [1 .. n + 1 -> 1 .. Popped + 1] :
        \A i \in 1 .. n + 1 : next[i] = IF i = n + 1 THEN Popped + 1 ELSE place[i]
  <2> DEFINE new == [i \in 1 .. n + 1 |-> IF i = n + 1 THEN Popped + 1 ELSE place[i]]
  <2>1. new \in [1 .. n + 1 -> 1 .. Popped + 1]
    BY <1>1, <1>2, <1>3
  <2>2. QED
    BY <2>1
<1>6. /\ next[n + 1] = Popped + 1
      /\ \A i \in 1 .. n : next[i] = place[i] /\ place[i] \in 1 .. Popped
  BY <1>1, <1>2, <1>3, <1>5
<1>7. \A i, j \in 1 .. n + 1 : i < j => next[i] < next[j]
  <2> SUFFICES ASSUME NEW i \in 1 .. n + 1, NEW j \in 1 .. n + 1, i < j
               PROVE  next[i] < next[j]
    OBVIOUS
  <2>1. i \in 1 .. n
    BY <1>3
  <2>2. CASE j = n + 1
    BY <1>1, <1>6, <2>1, <2>2
  <2>3. CASE j \in 1 .. n
    BY <1>2, <1>3, <1>6, <2>1, <2>3 DEF Places
  <2>4. QED
    BY <1>3, <2>2, <2>3
<1>8. \A i \in 1 .. n + 1 : frames'[i].msg = accepted[next[i]]
  <2> SUFFICES ASSUME NEW i \in 1 .. n + 1
               PROVE  frames'[i].msg = accepted[next[i]]
    OBVIOUS
  <2>1. CASE i = n + 1
    BY <1>4, <1>6, <2>1
  <2>2. CASE i \in 1 .. n
    BY <1>2, <1>3, <1>4, <1>6, <2>2 DEF Places
  <2>3. QED
    BY <1>3, <2>1, <2>2
<1>9. ASSUME NEW k \in 1 .. Popped + 1
      PROVE  accepted[k] \in Unencodable <=> \A i \in 1 .. n + 1 : next[i] # k
  <2>1. CASE k = Popped + 1
    BY <1>3, <1>4, <1>6, <2>1
  <2>2. CASE k \in 1 .. Popped
    <3>1. accepted[k] \in Unencodable <=> \A i \in 1 .. n : place[i] # k
      BY <1>2, <1>3, <2>2 DEF Places
    <3>2. k # next[n + 1]
      BY <1>1, <1>6, <2>2
    <3>3. \A i \in 1 .. n + 1 : i = n + 1 \/ i \in 1 .. n
      BY <1>3
    <3>4. \A i \in 1 .. n : i \in 1 .. n + 1
      BY <1>3
    <3>5. QED
      BY <1>6, <3>1, <3>2, <3>3, <3>4
  <2>3. QED
    BY <1>1, <2>1, <2>2
<1>10. Places(next)'
  BY <1>1, <1>4, <1>7, <1>8, <1>9 DEF Places
<1>11. QED
  BY <1>1, <1>4, <1>5, <1>10 DEF OnlyUnencodableMissing

\* A message that cannot be encoded is not on the stream.
LEMMA ErrorMissing ==
  ASSUME TypeOK, TypeOK', OnlyUnencodableMissing, UNCHANGED accepted, EncodeError
  PROVE  OnlyUnencodableMissing'
<1>1. /\ Popped \in Nat /\ Popped' = Popped + 1
      /\ accepted[Popped + 1] \in Unencodable
      /\ \A i \in DOMAIN send_queue' : send_queue'[i] = accepted[Popped' + i]
      /\ UNCHANGED frames
  BY PopQueue DEF EncodeError
<1>2. PICK place \in [DOMAIN frames -> 1 .. Popped] : Places(place)
  BY DEF OnlyUnencodableMissing
<1>3. place \in [DOMAIN frames -> 1 .. Popped + 1]
  BY <1>1, <1>2
<1>4. ASSUME NEW k \in 1 .. Popped + 1
      PROVE  accepted[k] \in Unencodable <=> \A i \in DOMAIN frames : place[i] # k
  <2>1. CASE k = Popped + 1
    <3>1. \A i \in DOMAIN frames : place[i] # Popped + 1
      BY <1>1, <1>2
    <3>2. QED
      BY <1>1, <2>1, <3>1
  <2>2. CASE k \in 1 .. Popped
    BY <1>2, <2>2 DEF Places
  <2>3. QED
    BY <1>1, <2>1, <2>2
<1>5. Places(place)'
  BY <1>1, <1>2, <1>4 DEF Places
<1>6. QED
  BY <1>1, <1>3, <1>5 DEF OnlyUnencodableMissing

\* Each step keeps the accepted messages where they belong.
LEMMA NextMissing ==
  TypeOK /\ TypeOK' /\ OnlyUnencodableMissing /\ [Next]_vars => OnlyUnencodableMissing'
<1> SUFFICES ASSUME TypeOK, TypeOK', OnlyUnencodableMissing, [Next]_vars
             PROVE  OnlyUnencodableMissing'
  OBVIOUS
<1>1. ASSUME UNCHANGED <<accepted, send_queue, frames>>
      PROVE  OnlyUnencodableMissing'
  BY <1>1 DEF OnlyUnencodableMissing, Popped, Places
<1>2. CASE EncodeTurn
  <2>1. UNCHANGED accepted
    BY <1>2 DEF EncodeTurn
  <2>2. CASE EncodeDone
    BY <1>1, <2>1, <2>2 DEF EncodeDone, stateVars, writeVars
  <2>3. QED
    BY <1>2, <2>1, <2>2, EncodeMissing, ErrorMissing DEF EncodeTurn
<1>3. CASE BeginEncode \/ BeginDecode \/ UNCHANGED vars
  BY <1>1, <1>3 DEF BeginEncode, BeginDecode, vars, driverVars, stateVars, writeVars
<1>4. ASSUME NEW n \in 1 .. MaxChunk, TakeBytes(n) \/ Offer(n)
      PROVE  OnlyUnencodableMissing'
  BY <1>1, <1>4 DEF TakeBytes, Offer, consume_bytes, feed_bytes, writeVars
<1>5. CASE TakeAll \/ Consume
  BY <1>1, <1>5 DEF TakeAll, Consume, consume_all, consume_item, writeVars
<1>6. CASE DecodeTurn
  BY <1>1, <1>6 DEF DecodeTurn, DecodeNext, DecodeError, DecodeDone, stateVars, writeVars
<1>7. QED
  BY <1>2, <1>3, <1>4, <1>5, <1>6, FeedMissing DEF Next

(***************************************************************************)
(* Of the messages that were accepted all are on the stream or queued, in  *)
(* order and once each, but those the coder rejected: for any coder, any   *)
(* sizes and any number of messages.                                       *)
(***************************************************************************)
THEOREM OnlyRejectedMissing == SafeSpec => []OnlyUnencodableMissing
<1>1. SafeSpec => []TypeOK
  BY TypeCorrect
<1>2. Init => OnlyUnencodableMissing
  <2> SUFFICES ASSUME Init
               PROVE  OnlyUnencodableMissing
    OBVIOUS
  <2>1. accepted = <<>> /\ send_queue = <<>> /\ frames = <<>>
    BY DEF Init, StateInit
  <2>2. Popped = 0 /\ DOMAIN frames = {} /\ DOMAIN send_queue = {}
    BY <2>1 DEF Popped
  <2>3. PICK place \in [DOMAIN frames -> 1 .. Popped] : Places(place)
    <3>1. PICK none : none = [i \in {} |-> 0]
      OBVIOUS
    <3>2. none \in [DOMAIN frames -> 1 .. Popped] /\ Places(none)
      BY <2>2, <3>1 DEF Places
    <3>3. QED
      BY <3>2
  <2>4. Popped >= 0 /\ \A i \in DOMAIN send_queue : send_queue[i] = accepted[Popped + i]
    BY <2>2
  <2>5. \E where \in [DOMAIN frames -> 1 .. Popped] : Places(where)
    BY <2>3
  <2>6. QED
    BY <2>4, <2>5, Zenon DEF OnlyUnencodableMissing
<1>3. QED
  BY <1>1, <1>2, NextMissing, PTL DEF SafeSpec

=============================================================================
