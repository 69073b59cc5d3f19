------------------------ MODULE ConnectionState_proofs ------------------------
(***************************************************************************)
(* Lemmas about the two halves that the proofs about their drivers share:  *)
(* runs of stream positions, the frames of the history, and the frame the  *)
(* receive buffer begins with.                                             *)
(***************************************************************************)
EXTENDS ConnectionState, Integers, SequenceTheorems, TLAPS

(***************************************************************************)
(* The frames of the history lie one behind the other, without gaps.       *)
(***************************************************************************)
FramesContiguous ==
  /\ frames # <<>> => frames[1].start = 0
  /\ \A i \in 1 .. Len(frames) - 1 : frames[i + 1].start = End(frames[i])

FramesOrdered ==
  \A i, j \in 1 .. Len(frames) : i < j => End(frames[i]) <= frames[j].start

(***************************************************************************)
(* Where the first d frames end in the stream.                             *)
(***************************************************************************)
Boundary(d) == IF d = 0 THEN 0 ELSE End(frames[d])

-----------------------------------------------------------------------------
(* Runs of positions, and the frames.                                      *)

\* The length of a frame is a positive number.
LEMMA FrameLenType ==
  ASSUME NEW m \in Message
  PROVE  FrameLen(m) \in Nat \ {0}
BY ConfigAssumption DEF FrameLen

\* Every prefix of the stream has a length.
LEMMA StreamLenType ==
  ASSUME StateTypeOK
  PROVE  StreamLen \in Nat
<1>1. CASE frames = <<>>
  BY <1>1 DEF StreamLen
<1>2. CASE frames # <<>>
  <2>1. frames[Len(frames)] \in Frame
    BY <1>2 DEF StateTypeOK
  <2>2. FrameLen(frames[Len(frames)].msg) \in Nat
    BY <2>1, FrameLenType DEF Frame
  <2>3. QED
    BY <1>2, <2>1, <2>2 DEF StreamLen, End, Frame
<1>3. QED
  BY <1>1, <1>2

\* A run of stream positions is a sequence of naturals.
LEMMA BytesType ==
  ASSUME NEW p \in Nat, NEW n \in Nat
  PROVE  /\ Bytes(p, n) \in Seq(Nat)
         /\ Len(Bytes(p, n)) = n
         /\ IsRun(Bytes(p, n), p)
BY DEF Bytes, IsRun

\* Two runs, the second of which begins where the first ends, make one run.
LEMMA RunConcat ==
  ASSUME NEW s \in Seq(Nat), NEW t \in Seq(Nat), NEW p \in Nat,
         IsRun(s, p), IsRun(t, p + Len(s))
  PROVE  /\ s \o t \in Seq(Nat)
         /\ Len(s \o t) = Len(s) + Len(t)
         /\ IsRun(s \o t, p)
<1>1. s \o t \in Seq(Nat) /\ Len(s \o t) = Len(s) + Len(t)
  OBVIOUS
<1>2. ASSUME NEW x \in 1 .. Len(s) + Len(t)
      PROVE  (s \o t)[x] = p + x
  <2>1. CASE x <= Len(s)
    BY <2>1 DEF IsRun
  <2>2. CASE x > Len(s)
    <3>1. (s \o t)[x] = t[x - Len(s)] /\ x - Len(s) \in 1 .. Len(t)
      BY <2>2
    <3>2. t[x - Len(s)] = p + Len(s) + (x - Len(s))
      BY <3>1 DEF IsRun
    <3>3. QED
      BY <3>1, <3>2
  <2>3. QED
    BY <2>1, <2>2
<1>3. QED
  BY <1>1, <1>2 DEF IsRun

\* A run cut in two is two runs.
LEMMA RunSplit ==
  ASSUME NEW s \in Seq(Nat), NEW p \in Nat, IsRun(s, p), NEW k \in 0 .. Len(s)
  PROVE  /\ SubSeq(s, 1, k) \in Seq(Nat)
         /\ SubSeq(s, k + 1, Len(s)) \in Seq(Nat)
         /\ Len(SubSeq(s, 1, k)) = k
         /\ Len(SubSeq(s, k + 1, Len(s))) = Len(s) - k
         /\ IsRun(SubSeq(s, 1, k), p)
         /\ IsRun(SubSeq(s, k + 1, Len(s)), p + k)
<1>1. /\ SubSeq(s, 1, k) \in Seq(Nat)
      /\ Len(SubSeq(s, 1, k)) = k
      /\ \A x \in 1 .. k : SubSeq(s, 1, k)[x] = s[x]
  OBVIOUS
<1>2. /\ SubSeq(s, k + 1, Len(s)) \in Seq(Nat)
      /\ Len(SubSeq(s, k + 1, Len(s))) = Len(s) - k
      /\ \A x \in 1 .. Len(s) - k : SubSeq(s, k + 1, Len(s))[x] = s[k + x]
  OBVIOUS
<1>3. IsRun(SubSeq(s, 1, k), p)
  BY <1>1 DEF IsRun
<1>4. IsRun(SubSeq(s, k + 1, Len(s)), p + k)
  <2>1. ASSUME NEW x \in 1 .. Len(s) - k
        PROVE  s[k + x] = p + k + x
    BY DEF IsRun
  <2>2. QED
    BY <1>2, <2>1 DEF IsRun
<1>5. QED
  BY <1>1, <1>2, <1>3, <1>4

\* What follows the first k bytes of a sequence is a sequence of bytes.
LEMMA SuffixType ==
  ASSUME NEW s \in Seq(Nat), NEW k \in Nat
  PROVE  SubSeq(s, k + 1, Len(s)) \in Seq(Nat)
OBVIOUS

\* A step that leaves the protocol state alone keeps its types.
LEMMA StateTypeKept ==
  ASSUME StateTypeOK, UNCHANGED stateVars
  PROVE  StateTypeOK'
BY DEF StateTypeOK, stateVars, writeVars, readVars

\* A frame of the history, with its fields and its end.
LEMMA FrameFacts ==
  ASSUME StateTypeOK, NEW i \in 1 .. Len(frames)
  PROVE  /\ frames[i] \in Frame
         /\ frames[i].msg \in Message
         /\ frames[i].start \in Nat
         /\ FrameLen(frames[i].msg) \in Nat \ {0}
         /\ End(frames[i]) \in Nat
         /\ End(frames[i]) = frames[i].start + FrameLen(frames[i].msg)
<1>1. frames[i] \in Frame
  BY DEF StateTypeOK
<1>2. frames[i].msg \in Message /\ frames[i].start \in Nat
  BY <1>1 DEF Frame
<1>3. FrameLen(frames[i].msg) \in Nat \ {0}
  BY <1>2, FrameLenType
<1>4. QED
  BY <1>1, <1>2, <1>3 DEF End

\* Every frame ends within the stream.
LEMMA FramesInStream ==
  ASSUME StateTypeOK, FramesOrdered, NEW i \in 1 .. Len(frames)
  PROVE  End(frames[i]) <= StreamLen
<1>1. frames # <<>> /\ Len(frames) \in 1 .. Len(frames)
  BY DEF StateTypeOK
<1>2. StreamLen = End(frames[Len(frames)])
  BY <1>1 DEF StreamLen
<1>3. CASE i = Len(frames)
  BY <1>2, <1>3, FrameFacts
<1>4. CASE i < Len(frames)
  <2>1. End(frames[i]) <= frames[Len(frames)].start
    BY <1>1, <1>4 DEF FramesOrdered
  <2>2. /\ End(frames[i]) \in Nat
        /\ frames[Len(frames)].start \in Nat
        /\ FrameLen(frames[Len(frames)].msg) \in Nat
        /\ End(frames[Len(frames)])
             = frames[Len(frames)].start + FrameLen(frames[Len(frames)].msg)
    BY <1>1, FrameFacts
  <2>3. QED
    BY <1>2, <2>1, <2>2
<1>5. QED
  BY <1>1, <1>3, <1>4

\* A boundary is a position of the stream.
LEMMA BoundaryType ==
  ASSUME StateTypeOK, NEW d \in 0 .. Len(frames)
  PROVE  Boundary(d) \in Nat
BY FrameFacts DEF Boundary

\* The next frame begins at the boundary.
LEMMA NextStart ==
  ASSUME StateTypeOK, FramesContiguous, NEW d \in 0 .. Len(frames) - 1
  PROVE  frames[d + 1].start = Boundary(d)
<1>1. CASE d = 0
  BY <1>1 DEF FramesContiguous, Boundary, StateTypeOK
<1>2. CASE d # 0
  <2>1. d \in 1 .. Len(frames) - 1
    BY <1>2 DEF StateTypeOK
  <2>2. QED
    BY <1>2, <2>1 DEF FramesContiguous, Boundary
<1>3. QED
  BY <1>1, <1>2

(***************************************************************************)
(* A receive buffer that begins at a boundary begins with the next frame:  *)
(* process_read never mistakes body bytes for a length prefix.             *)
(***************************************************************************)
LEMMA FrontFrameIsNext ==
  ASSUME StateTypeOK, FramesContiguous, FramesOrdered,
         NEW d \in 0 .. Len(frames), IsRun(recv_buffer, Boundary(d)),
         NEW i \in 1 .. Len(frames),
         recv_buffer # <<>>, recv_buffer[1] = frames[i].start + 1
  PROVE  /\ i = d + 1
         /\ d < Len(frames)
         /\ frames[i].start = Boundary(d)
<1>1. d \in Nat /\ Len(frames) \in Nat /\ Boundary(d) \in Nat
  BY BoundaryType DEF StateTypeOK
<1>f. /\ frames[i].start \in Nat
      /\ FrameLen(frames[i].msg) \in Nat \ {0}
      /\ End(frames[i]) = frames[i].start + FrameLen(frames[i].msg)
  BY FrameFacts
<1>2. frames[i].start = Boundary(d)
  <2>1. Len(recv_buffer) \in Nat \ {0}
    BY DEF StateTypeOK
  <2>2. recv_buffer[1] = Boundary(d) + 1
    BY <2>1 DEF IsRun
  <2>3. QED
    BY <1>1, <1>f, <2>2
<1>3. ~ (i <= d)
  <2> SUFFICES ASSUME i <= d
               PROVE  FALSE
    OBVIOUS
  <2>1. d \in 1 .. Len(frames) /\ Boundary(d) = End(frames[d])
    BY <1>1 DEF Boundary
  <2>2. End(frames[i]) <= Boundary(d)
    <3>1. CASE i = d
      BY <2>1, <3>1, FrameFacts
    <3>2. CASE i < d
      <4>1. End(frames[i]) <= frames[d].start
        BY <2>1, <3>2 DEF FramesOrdered
      <4>2. /\ frames[d].start \in Nat /\ FrameLen(frames[d].msg) \in Nat
            /\ End(frames[d]) = frames[d].start + FrameLen(frames[d].msg)
        BY <2>1, FrameFacts
      <4>3. End(frames[i]) \in Nat
        BY <1>f
      <4>4. QED
        BY <2>1, <4>1, <4>2, <4>3
    <3>3. QED
      BY <1>1, <3>1, <3>2
  <2>3. QED
    BY <1>1, <1>f, <1>2, <2>2
<1>4. ~ (i > d + 1)
  <2> SUFFICES ASSUME i > d + 1
               PROVE  FALSE
    OBVIOUS
  <2>1. d + 1 \in 1 .. Len(frames) /\ d \in 0 .. Len(frames) - 1
    BY <1>1
  <2>2. frames[d + 1].start = Boundary(d)
    BY <2>1, NextStart
  <2>3. End(frames[d + 1]) <= frames[i].start
    BY <2>1 DEF FramesOrdered
  <2>4. /\ FrameLen(frames[d + 1].msg) \in Nat \ {0}
        /\ End(frames[d + 1]) = frames[d + 1].start + FrameLen(frames[d + 1].msg)
    BY <2>1, FrameFacts
  <2>5. QED
    BY <1>1, <1>2, <2>2, <2>3, <2>4
<1>5. QED
  BY <1>1, <1>2, <1>3, <1>4

\* What the history looks like after one more frame.
LEMMA AppendFrame ==
  ASSUME StateTypeOK, FramesContiguous, FramesOrdered, NEW m \in Message,
         frames' = Append(frames, [msg |-> m, start |-> StreamLen])
  PROVE  /\ Len(frames') = Len(frames) + 1
         /\ \A i \in 1 .. Len(frames) : frames'[i] = frames[i]
         /\ StreamLen' = StreamLen + FrameLen(m)
         /\ \A d \in 0 .. Len(frames) : Boundary(d)' = Boundary(d)
         /\ FramesContiguous'
         /\ FramesOrdered'
<1> DEFINE f == [msg |-> m, start |-> StreamLen]
           n == Len(frames)
<1>0. StateTypeOK /\ n \in Nat /\ StreamLen \in Nat /\ FrameLen(m) \in Nat \ {0}
  BY StreamLenType, FrameLenType DEF StateTypeOK
<1>1. f \in Frame /\ f.start = StreamLen /\ End(f) = StreamLen + FrameLen(m)
  BY <1>0 DEF Frame, End
<1> HIDE DEF f
<1>2. /\ Len(frames') = n + 1
      /\ frames'[n + 1] = f
      /\ \A i \in 1 .. n : frames'[i] = frames[i]
  BY <1>0, <1>1 DEF StateTypeOK, f
<1>3. StreamLen' = StreamLen + FrameLen(m)
  <2>1. frames' # <<>>
    BY <1>0, <1>2
  <2>2. QED
    BY <1>1, <1>2, <2>1 DEF StreamLen, End
<1>4. \A d \in 0 .. n : Boundary(d)' = Boundary(d)
  BY <1>0, <1>2 DEF Boundary, End
<1>5. FramesContiguous'
  <2>1. frames'[1].start = 0
    <3>1. CASE n = 0
      <4>1. StreamLen = 0
        BY <3>1 DEF StreamLen, StateTypeOK
      <4>2. QED
        BY <3>1, <4>1, <1>1, <1>2
    <3>2. CASE n # 0
      BY <3>2, <1>0, <1>2 DEF FramesContiguous
    <3>3. QED
      BY <3>1, <3>2
  <2>2. ASSUME NEW i \in 1 .. n
        PROVE  frames'[i + 1].start = End(frames'[i])
    <3>1. CASE i < n
      BY <3>1, <1>0, <1>2 DEF FramesContiguous
    <3>2. CASE i = n
      <4>1. StreamLen = End(frames[n])
        BY <3>2, <1>0 DEF StreamLen
      <4>2. QED
        BY <3>2, <4>1, <1>1, <1>2
    <3>3. QED
      BY <3>1, <3>2, <1>0
  <2>3. QED
    BY <2>1, <2>2, <1>0, <1>2 DEF FramesContiguous, End
<1>6. FramesOrdered'
  <2>1. ASSUME NEW i \in 1 .. n + 1, NEW j \in 1 .. n + 1, i < j
        PROVE  End(frames'[i]) <= frames'[j].start
    <3>1. CASE j <= n
      BY <2>1, <3>1, <1>0, <1>2 DEF FramesOrdered
    <3>2. CASE j = n + 1
      <4>1. i \in 1 .. n
        BY <2>1, <3>2, <1>0
      <4>2. End(frames[i]) <= StreamLen
        BY <4>1, <1>0, FramesInStream
      <4>3. QED
        BY <3>2, <4>1, <4>2, <1>1, <1>2
    <3>3. QED
      BY <3>1, <3>2, <1>0
  <2>2. QED
    BY <2>1, <1>2 DEF FramesOrdered, End
<1>7. QED
  BY <1>2, <1>3, <1>4, <1>5, <1>6

\* The messages of the frames, in order.
FrameMessages == [i \in DOMAIN frames |-> frames[i].msg]

\* They are a sequence as long as the history.
LEMMA FrameMessagesType ==
  ASSUME StateTypeOK
  PROVE  /\ FrameMessages \in Seq(Message)
         /\ Len(FrameMessages) = Len(frames)
         /\ \A i \in 1 .. Len(frames) : FrameMessages[i] = frames[i].msg
<1>1. DOMAIN frames = 1 .. Len(frames) /\ Len(frames) \in Nat
  BY DEF StateTypeOK
<1>2. \A i \in 1 .. Len(frames) : frames[i].msg \in Message
  BY FrameFacts
<1>3. FrameMessages = [i \in 1 .. Len(frames) |-> frames[i].msg]
  BY <1>1 DEF FrameMessages
<1>4. QED
  BY <1>1, <1>2, <1>3

\* A turn of the encoding loop puts the message at the head of the queue on
\* the stream.
LEMMA EncodeNextFrames ==
  ASSUME StateTypeOK, EncodeNext
  PROVE  /\ Head(send_queue) \in Message
         /\ StreamLen \in Nat
         /\ frames' = Append(frames, [msg |-> Head(send_queue), start |-> StreamLen])
         /\ FrameMessages' = Append(FrameMessages, Head(send_queue))
<1> DEFINE m == Head(send_queue)
<1>1. m \in Message /\ StreamLen \in Nat
  BY StreamLenType DEF StateTypeOK, EncodeNext
<1>2. frames' = Append(frames, [msg |-> m, start |-> StreamLen])
  BY DEF EncodeNext
<1> HIDE DEF m
<1> DEFINE f == [msg |-> m, start |-> StreamLen]
<1>4. f \in Frame /\ f.msg = m
  BY <1>1 DEF Frame
<1> HIDE DEF f
<1>5. /\ DOMAIN frames = 1 .. Len(frames) /\ Len(frames) \in Nat
      /\ DOMAIN frames' = 1 .. Len(frames) + 1
      /\ frames'[Len(frames) + 1] = f
      /\ \A i \in 1 .. Len(frames) : frames'[i] = frames[i]
  BY <1>2, <1>4 DEF StateTypeOK, f
<1>6. FrameMessages' = [i \in 1 .. Len(frames) + 1 |-> frames'[i].msg]
  BY <1>5 DEF FrameMessages
<1>7. /\ FrameMessages \in Seq(Message) /\ Len(FrameMessages) = Len(frames)
      /\ \A k \in 1 .. Len(frames) : FrameMessages[k] = frames[k].msg
  BY FrameMessagesType
<1>8. FrameMessages' = Append(FrameMessages, m)
  <2>1. /\ Append(FrameMessages, m) \in Seq(Message)
        /\ Len(Append(FrameMessages, m)) = Len(frames) + 1
        /\ Append(FrameMessages, m)[Len(frames) + 1] = m
        /\ \A i \in 1 .. Len(frames) : Append(FrameMessages, m)[i] = frames[i].msg
    BY <1>1, <1>5, <1>7, AppendProperties
  <2>2. ASSUME NEW i \in 1 .. Len(frames) + 1
        PROVE  /\ frames'[i].msg = Append(FrameMessages, m)[i]
               /\ frames'[i].msg \in Message
    <3>1. CASE i = Len(frames) + 1
      BY <1>1, <1>4, <1>5, <2>1, <3>1
    <3>2. CASE i \in 1 .. Len(frames)
      <4>1. frames'[i] = frames[i] /\ Append(FrameMessages, m)[i] = frames[i].msg
        BY <1>5, <2>1, <3>2
      <4>2. frames[i].msg \in Message
        BY <3>2, FrameFacts
      <4>3. QED
        BY <4>1, <4>2
    <3>3. i = Len(frames) + 1 \/ i \in 1 .. Len(frames)
      BY <1>5
    <3>4. QED
      BY <3>1, <3>2, <3>3
  <2>3. /\ FrameMessages' \in Seq(Message) /\ Len(FrameMessages') = Len(frames) + 1
        /\ \A i \in 1 .. Len(frames) + 1 : FrameMessages'[i] = Append(FrameMessages, m)[i]
    <3>1. \A i \in 1 .. Len(frames) + 1 : frames'[i].msg \in Message
      BY <2>2
    <3>2. Len(frames) + 1 \in Nat
      BY <1>5
    <3>3. FrameMessages' \in Seq(Message) /\ Len(FrameMessages') = Len(frames) + 1
      BY <1>6, <3>1, <3>2
    <3>4. \A i \in 1 .. Len(frames) + 1 : FrameMessages'[i] = frames'[i].msg
      BY <1>6
    <3>5. QED
      BY <2>2, <3>3, <3>4
  <2>4. QED
    BY <2>1, <2>3, SeqEqual
<1>9. QED
  BY <1>1, <1>2, <1>8 DEF m

-----------------------------------------------------------------------------
(* The turns of the two loops.                                             *)

\* A turn of the encoding loop keeps the types.
LEMMA EncodeNextType ==
  ASSUME StateTypeOK, EncodeNext
  PROVE  StateTypeOK'
<1> DEFINE m == Head(send_queue)
<1>1. m \in Message /\ Tail(send_queue) \in Seq(Message)
      /\ Len(Tail(send_queue)) <= SendQueueSize
  BY ConfigAssumption DEF StateTypeOK, EncodeNext
<1>2. FrameLen(m) \in Nat /\ StreamLen \in Nat
  BY <1>1, FrameLenType, StreamLenType
<1>3. Bytes(StreamLen, FrameLen(m)) \in Seq(Nat)
  BY <1>2, BytesType
<1>4. [msg |-> m, start |-> StreamLen] \in Frame
  BY <1>1, <1>2 DEF Frame
<1>5. send_buffer' \in Seq(Nat)
  BY <1>3 DEF StateTypeOK, EncodeNext
<1>6. frames' \in Seq(Frame)
  BY <1>4 DEF StateTypeOK, EncodeNext
<1>7. QED
  BY <1>1, <1>5, <1>6 DEF StateTypeOK, EncodeNext, readVars

\* A turn of the decoding loop keeps the types.
LEMMA DecodeNextType ==
  ASSUME StateTypeOK, DecodeNext
  PROVE  StateTypeOK'
<1>1. PICK i \in DOMAIN frames :
        /\ recv_queue' = Append(recv_queue, frames[i].msg)
        /\ recv_buffer' =
             SubSeq(recv_buffer, FrameLen(frames[i].msg) + 1, Len(recv_buffer))
  BY DEF DecodeNext
<1>2. frames[i].msg \in Message /\ FrameLen(frames[i].msg) \in Nat
  <2>1. DOMAIN frames = 1 .. Len(frames)
    BY DEF StateTypeOK
  <2>2. QED
    BY <2>1, FrameFacts
<1>3. recv_buffer' \in Seq(Nat)
  <2>1. recv_buffer \in Seq(Nat)
    BY DEF StateTypeOK
  <2>2. QED
    BY <1>1, <1>2, <2>1, SuffixType
<1>4. recv_queue' \in Seq(Message) /\ Len(recv_queue') <= RecvQueueSize
  BY <1>1, <1>2, ConfigAssumption DEF StateTypeOK, DecodeNext, RecvQueueFull
<1>5. QED
  BY <1>3, <1>4 DEF StateTypeOK, DecodeNext, writeVars

(***************************************************************************)
(* A decoding turn takes the next frame off the buffer, which begins with  *)
(* the one behind it from then on.                                         *)
(***************************************************************************)
LEMMA DecodeNextFrame ==
  ASSUME StateTypeOK, FramesContiguous, FramesOrdered,
         NEW d \in 0 .. Len(frames), IsRun(recv_buffer, Boundary(d)), DecodeNext
  PROVE  LET k == FrameLen(frames[d + 1].msg) IN
         /\ d < Len(frames)
         /\ k \in 1 .. Len(recv_buffer)
         /\ frames[d + 1].msg \notin Undecodable
         /\ Boundary(d + 1) = Boundary(d) + k
         /\ recv_queue' = Append(recv_queue, frames[d + 1].msg)
         /\ recv_buffer' \in Seq(Nat)
         /\ Len(recv_buffer') = Len(recv_buffer) - k
         /\ IsRun(recv_buffer', Boundary(d + 1))
<1>1. PICK i \in 1 .. Len(frames) :
        /\ FrontComplete(i)
        /\ frames[i].msg \notin Undecodable
        /\ recv_queue' = Append(recv_queue, frames[i].msg)
        /\ recv_buffer' =
             SubSeq(recv_buffer, FrameLen(frames[i].msg) + 1, Len(recv_buffer))
  <2>1. DOMAIN frames = 1 .. Len(frames)
    BY DEF StateTypeOK
  <2>2. QED
    BY <2>1 DEF DecodeNext
<1>2. recv_buffer # <<>> /\ recv_buffer[1] = frames[i].start + 1
  BY <1>1, ConfigAssumption DEF FrontComplete, FrontFrame, StateTypeOK
<1>3. i = d + 1 /\ d < Len(frames) /\ frames[i].start = Boundary(d)
  BY <1>2, FrontFrameIsNext
<1> DEFINE k == FrameLen(frames[i].msg)
<1>4. /\ k \in Nat \ {0} /\ k <= Len(recv_buffer)
      /\ Boundary(d) \in Nat /\ recv_buffer \in Seq(Nat) /\ Len(recv_buffer) \in Nat
  BY <1>1, FrameFacts, BoundaryType DEF FrontComplete, StateTypeOK
<1>5. Boundary(d + 1) = Boundary(d) + k
  <2>1. d + 1 # 0
    OBVIOUS
  <2>2. Boundary(d + 1) = End(frames[i])
    BY <1>3, <2>1 DEF Boundary
  <2>3. End(frames[i]) = frames[i].start + k
    BY FrameFacts
  <2>4. QED
    BY <1>3, <2>2, <2>3
<1>6. recv_buffer' = SubSeq(recv_buffer, k + 1, Len(recv_buffer))
  BY <1>1
<1> HIDE DEF k
<1>7. k \in 0 .. Len(recv_buffer) /\ k \in 1 .. Len(recv_buffer)
  BY <1>4
<1>8. /\ recv_buffer' \in Seq(Nat)
      /\ Len(recv_buffer') = Len(recv_buffer) - k
      /\ IsRun(recv_buffer', Boundary(d + 1))
  <2>1. IsRun(recv_buffer, Boundary(d))
    OBVIOUS
  <2>2. QED
    BY <1>4, <1>5, <1>6, <1>7, <2>1, RunSplit, SMTT(30)
<1>9. QED
  BY <1>1, <1>3, <1>5, <1>7, <1>8 DEF k

\* The undecodable frame is the next one.
LEMMA DecodeErrorFrame ==
  ASSUME StateTypeOK, FramesContiguous, FramesOrdered,
         NEW d \in 0 .. Len(frames), IsRun(recv_buffer, Boundary(d)), DecodeError
  PROVE  /\ d < Len(frames)
         /\ FrameLen(frames[d + 1].msg) <= Len(recv_buffer)
         /\ frames[d + 1].msg \in Undecodable
<1>1. PICK i \in 1 .. Len(frames) : FrontComplete(i) /\ frames[i].msg \in Undecodable
  <2>1. DOMAIN frames = 1 .. Len(frames)
    BY DEF StateTypeOK
  <2>2. QED
    BY <2>1 DEF DecodeError
<1>2. recv_buffer # <<>> /\ recv_buffer[1] = frames[i].start + 1
  BY <1>1, ConfigAssumption DEF FrontComplete, FrontFrame, StateTypeOK
<1>3. i = d + 1 /\ d < Len(frames)
  BY <1>2, FrontFrameIsNext
<1>4. QED
  BY <1>1, <1>3 DEF FrontComplete

\* Decoding stops at a full queue, or when the next frame is not complete.
LEMMA DecodeDoneFrame ==
  ASSUME StateTypeOK, FramesContiguous, FramesOrdered,
         NEW d \in 0 .. Len(frames), IsRun(recv_buffer, Boundary(d)), DecodeDone,
         ~ RecvQueueFull, d < Len(frames)
  PROVE  Len(recv_buffer) < FrameLen(frames[d + 1].msg)
<1>1. CASE Len(recv_buffer) < HeaderLen
  <2>1. d + 1 \in 1 .. Len(frames)
    BY DEF StateTypeOK
  <2>2. HeaderLen <= FrameLen(frames[d + 1].msg) /\ FrameLen(frames[d + 1].msg) \in Nat
    BY <2>1, FrameFacts, ConfigAssumption DEF FrameLen
  <2>3. QED
    BY <1>1, <2>2, ConfigAssumption DEF StateTypeOK
<1>2. ASSUME NEW i \in DOMAIN frames, FrontFrame(i),
             Len(recv_buffer) < FrameLen(frames[i].msg)
      PROVE  Len(recv_buffer) < FrameLen(frames[d + 1].msg)
  <2>1. i \in 1 .. Len(frames)
    BY DEF StateTypeOK
  <2>2. recv_buffer # <<>> /\ recv_buffer[1] = frames[i].start + 1
    BY <1>2, ConfigAssumption DEF FrontFrame, StateTypeOK
  <2>3. i = d + 1
    BY <2>1, <2>2, FrontFrameIsNext
  <2>4. QED
    BY <1>2, <2>3
<1>3. QED
  BY <1>1, <1>2 DEF DecodeDone

\* What feed_bytes takes is all or nothing, and nothing only of a full buffer.
LEMMA FedFacts ==
  ASSUME StateTypeOK, NEW n \in Nat
  PROVE  /\ Fed(n) \in {0, n}
         /\ Fed(n) # n => RecvBufferSize <= Len(recv_buffer)
         /\ RecvBufferSize <= Len(recv_buffer) => Fed(n) = 0
BY ConfigAssumption DEF Fed, StateTypeOK

=============================================================================
