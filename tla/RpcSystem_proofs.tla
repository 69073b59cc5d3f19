-------------------------- MODULE RpcSystem_proofs --------------------------
(***************************************************************************)
(* RpcSystem keeps its types; how its steps change the messages that are   *)
(* in flight between the two services; and what a step that changes little *)
(* leaves as it was: a lemma for each part of the invariant, and for the   *)
(* three kinds of steps that differ in what they do to those messages.     *)
(***************************************************************************)
EXTENDS RpcInvariant, SequenceTheorems, TLAPS

-----------------------------------------------------------------------------
(* Peers, and the messages in flight between them.                         *)

\* There are two peers, each the other of the other.
LEMMA PeerFact ==
  ASSUME NEW p \in Peer
  PROVE  /\ Other(p) \in Peer /\ Other(p) # p /\ Other(Other(p)) = p
         /\ \A q \in Peer : q = p \/ q = Other(p)
BY ServiceAssumption DEF Other

\* What the first element leaves of a concatenation.
LEMMA TailConcat ==
  ASSUME NEW S, NEW s \in Seq(S), NEW t \in Seq(S), s # <<>>
  PROVE  /\ Head(s) = (s \o t)[1] /\ Head(s) \in S
         /\ Len(s \o t) >= 1
         /\ Len(Tail(s) \o t) = Len(s \o t) - 1
         /\ \A j \in 1 .. Len(Tail(s) \o t) : (Tail(s) \o t)[j] = (s \o t)[j + 1]
<1>1. /\ Len(s) \in Nat /\ Len(s) >= 1 /\ Len(t) \in Nat
      /\ Tail(s) \in Seq(S) /\ Len(Tail(s)) = Len(s) - 1
      /\ Head(s) = s[1] /\ Head(s) \in S
      /\ \A j \in 1 .. Len(s) - 1 : Tail(s)[j] = s[j + 1]
  OBVIOUS
<1>2. Len(s \o t) = Len(s) + Len(t) /\ Len(Tail(s) \o t) = Len(s) - 1 + Len(t)
  BY <1>1
<1>3. (s \o t)[1] = s[1]
  BY <1>1
<1>4. ASSUME NEW j \in 1 .. Len(s) - 1 + Len(t)
      PROVE  (Tail(s) \o t)[j] = (s \o t)[j + 1]
  <2>1. CASE j <= Len(s) - 1
    BY <1>1, <2>1
  <2>2. CASE j > Len(s) - 1
    BY <1>1, <2>2
  <2>3. QED
    BY <1>1, <2>1, <2>2
<1>5. QED
  BY <1>1, <1>2, <1>3, <1>4

\* A sequence of one element behind another, and appended to it.
LEMMA AppendConcat ==
  ASSUME NEW S, NEW s \in Seq(S), NEW t \in Seq(S), Len(t) = 1
  PROVE  Append(s, Head(t)) \o <<>> = s \o t
<1>0. t # <<>> /\ Len(s) \in Nat
  OBVIOUS
<1>1. Head(t) \in S /\ Head(t) = t[1]
  BY <1>0
<1>2. Append(s, Head(t)) \in Seq(S)
  BY <1>1
<1>3. Append(s, Head(t)) \o <<>> = Append(s, Head(t))
  BY <1>2, ConcatEmptySeq
<1>4. /\ Len(Append(s, Head(t))) = Len(s) + 1
      /\ \A j \in 1 .. Len(s) + 1 :
           Append(s, Head(t))[j] = IF j <= Len(s) THEN s[j] ELSE t[1]
  BY <1>1
<1>5. /\ Len(s \o t) = Len(s) + 1 /\ s \o t \in Seq(S)
      /\ \A j \in 1 .. Len(s) + 1 : (s \o t)[j] = IF j <= Len(s) THEN s[j] ELSE t[1]
  <2>1. /\ Len(s \o t) = Len(s) + 1 /\ s \o t \in Seq(S)
        /\ \A j \in 1 .. Len(s) + 1 :
             (s \o t)[j] = IF j <= Len(s) THEN s[j] ELSE t[j - Len(s)]
    <3>1. /\ s \o t \in Seq(S) /\ Len(s \o t) = Len(s) + Len(t)
          /\ \A j \in 1 .. Len(s) + Len(t) :
               (s \o t)[j] = IF j <= Len(s) THEN s[j] ELSE t[j - Len(s)]
      BY ConcatProperties
    <3>2. Len(s) + Len(t) = Len(s) + 1
      OBVIOUS
    <3>3. QED
      BY <3>1, <3>2
  <2>2. \A j \in 1 .. Len(s) + 1 : j <= Len(s) \/ j - Len(s) = 1
    BY <1>0
  <2>3. QED
    BY <2>1, <2>2
<1>6. QED
  BY <1>2, <1>3, <1>4, <1>5, SeqEqual

\* A sequence is the beginning of what is concatenated to it.
LEMMA PrefixConcat ==
  ASSUME NEW S, NEW s \in Seq(S), NEW t \in Seq(S)
  PROVE  /\ Len(s) \in Nat /\ Len(s) <= Len(s \o t)
         /\ \A j \in 1 .. Len(s) : (s \o t)[j] = s[j]
         /\ s \o <<>> = s
BY ConcatProperties, ConcatEmptySeq

\* The messages in flight are messages.
LEMMA SentType ==
  ASSUME TypeOK, NEW p \in Peer
  PROVE  /\ inbox[Other(p)] \in Seq(Message) /\ sending[p] \in Seq(Message)
         /\ Sent(p) \in Seq(Message)
         /\ Len(Sent(p)) \in Nat
         /\ \A j \in 1 .. Len(Sent(p)) : Sent(p)[j] \in Message
BY PeerFact DEF TypeOK, ServiceTypeOK, Sent

\* A message taken off the connection is the first of those in flight.
LEMMA SentTake ==
  ASSUME TypeOK, NEW p \in Peer, NEW kind, Take(p, kind), UNCHANGED sending
  PROVE  /\ Len(Sent(Other(p))) >= 1
         /\ Head(inbox[p]) = Sent(Other(p))[1] /\ Head(inbox[p]) \in Message
         /\ Head(inbox[p]).kind = kind
         /\ Len(Sent(Other(p))') = Len(Sent(Other(p))) - 1
         /\ \A j \in 1 .. Len(Sent(Other(p))') : Sent(Other(p))'[j] = Sent(Other(p))[j + 1]
         /\ Sent(p)' = Sent(p)
<1>1. /\ Other(p) \in Peer /\ Other(Other(p)) = p /\ Other(p) # p
      /\ inbox[p] \in Seq(Message) /\ sending[Other(p)] \in Seq(Message)
  BY PeerFact DEF TypeOK, ServiceTypeOK
<1>2. /\ inbox[p] # <<>> /\ Head(inbox[p]).kind = kind
      /\ inbox'[p] = Tail(inbox[p]) /\ inbox'[Other(p)] = inbox[Other(p)]
  BY <1>1 DEF Take, TypeOK, ServiceTypeOK
<1>3. Sent(Other(p)) = inbox[p] \o sending[Other(p)]
  BY <1>1 DEF Sent
<1>4. Sent(Other(p))' = Tail(inbox[p]) \o sending[Other(p)]
  BY <1>1, <1>2 DEF Sent
<1>5. Sent(p)' = Sent(p)
  BY <1>1, <1>2 DEF Sent
<1>6. /\ Head(inbox[p]) = (inbox[p] \o sending[Other(p)])[1] /\ Head(inbox[p]) \in Message
      /\ Len(inbox[p] \o sending[Other(p)]) >= 1
      /\ Len(Tail(inbox[p]) \o sending[Other(p)])
           = Len(inbox[p] \o sending[Other(p)]) - 1
      /\ \A j \in 1 .. Len(Tail(inbox[p]) \o sending[Other(p)]) :
           (Tail(inbox[p]) \o sending[Other(p)])[j]
             = (inbox[p] \o sending[Other(p)])[j + 1]
  <2>1. inbox[p] \in Seq(Message) /\ sending[Other(p)] \in Seq(Message) /\ inbox[p] # <<>>
    BY <1>1, <1>2
  <2>2. Head(inbox[p]) = (inbox[p] \o sending[Other(p)])[1] /\ Head(inbox[p]) \in Message
    BY <2>1, TailConcat
  <2>3. /\ Len(inbox[p] \o sending[Other(p)]) >= 1
        /\ Len(Tail(inbox[p]) \o sending[Other(p)])
             = Len(inbox[p] \o sending[Other(p)]) - 1
    BY <2>1, TailConcat
  <2>4. ASSUME NEW s \in Seq(Message), NEW t \in Seq(Message), s # <<>>
        PROVE  \A j \in 1 .. Len(Tail(s) \o t) : (Tail(s) \o t)[j] = (s \o t)[j + 1]
    BY <2>4, TailConcat
  <2>5. QED
    BY <2>1, <2>2, <2>3, <2>4
<1>7. QED
  BY <1>2, <1>3, <1>4, <1>5, <1>6

\* A message is sent behind those in flight.
LEMMA SentSend ==
  ASSUME TypeOK, NEW p \in Peer, NEW m \in Message,
         loop[p] = "select", Send(p, m), UNCHANGED inbox
  PROVE  /\ Len(Sent(p)') = Len(Sent(p)) + 1
         /\ \A j \in 1 .. Len(Sent(p)) : Sent(p)'[j] = Sent(p)[j]
         /\ Sent(p)'[Len(Sent(p)) + 1] = m
         /\ Sent(Other(p))' = Sent(Other(p))
<1>1. /\ Other(p) \in Peer /\ Other(p) # p
      /\ inbox[Other(p)] \in Seq(Message)
      /\ sending[p] = <<>>
  BY PeerFact DEF TypeOK, ServiceTypeOK
<1>2. Sent(p) = inbox[Other(p)]
  BY <1>1 DEF Sent
<1>3. Sent(p)' = inbox[Other(p)] \o <<m>>
  BY <1>1 DEF Sent, Send, TypeOK, ServiceTypeOK
<1>4. Sent(Other(p))' = Sent(Other(p))
  BY <1>1 DEF Sent, Send, TypeOK, ServiceTypeOK
<1>5. ASSUME NEW s \in Seq(Message)
      PROVE  /\ Len(s \o <<m>>) = Len(s) + 1
             /\ \A j \in 1 .. Len(s) : (s \o <<m>>)[j] = s[j]
             /\ (s \o <<m>>)[Len(s) + 1] = m
  OBVIOUS
<1>6. QED
  BY <1>1, <1>2, <1>3, <1>4, <1>5

\* writer.send returns: the message is on the connection, as it was in flight.
LEMMA SentFinish ==
  ASSUME TypeOK, NEW p \in Peer, FinishSend(p), NEW q \in Peer
  PROVE  Sent(q)' = Sent(q)
<1>1. /\ Other(p) \in Peer /\ Other(p) # p /\ (q = p \/ q = Other(p))
      /\ Other(Other(p)) = p
      /\ inbox[Other(p)] \in Seq(Message)
      /\ sending[p] \in Seq(Message) /\ Len(sending[p]) = 1
  BY PeerFact DEF TypeOK, ServiceTypeOK, FinishSend
<1>2. /\ inbox'[Other(p)] = Append(inbox[Other(p)], Head(sending[p]))
      /\ inbox'[p] = inbox[p] /\ sending'[p] = <<>>
      /\ sending'[Other(p)] = sending[Other(p)]
  BY <1>1 DEF FinishSend, TypeOK, ServiceTypeOK
<1>3. Append(inbox[Other(p)], Head(sending[p])) \o <<>> = inbox[Other(p)] \o sending[p]
  BY <1>1, AppendConcat
<1>4. QED
  BY <1>1, <1>2, <1>3 DEF Sent

\* What a service was sending when it ended is lost.
LEMMA SentLost ==
  ASSUME TypeOK, NEW p \in Peer, UNCHANGED inbox,
         sending' = [sending EXCEPT ![p] = <<>>]
  PROVE  /\ Len(Sent(p)') \in Nat /\ Len(Sent(p)') <= Len(Sent(p))
         /\ \A j \in 1 .. Len(Sent(p)') : Sent(p)'[j] = Sent(p)[j]
         /\ Sent(Other(p))' = Sent(Other(p))
<1>1. /\ Other(p) \in Peer /\ Other(p) # p
      /\ inbox[Other(p)] \in Seq(Message)
      /\ sending[p] \in Seq(Message)
  BY PeerFact DEF TypeOK, ServiceTypeOK
<1>2. /\ sending'[p] = <<>> /\ sending'[Other(p)] = sending[Other(p)]
  BY <1>1 DEF TypeOK, ServiceTypeOK
<1>3. /\ Len(inbox[Other(p)]) \in Nat
      /\ Len(inbox[Other(p)]) <= Len(inbox[Other(p)] \o sending[p])
      /\ \A j \in 1 .. Len(inbox[Other(p)]) :
           (inbox[Other(p)] \o sending[p])[j] = inbox[Other(p)][j]
      /\ inbox[Other(p)] \o <<>> = inbox[Other(p)]
  BY <1>1, PrefixConcat
<1>4. Sent(p)' = inbox[Other(p)]
  BY <1>2, <1>3 DEF Sent
<1>5. Sent(p) = inbox[Other(p)] \o sending[p]
  BY DEF Sent
<1>6. Sent(Other(p))' = Sent(Other(p))
  BY <1>2 DEF Sent
<1>7. QED
  BY <1>3, <1>4, <1>5, <1>6

\* Nothing is in flight that was not.
LEMMA SentSame ==
  ASSUME UNCHANGED <<inbox, sending>>, NEW p \in Peer
  PROVE  Sent(p)' = Sent(p)
BY DEF Sent

-----------------------------------------------------------------------------
(* Type correctness.                                                       *)

\* A message about a call is a message.
LEMMA MsgType ==
  ASSUME TypeOK, NEW c \in Call, NEW item \in Nat,
         NEW kind \in {"Oneshot", "Request", "Response", "OpenStream",
                       "StreamMessage", "CloseStream"}
  PROVE  /\ Msg(kind, c, item) \in Message
         /\ Msg(kind, c, item).kind = kind /\ Msg(kind, c, item).data = c
         /\ Msg(kind, c, item).id = call_id[c] /\ Msg(kind, c, item).item = item
BY DEF Msg, Message, TypeOK, ServiceTypeOK

\* A table with another entry is a table.
LEMMA TableType ==
  ASSUME NEW table \in [Peer -> [Id -> Call \union {NoCall}]],
         NEW p \in Peer, NEW i \in Id, NEW c \in Call \union {NoCall}
  PROVE  [table EXCEPT ![p][i] = c] \in [Peer -> [Id -> Call \union {NoCall}]]
OBVIOUS

\* The loops and what they are to send.
LEMMA LoopType ==
  ASSUME TypeOK
  PROVE  loop \in [Peer -> {"select", "send", "handle", "ended", "failed", "panicked"}]
BY Zenon DEF TypeOK, ServiceTypeOK

\* The tables of the calls under way, and what the calls' handlers left to send.
LEMMA TableTypes ==
  ASSUME TypeOK
  PROVE  /\ incoming_responses \in [Peer -> [Id -> Call \union {NoCall}]]
         /\ incoming_streams \in [Peer -> [Id -> Call \union {NoCall}]]
         /\ outgoing_responses \in [Call -> {"none", "pending", "ready", "cancelled"}]
BY Zenon DEF TypeOK, ServiceTypeOK

\* An entry of a table is a call, or there is none.
LEMMA EntryType ==
  ASSUME TypeOK, NEW p \in Peer, NEW i \in Id
  PROVE  /\ incoming_responses[p][i] \in Call \union {NoCall}
         /\ incoming_streams[p][i] \in Call \union {NoCall}
BY TableTypes

\* How far a call has come, and the answer it has.
LEMMA CallerType ==
  ASSUME TypeOK
  PROVE  /\ caller \in [Call -> {"idle", "waiting", "answered", "cancelled", "panicked",
                                 "open", "ended", "cut", "dropped", "sent"}]
         /\ answer \in [Call -> Call \union {NoCall}]
BY Zenon DEF TypeOK, ServiceTypeOK

\* The items a caller received.
LEMMA ReceivedType ==
  ASSUME TypeOK, NEW c \in Call
  PROVE  received[c] \in Seq([data : Call, item : Nat])
<1>1. received \in [Call -> Seq([data : Call, item : Nat])]
  BY Zenon DEF TypeOK, ServiceTypeOK
<1>2. QED
  BY <1>1

\* What a response does: a call that waits under its id has it, one that gave
\* up does not, and one to no call is ignored.
LEMMA TakeResponseEffect ==
  ASSUME NEW p, Service(TakeResponse(p)),
         NEW m, m = Head(inbox[p]), NEW c, c = incoming_responses[p][m.id]
  PROVE  /\ Take(p, "Response")
         /\ UNCHANGED <<loop, sending, interaction, handle, incoming_streams, call_id,
                        outgoing_responses, outgoing_stream, received, handler, emitted>>
         /\ c = NoCall => UNCHANGED <<incoming_responses, caller, answer>>
         /\ c # NoCall =>
              /\ incoming_responses' = [incoming_responses EXCEPT ![p][m.id] = NoCall]
              /\ caller' = [caller EXCEPT ![c] =
                               IF @ = "waiting" THEN "answered" ELSE @]
              /\ answer' = [answer EXCEPT ![c] =
                               IF caller[c] = "waiting" THEN m.data ELSE @]
<1>1. UNCHANGED <<loop, sending, handleVars, incoming_streams, outVars, call_id, received,
                  handler, emitted>>
  BY Zenon DEF Service, TakeResponse
<1>2. QED
  BY <1>1, Zenon DEF Service, TakeResponse, handleVars, outVars

\* What the end of a stream does: its entry goes and its receiver sees the end,
\* and the service panics when the table has no such stream.
LEMMA TakeCloseEffect ==
  ASSUME NEW p, Service(TakeClose(p)),
         NEW m, m = Head(inbox[p]), NEW c, c = incoming_streams[p][m.id]
  PROVE  /\ Take(p, "CloseStream")
         /\ UNCHANGED <<sending, interaction, handle, incoming_responses, call_id, answer,
                        outgoing_responses, outgoing_stream, received, handler, emitted>>
         /\ c # NoCall =>
              /\ incoming_streams' = [incoming_streams EXCEPT ![p][m.id] = NoCall]
              /\ caller' = [caller EXCEPT ![c] = IF @ = "open" THEN "ended" ELSE @]
              /\ UNCHANGED loop
         /\ c = NoCall =>
              /\ loop' = [loop EXCEPT ![p] = "panicked"]
              /\ UNCHANGED <<incoming_streams, caller>>
<1>1. UNCHANGED <<sending, handleVars, incoming_responses, outVars, call_id, answer, received,
                  handler, emitted>>
  BY Zenon DEF Service, TakeClose
<1>2. QED
  BY <1>1, Zenon DEF Service, TakeClose, handleVars, outVars

\* Everything starts empty.
LEMMA InitTypeOK == Init => TypeOK
BY ServiceAssumption DEF Init, ServiceInit, TypeOK, ServiceTypeOK

\* A service that takes a message leaves room, and one that sends has the message.
LEMMA TakeTypeOK ==
  ASSUME TypeOK, NEW p \in Peer, NEW kind, Take(p, kind)
  PROVE  /\ inbox' \in [Peer -> Seq(Message)]
         /\ \A q \in Peer : Len(inbox'[q]) <= ChannelSize
         /\ Head(inbox[p]) \in Message
         /\ Head(inbox[p]).id \in Id /\ Head(inbox[p]).data \in Call
         /\ Head(inbox[p]).item \in Nat
<1>1. inbox[p] \in Seq(Message) /\ inbox[p] # <<>> /\ Len(inbox[p]) <= ChannelSize
  BY DEF TypeOK, ServiceTypeOK, Take
<1>2. /\ Head(inbox[p]) \in Message /\ Tail(inbox[p]) \in Seq(Message)
      /\ Len(Tail(inbox[p])) <= ChannelSize
  BY <1>1, ServiceAssumption
<1>3. QED
  BY <1>2 DEF TypeOK, ServiceTypeOK, Take, Message

\* A service that starts to send has one message and waits.
LEMMA SendTypeOK ==
  ASSUME TypeOK, NEW p \in Peer, NEW m \in Message, Send(p, m)
  PROVE  /\ sending' \in [Peer -> Seq(Message)]
         /\ loop' \in [Peer -> {"select", "send", "handle", "ended", "failed", "panicked"}]
         /\ \A q \in Peer :
              IF loop'[q] = "send" THEN Len(sending'[q]) = 1 ELSE sending'[q] = <<>>
<1>1. <<m>> \in Seq(Message) /\ Len(<<m>>) = 1
  OBVIOUS
<1>2. QED
  BY <1>1 DEF Send, TypeOK, ServiceTypeOK

\* The steps of next_message keep the types.
LEMMA ServiceTypes ==
  ASSUME TypeOK, NEW p \in Peer, UNCHANGED <<handler, emitted>>,
         \/ TakeResponse(p) \/ TakeStreamMessage(p) \/ TakeClose(p) \/ TakeEnd(p)
         \/ \E c \in Call : SendItem(p, c) \/ SendResponse(p, c)
         \/ SendInteraction(p) \/ FinishSend(p) \/ FailSend(p)
  PROVE  TypeOK'
<1>1. CASE TakeResponse(p)
  <2>1. Take(p, "Response")
    BY <1>1, Zenon DEF TakeResponse
  <2> DEFINE m == Head(inbox[p])
             d == incoming_responses[p][m.id]
  <2>t. m.id \in Id /\ m.data \in Call
    BY <2>1, TakeTypeOK
  <2>2. d \in Call \union {NoCall}
    BY <2>t, Z3 DEF TypeOK, ServiceTypeOK
  <2>3. /\ incoming_responses' \in [Peer -> [Id -> Call \union {NoCall}]]
        /\ answer' \in [Call -> Call \union {NoCall}]
    <3>1. /\ incoming_responses' \in
               {incoming_responses, [incoming_responses EXCEPT ![p][m.id] = NoCall]}
          /\ answer' \in {answer, [answer EXCEPT ![d] = m.data],
                            [answer EXCEPT ![d] = answer[d]]}
      BY <1>1, <2>t, <2>2, Zenon DEF TakeResponse
    <3>2. /\ incoming_responses \in [Peer -> [Id -> Call \union {NoCall}]]
          /\ answer \in [Call -> Call \union {NoCall}]
      BY Zenon DEF TypeOK, ServiceTypeOK
    <3>3. incoming_responses' \in [Peer -> [Id -> Call \union {NoCall}]]
      <4>1. \A i \in Id : [incoming_responses EXCEPT ![p][i] = NoCall]
                           \in [Peer -> [Id -> Call \union {NoCall}]]
        BY <3>2, TableType
      <4>2. QED
        BY <2>t, <3>1, <3>2, <4>1, Zenon
    <3>4. answer[d] \in Call \union {NoCall} \/ d \notin Call
      BY <3>2
    <3>5. answer' \in [Call -> Call \union {NoCall}]
      BY <2>t, <3>1, <3>2, <3>4, Zenon
    <3>6. QED
      BY <3>3, <3>5
  <2>4. caller' \in [Call -> {"idle", "waiting", "answered", "cancelled", "panicked",
                             "open", "ended", "cut", "dropped", "sent"}]
    <3>1. caller' \in {caller, [caller EXCEPT ![d] = "answered"],
                      [caller EXCEPT ![d] = caller[d]]}
      BY <1>1, <2>t, <2>2, Zenon DEF TakeResponse
    <3>2. caller \in [Call -> {"idle", "waiting", "answered", "cancelled", "panicked",
                               "open", "ended", "cut", "dropped", "sent"}]
      BY Zenon DEF TypeOK, ServiceTypeOK
    <3>3. QED
      BY <2>2, <3>1, <3>2, Zenon
  <2>5. QED
    BY <1>1, <2>1, <2>3, <2>4, TakeTypeOK, Zenon
       DEF TypeOK, ServiceTypeOK, TakeResponse, handleVars, outVars
<1>2. CASE TakeStreamMessage(p)
  <2>1. Take(p, "StreamMessage")
    BY <1>2, Zenon DEF TakeStreamMessage
  <2>2. loop[p] = "select" /\ sending[p] = <<>>
    BY <2>1 DEF Take, TypeOK, ServiceTypeOK
  <2> DEFINE m == Head(inbox[p])
             d == incoming_streams[p][m.id]
  <2>3. m.id \in Id /\ m.data \in Call /\ m.item \in Nat
    BY <2>1, TakeTypeOK, Zenon
  <2>4. received' \in [Call -> Seq([data : Call, item : Nat])]
    <3>1. [data |-> m.data, item |-> m.item] \in [data : Call, item : Nat]
      BY <2>3
    <3>2. received \in [Call -> Seq([data : Call, item : Nat])]
      BY DEF TypeOK, ServiceTypeOK
    <3>3. ASSUME NEW e \in Call
          PROVE  Append(received[e], [data |-> m.data, item |-> m.item])
                   \in Seq([data : Call, item : Nat])
      BY <3>1, <3>2, AppendProperties
    <3>4. \/ received' = received
          \/ received' = [received EXCEPT ![d] = Append(received[d],
                                              [data |-> m.data, item |-> m.item])]
      BY <1>2, Zenon DEF TakeStreamMessage
    <3> HIDE DEF d, m
    <3>5. QED
      BY <3>2, <3>3, <3>4
  <2>5. /\ loop' \in [Peer -> {"select", "send", "handle", "ended", "failed", "panicked"}]
        /\ \A q \in Peer : loop'[q] = "send" <=> loop[q] = "send"
    <3>1. loop \in [Peer -> {"select", "send", "handle", "ended", "failed", "panicked"}]
      BY DEF TypeOK, ServiceTypeOK
    <3>2. loop' \in {loop, [loop EXCEPT ![p] = "panicked"]}
      BY <1>2, Zenon DEF TakeStreamMessage
    <3>3. QED
      BY <2>2, <3>1, <3>2
  <2>6. QED
    BY <1>2, <2>1, <2>4, <2>5, TakeTypeOK, Zenon
       DEF TypeOK, ServiceTypeOK, TakeStreamMessage, handleVars, tableVars, outVars
<1>3. CASE TakeClose(p)
  <2>1. Take(p, "CloseStream")
    BY <1>3, Zenon DEF TakeClose
  <2>2. loop[p] = "select" /\ sending[p] = <<>>
    BY <2>1 DEF Take, TypeOK, ServiceTypeOK
  <2> DEFINE m == Head(inbox[p])
             d == incoming_streams[p][m.id]
  <2>t. m.id \in Id
    BY <2>1, TakeTypeOK
  <2>3. d \in Call \union {NoCall}
    BY <2>t DEF TypeOK, ServiceTypeOK
  <2>4. incoming_streams' \in [Peer -> [Id -> Call \union {NoCall}]]
    <3>1. incoming_streams' \in
            {incoming_streams, [incoming_streams EXCEPT ![p][m.id] = NoCall]}
      BY <1>3, Zenon DEF TakeClose
    <3>2. incoming_streams \in [Peer -> [Id -> Call \union {NoCall}]]
      BY Zenon DEF TypeOK, ServiceTypeOK
    <3>3. QED
      BY <2>t, <3>1, <3>2, TableType, Z3
  <2>5. caller' \in [Call -> {"idle", "waiting", "answered", "cancelled", "panicked",
                             "open", "ended", "cut", "dropped", "sent"}]
    <3>1. caller' \in {caller, [caller EXCEPT ![d] = "ended"],
                      [caller EXCEPT ![d] = caller[d]]}
      BY <1>3, <2>3, Zenon DEF TakeClose
    <3>2. caller \in [Call -> {"idle", "waiting", "answered", "cancelled", "panicked",
                               "open", "ended", "cut", "dropped", "sent"}]
      BY DEF TypeOK, ServiceTypeOK
    <3>3. QED
      BY <2>3, <3>1, <3>2, Zenon
  <2>6. /\ loop' \in [Peer -> {"select", "send", "handle", "ended", "failed", "panicked"}]
        /\ \A q \in Peer : loop'[q] = "send" <=> loop[q] = "send"
    <3>1. loop \in [Peer -> {"select", "send", "handle", "ended", "failed", "panicked"}]
      BY DEF TypeOK, ServiceTypeOK
    <3>2. loop' \in {loop, [loop EXCEPT ![p] = "panicked"]}
      BY <1>3, Zenon DEF TakeClose
    <3>3. QED
      BY <2>2, <3>1, <3>2
  <2>7. UNCHANGED <<sending, interaction, handle, incoming_responses, outgoing_responses,
                    outgoing_stream, call_id, answer, received, handler, emitted>>
    BY <1>3, Zenon DEF TakeClose, handleVars, outVars
  <2>8. \A q \in Peer :
          IF loop'[q] = "send" THEN Len(sending'[q]) = 1 ELSE sending'[q] = <<>>
    BY <2>6, <2>7 DEF TypeOK, ServiceTypeOK
  <2>9. /\ inbox' \in [Peer -> Seq(Message)]
        /\ \A q \in Peer : Len(inbox'[q]) <= ChannelSize
    BY <2>1, TakeTypeOK
  <2>10. /\ sending' \in [Peer -> Seq(Message)]
         /\ interaction' \in [Peer -> Seq(Call)]
         /\ handle' \in [Peer -> {"held", "dropped"}]
         /\ incoming_responses' \in [Peer -> [Id -> Call \union {NoCall}]]
         /\ outgoing_responses' \in [Call -> {"none", "pending", "ready", "cancelled"}]
         /\ outgoing_stream' \in [Call -> Seq(Nat)]
         /\ call_id' \in [Call -> Id]
         /\ answer' \in [Call -> Call \union {NoCall}]
         /\ received' \in [Call -> Seq([data : Call, item : Nat])]
    BY <2>7 DEF TypeOK, ServiceTypeOK
  <2>11. ServiceTypeOK'
    BY <2>4, <2>5, <2>6, <2>8, <2>9, <2>10 DEF ServiceTypeOK
  <2>12. QED
    BY <2>7, <2>11, Zenon DEF TypeOK
<1>4. CASE TakeEnd(p)
  <2>1. UNCHANGED <<inbox, sending, handleVars, tableVars, outVars, callerVars>>
    BY <1>4 DEF TakeEnd
  <2>2. /\ loop' \in [Peer -> {"select", "send", "handle", "ended", "failed", "panicked"}]
        /\ \A q \in Peer : loop'[q] = "send" <=> loop[q] = "send"
    <3>1. loop \in [Peer -> {"select", "send", "handle", "ended", "failed", "panicked"}]
      BY DEF TypeOK, ServiceTypeOK
    <3>2. /\ loop[p] = "select"
          /\ loop' \in {[loop EXCEPT ![p] = "ended"], [loop EXCEPT ![p] = "failed"]}
      BY <1>4 DEF TakeEnd
    <3>3. QED
      BY <3>1, <3>2
  <2>3. \A q \in Peer :
          IF loop'[q] = "send" THEN Len(sending'[q]) = 1 ELSE sending'[q] = <<>>
    BY <2>1, <2>2 DEF TypeOK, ServiceTypeOK
  <2>4. QED
    BY <2>1, <2>2, <2>3
       DEF TypeOK, ServiceTypeOK, handleVars, tableVars, outVars, callerVars
<1>5. ASSUME NEW c \in Call, SendItem(p, c)
      PROVE  TypeOK'
  <2>1. /\ Head(outgoing_stream[c]) \in Nat /\ Tail(outgoing_stream[c]) \in Seq(Nat)
    BY <1>5 DEF SendItem, TypeOK, ServiceTypeOK
  <2>2. Msg("StreamMessage", c, Head(outgoing_stream[c])) \in Message
    BY <2>1, MsgType
  <2>3. QED
    BY <1>5, <2>1, <2>2, SendTypeOK
       DEF TypeOK, ServiceTypeOK, SendItem, handleVars, tableVars, callerVars
<1>6. ASSUME NEW c \in Call, SendResponse(p, c)
      PROVE  TypeOK'
  <2>1. Msg("Response", c, 0) \in Message
    BY MsgType
  <2>2. CASE Send(p, Msg("Response", c, 0))
    BY <1>6, <2>1, <2>2, SendTypeOK
       DEF TypeOK, ServiceTypeOK, SendResponse, handleVars, tableVars, callerVars
  <2>3. CASE loop' = [loop EXCEPT ![p] = "panicked"] /\ UNCHANGED sending
    BY <1>6, <2>3
       DEF TypeOK, ServiceTypeOK, SendResponse, handleVars, tableVars, callerVars
  <2>4. QED
    BY <1>6, <2>2, <2>3 DEF SendResponse
<1>7. CASE SendInteraction(p)
  <2> DEFINE d == Head(interaction[p])
  <2>1. d \in Call /\ Tail(interaction[p]) \in Seq(Call)
    BY <1>7 DEF SendInteraction, TypeOK, ServiceTypeOK
  <2>2. \A kind \in {"Request", "OpenStream", "Oneshot"} : Msg(kind, d, 0) \in Message
    BY <2>1, MsgType
  <2>3. PICK kind \in {"Request", "OpenStream", "Oneshot"} : Send(p, Msg(kind, d, 0))
    BY <1>7 DEF SendInteraction
  <2>4. /\ incoming_responses' \in [Peer -> [Id -> Call \union {NoCall}]]
        /\ incoming_streams' \in [Peer -> [Id -> Call \union {NoCall}]]
    <3>1. /\ incoming_responses' \in
               {incoming_responses, [incoming_responses EXCEPT ![p][call_id[d]] = d]}
          /\ incoming_streams' \in
               {incoming_streams, [incoming_streams EXCEPT ![p][call_id[d]] = d]}
      BY <1>7 DEF SendInteraction, tableVars
    <3>2. /\ incoming_responses \in [Peer -> [Id -> Call \union {NoCall}]]
          /\ incoming_streams \in [Peer -> [Id -> Call \union {NoCall}]]
          /\ call_id[d] \in Id
      BY <2>1 DEF TypeOK, ServiceTypeOK
    <3>3. /\ [incoming_responses EXCEPT ![p][call_id[d]] = d]
               \in [Peer -> [Id -> Call \union {NoCall}]]
          /\ [incoming_streams EXCEPT ![p][call_id[d]] = d]
               \in [Peer -> [Id -> Call \union {NoCall}]]
      BY <2>1, <3>2, TableType
    <3>4. QED
      BY <3>1, <3>2, <3>3
  <2>5. QED
    BY <1>7, <2>1, <2>2, <2>3, <2>4, SendTypeOK
       DEF TypeOK, ServiceTypeOK, SendInteraction, outVars, callerVars
<1>8. CASE FinishSend(p)
  <2>1. /\ Other(p) \in Peer
        /\ sending[p] \in Seq(Message) /\ Len(sending[p]) = 1
        /\ inbox[Other(p)] \in Seq(Message)
    BY <1>8, PeerFact DEF FinishSend, TypeOK, ServiceTypeOK
  <2>2. Head(sending[p]) \in Message
    BY <2>1
  <2>3. /\ Append(inbox[Other(p)], Head(sending[p])) \in Seq(Message)
        /\ Len(Append(inbox[Other(p)], Head(sending[p]))) <= ChannelSize
    BY <1>8, <2>1, <2>2, ServiceAssumption DEF FinishSend
  <2>4. /\ inbox' \in [Peer -> Seq(Message)]
        /\ \A q \in Peer : Len(inbox'[q]) <= ChannelSize
    BY <1>8, <2>1, <2>3 DEF TypeOK, ServiceTypeOK, FinishSend
  <2>5. /\ loop' \in [Peer -> {"select", "send", "handle", "ended", "failed", "panicked"}]
        /\ sending' \in [Peer -> Seq(Message)]
        /\ \A q \in Peer :
             IF loop'[q] = "send" THEN Len(sending'[q]) = 1 ELSE sending'[q] = <<>>
    BY <1>8 DEF TypeOK, ServiceTypeOK, FinishSend
  <2>6. QED
    BY <1>8, <2>4, <2>5
       DEF TypeOK, ServiceTypeOK, FinishSend, handleVars, tableVars, outVars, callerVars
<1>9. CASE FailSend(p)
  <2>1. /\ loop' \in [Peer -> {"select", "send", "handle", "ended", "failed", "panicked"}]
        /\ sending' \in [Peer -> Seq(Message)]
        /\ \A q \in Peer :
             IF loop'[q] = "send" THEN Len(sending'[q]) = 1 ELSE sending'[q] = <<>>
    BY <1>9 DEF TypeOK, ServiceTypeOK, FailSend
  <2>2. QED
    BY <1>9, <2>1
       DEF TypeOK, ServiceTypeOK, FailSend, handleVars, tableVars, outVars, callerVars
<1>10. QED
  BY <1>1, <1>2, <1>3, <1>4, <1>5, <1>6, <1>7, <1>8, <1>9, Zenon

\* The steps of the applications keep the types.
LEMMA ApplicationTypes ==
  ASSUME TypeOK,
         \/ Application
         \/ \E c \in Call : CallPanics(c) \/ StreamCut(c)
  PROVE  TypeOK'
<1>1. ASSUME NEW c \in Call, NEW i \in Id, NEW state \in {"waiting", "open", "sent"},
             Begin(c, i, state)
      PROVE  TypeOK'
  <2>1. /\ Owner[c] \in Peer /\ interaction \in [Peer -> Seq(Call)]
        /\ \A q \in Peer : Append(interaction[q], c) \in Seq(Call)
    BY ServiceAssumption DEF TypeOK, ServiceTypeOK
  <2>2. interaction' \in [Peer -> Seq(Call)]
    BY <1>1, <2>1 DEF Begin, Interact
  <2>3. QED
    BY <1>1, <2>2 DEF TypeOK, ServiceTypeOK, Begin, loopVars, tableVars, outVars
<1>2. ASSUME NEW c \in Call, NEW i \in Id,
             send_request(c, i) \/ send_stream(c, i) \/ send_oneshot(c)
      PROVE  TypeOK'
  <2>1. call_id[c] \in Id
    BY DEF TypeOK, ServiceTypeOK
  <2>2. QED
    BY <1>1, <1>2, <2>1 DEF send_request, send_stream, send_oneshot
<1>3. ASSUME NEW c \in Call,
             CancelCall(c) \/ DropStream(c) \/ CallPanics(c) \/ StreamCut(c)
      PROVE  TypeOK'
  <2>1. \E state \in {"cancelled", "dropped", "panicked", "cut"} :
          caller' = [caller EXCEPT ![c] = state]
    BY <1>3 DEF CancelCall, DropStream, CallPanics, StreamCut
  <2>2. UNCHANGED <<loopVars, handleVars, tableVars, outVars, call_id, answer, received,
                    handler, emitted>>
    BY <1>3 DEF CancelCall, DropStream, CallPanics, StreamCut
  <2>3. caller' \in [Call -> {"idle", "waiting", "answered", "cancelled", "panicked",
                             "open", "ended", "cut", "dropped", "sent"}]
    BY <2>1 DEF TypeOK, ServiceTypeOK
  <2>4. QED
    BY <2>2, <2>3 DEF TypeOK, ServiceTypeOK, loopVars, handleVars, tableVars, outVars
<1>4. ASSUME NEW p \in Peer, DropHandle(p)
      PROVE  TypeOK'
  BY <1>4 DEF TypeOK, ServiceTypeOK, DropHandle, loopVars, tableVars, outVars, callerVars
<1>5. ASSUME NEW p \in Peer, StopService(p)
      PROVE  TypeOK'
  <2>1. handler' \in [Call -> {"none", "called", "running", "finished",
                               "failed", "panicked", "closed"}]
    BY <1>5 DEF TypeOK, ServiceTypeOK, StopService
  <2>2. /\ loop' \in [Peer -> {"select", "send", "handle", "ended", "failed", "panicked"}]
        /\ sending' \in [Peer -> Seq(Message)]
        /\ \A q \in Peer :
             IF loop'[q] = "send" THEN Len(sending'[q]) = 1 ELSE sending'[q] = <<>>
    BY <1>5 DEF TypeOK, ServiceTypeOK, StopService
  <2>3. QED
    BY <1>5, <2>1, <2>2
       DEF TypeOK, ServiceTypeOK, StopService, handleVars, tableVars, outVars, callerVars
<1>6. Id # {}
  BY ServiceAssumption
<1>7. QED
  BY <1>2, <1>3, <1>4, <1>5, <1>6 DEF Application

\* The steps of the loops that serve the calls, and of the handlers, keep the types.
LEMMA HandlerTypes ==
  ASSUME TypeOK,
         \/ \E p \in Peer :
              ServeRequest(p) \/ ServeStream(p) \/ ServeOneshot(p) \/ HandleInline(p)
         \/ \E c \in Call : EndHandler(c) \/ EmitItem(c)
         \/ \E p \in Peer, c \in Call : CloseStream(p, c)
  PROVE  TypeOK'
<1>1. ASSUME NEW p \in Peer, ServeRequest(p)
      PROVE  TypeOK'
  <2>1. Take(p, "Request")
    BY <1>1 DEF ServeRequest
  <2>2. QED
    BY <1>1, <2>1, TakeTypeOK
       DEF TypeOK, ServiceTypeOK, ServeRequest, recv_request, handleVars, tableVars, callerVars
<1>2. ASSUME NEW p \in Peer, ServeStream(p)
      PROVE  TypeOK'
  <2>1. Take(p, "OpenStream")
    BY <1>2 DEF ServeStream
  <2>2. Head(inbox[p]).data \in Call
    BY <2>1, TakeTypeOK
  <2>3. /\ handler' = [handler EXCEPT ![Head(inbox[p]).data] = "running"]
        /\ outgoing_stream' = [outgoing_stream EXCEPT ![Head(inbox[p]).data] = <<>>]
    BY <1>2 DEF ServeStream, recv_stream
  <2>4. /\ handler' \in [Call -> {"none", "called", "running", "finished",
                                  "failed", "panicked", "closed"}]
        /\ outgoing_stream' \in [Call -> Seq(Nat)]
    BY <2>2, <2>3 DEF TypeOK, ServiceTypeOK
  <2>5. QED
    BY <1>2, <2>1, <2>4, TakeTypeOK
       DEF TypeOK, ServiceTypeOK, ServeStream, handleVars, tableVars, callerVars
<1>3. ASSUME NEW p \in Peer, ServeOneshot(p)
      PROVE  TypeOK'
  <2>1. Take(p, "Oneshot")
    BY <1>3 DEF ServeOneshot
  <2>2. QED
    BY <1>3, <2>1, TakeTypeOK
       DEF TypeOK, ServiceTypeOK, ServeOneshot, handleVars, tableVars, outVars, callerVars
<1>4. ASSUME NEW p \in Peer, HandleInline(p)
      PROVE  TypeOK'
  <2>1. PICK kind \in {"Request", "OpenStream", "Oneshot"} : Take(p, kind)
    BY <1>4 DEF HandleInline
  <2>2. loop[p] = "select"
    BY <2>1 DEF Take
  <2>3. QED
    BY <1>4, <2>1, <2>2, TakeTypeOK, ZenonT(60)
       DEF TypeOK, ServiceTypeOK, HandleInline, recv_request, handleVars, tableVars, callerVars
<1>5. ASSUME NEW c \in Call, FinishHandler(c) \/ FailHandler(c)
      PROVE  TypeOK'
  <2>1. /\ handler' \in [Call -> {"none", "called", "running", "finished",
                                  "failed", "panicked", "closed"}]
        /\ outgoing_responses' \in [Call -> {"none", "pending", "ready", "cancelled"}]
    <3>1. /\ handler \in [Call -> {"none", "called", "running", "finished",
                                   "failed", "panicked", "closed"}]
          /\ outgoing_responses \in [Call -> {"none", "pending", "ready", "cancelled"}]
      BY DEF TypeOK, ServiceTypeOK
    <3>2. CASE FinishHandler(c)
      BY <3>1, <3>2 DEF FinishHandler, Resolve
    <3>3. CASE FailHandler(c)
      BY <3>1, <3>3 DEF FailHandler, Resolve
    <3>4. QED
      BY <1>5, <3>2, <3>3
  <2>2. UNCHANGED <<loopVars, handleVars, tableVars, outgoing_stream, callerVars, emitted>>
    BY <1>5 DEF FinishHandler, FailHandler
  <2>3. QED
    BY <2>1, <2>2 DEF TypeOK, ServiceTypeOK, loopVars, handleVars, tableVars, callerVars
<1>6. ASSUME NEW c \in Call, EmitItem(c)
      PROVE  TypeOK'
  <2>1. /\ emitted[c] + 1 \in Nat /\ outgoing_stream \in [Call -> Seq(Nat)]
    BY DEF TypeOK, ServiceTypeOK
  <2>2. Append(outgoing_stream[c], emitted[c] + 1) \in Seq(Nat)
    BY <2>1
  <2>3. outgoing_stream' \in [Call -> Seq(Nat)]
    BY <1>6, <2>1, <2>2 DEF EmitItem
  <2>4. /\ handler' \in [Call -> {"none", "called", "running", "finished",
                                  "failed", "panicked", "closed"}]
        /\ emitted' \in [Call -> Nat]
    <3>1. /\ handler \in [Call -> {"none", "called", "running", "finished",
                                   "failed", "panicked", "closed"}]
          /\ emitted \in [Call -> Nat]
      BY DEF TypeOK
    <3>2. /\ handler' \in {handler, [handler EXCEPT ![c] = "failed"]}
          /\ emitted' \in {emitted, [emitted EXCEPT ![c] = emitted[c] + 1]}
      BY <1>6, <3>1 DEF EmitItem
    <3>3. QED
      BY <2>1, <3>1, <3>2
  <2>5. UNCHANGED <<loopVars, handleVars, tableVars, outgoing_responses, callerVars>>
    BY <1>6 DEF EmitItem
  <2>6. QED
    BY <2>3, <2>4, <2>5
       DEF TypeOK, ServiceTypeOK, loopVars, handleVars, tableVars, callerVars
<1>7. ASSUME NEW c \in Call, ReturnInline(c)
      PROVE  TypeOK'
  <2>0. outgoing_stream \in [Call -> Seq(Nat)]
    BY DEF TypeOK, ServiceTypeOK
  <2>1. /\ handler' \in [Call -> {"none", "called", "running", "finished",
                                  "failed", "panicked", "closed"}]
        /\ outgoing_stream' \in [Call -> Seq(Nat)]
    <3>1. CASE Kind[c] = "stream"
      <4>1. PICK state \in {"running", "failed"} : handler' = [handler EXCEPT ![c] = state]
        BY <1>7, <3>1 DEF ReturnInline
      <4>2. outgoing_stream' = [outgoing_stream EXCEPT ![c] = <<>>]
        BY <1>7, <3>1 DEF ReturnInline, recv_stream
      <4>3. QED
        BY <2>0, <4>1, <4>2 DEF TypeOK
    <3>2. CASE Kind[c] # "stream"
      BY <1>7, <2>0, <3>2 DEF TypeOK, ReturnInline
    <3>3. QED
      BY <3>1, <3>2
  <2>2. outgoing_responses' \in [Call -> {"none", "pending", "ready", "cancelled"}]
    BY <1>7 DEF TypeOK, ServiceTypeOK, ReturnInline, Resolve
  <2>3. /\ loop' \in [Peer -> {"select", "send", "handle", "ended", "failed", "panicked"}]
        /\ UNCHANGED sending
        /\ \A q \in Peer : loop'[q] = "send" <=> loop[q] = "send"
    BY <1>7 DEF TypeOK, ServiceTypeOK, ReturnInline
  <2>4. QED
    <3>1. UNCHANGED <<inbox, sending, interaction, handle, incoming_responses,
                      incoming_streams, caller, call_id, answer, received, emitted>>
      BY <1>7 DEF ReturnInline, handleVars, tableVars, callerVars
    <3>2. \A q \in Peer :
            IF loop'[q] = "send" THEN Len(sending'[q]) = 1 ELSE sending'[q] = <<>>
      BY <2>3 DEF TypeOK, ServiceTypeOK
    <3>3. QED
      <4>1. /\ inbox' \in [Peer -> Seq(Message)]
            /\ \A q \in Peer : Len(inbox'[q]) <= ChannelSize
            /\ sending' \in [Peer -> Seq(Message)]
            /\ interaction' \in [Peer -> Seq(Call)]
            /\ handle' \in [Peer -> {"held", "dropped"}]
            /\ incoming_responses' \in [Peer -> [Id -> Call \union {NoCall}]]
            /\ incoming_streams' \in [Peer -> [Id -> Call \union {NoCall}]]
            /\ emitted' \in [Call -> Nat]
        BY <3>1 DEF TypeOK, ServiceTypeOK
      <4>2. /\ caller' \in [Call -> {"idle", "waiting", "answered", "cancelled", "panicked",
                                     "open", "ended", "cut", "dropped", "sent"}]
            /\ call_id' \in [Call -> Id]
            /\ answer' \in [Call -> Call \union {NoCall}]
            /\ received' \in [Call -> Seq([data : Call, item : Nat])]
        BY <3>1 DEF TypeOK, ServiceTypeOK
      <4>3. ServiceTypeOK'
        BY <2>1, <2>2, <2>3, <3>2, <4>1, <4>2 DEF ServiceTypeOK
      <4>4. QED
        BY <2>1, <4>1, <4>3 DEF TypeOK
<1>8. ASSUME NEW p \in Peer, NEW c \in Call, CloseStream(p, c)
      PROVE  TypeOK'
  <2>1. Msg("CloseStream", c, 0) \in Message
    BY MsgType
  <2>2. QED
    BY <1>8, <2>1, SendTypeOK
       DEF TypeOK, ServiceTypeOK, CloseStream, handleVars, tableVars, outVars, callerVars
<1>9. ASSUME NEW c \in Call, FailInline(c)
      PROVE  TypeOK'
  <2>1. handler' \in [Call -> {"none", "called", "running", "finished",
                               "failed", "panicked", "closed"}]
    BY <1>9 DEF TypeOK, FailInline
  <2>2. /\ loop' \in [Peer -> {"select", "send", "handle", "ended", "failed", "panicked"}]
        /\ \A q \in Peer : loop'[q] = "send" <=> loop[q] = "send"
    BY <1>9 DEF TypeOK, ServiceTypeOK, FailInline
  <2>3. \A q \in Peer :
          IF loop'[q] = "send" THEN Len(sending'[q]) = 1 ELSE sending'[q] = <<>>
    BY <1>9, <2>2 DEF TypeOK, ServiceTypeOK, FailInline
  <2>4. QED
    BY <1>9, <2>1, <2>2, <2>3
       DEF TypeOK, ServiceTypeOK, FailInline, handleVars, tableVars, outVars, callerVars
<1>10. QED
  BY <1>1, <1>2, <1>3, <1>4, <1>5, <1>6, <1>7, <1>8, <1>9 DEF EndHandler

\* Every step keeps the types.
LEMMA NextTypeOK == TypeOK /\ [Next]_vars => TypeOK'
<1> SUFFICES ASSUME TypeOK, [Next]_vars
             PROVE  TypeOK'
  OBVIOUS
<1>1. CASE UNCHANGED vars
  BY <1>1 DEF vars, serviceVars, loopVars, handleVars, tableVars, outVars, callerVars,
              TypeOK, ServiceTypeOK
<1>2. CASE Next
  <2>1. ASSUME NEW p \in Peer,
               \/ Receive(p) \/ EndSend(p) \/ Service(TakeEnd(p))
               \/ Service(SendInteraction(p))
        PROVE  TypeOK'
    BY <2>1, ServiceTypes, HandlerTypes DEF Receive, EndSend, Service
  <2>2. ASSUME NEW p \in Peer, NEW c \in Call,
               \/ Service(SendItem(p, c)) \/ Service(SendResponse(p, c))
               \/ CloseStream(p, c)
        PROVE  TypeOK'
    BY <2>2, ServiceTypes, HandlerTypes DEF Service
  <2>3. QED
    BY <1>2, <2>1, <2>2, ApplicationTypes, HandlerTypes DEF Next
<1>3. QED
  BY <1>1, <1>2

(***************************************************************************)
(* Every variable keeps its type; in particular no connection holds more   *)
(* than ChannelSize messages and no service has more than one on its way.  *)
(***************************************************************************)
THEOREM TypeCorrect == SafeSpec => []TypeOK
BY InitTypeOK, NextTypeOK, PTL DEF SafeSpec

-----------------------------------------------------------------------------
(* What did not change.                                                    *)

\* Nothing of the call itself changes.
Kept(c) ==
  /\ caller'[c] = caller[c] /\ call_id'[c] = call_id[c] /\ answer'[c] = answer[c]
  /\ handler'[c] = handler[c] /\ emitted'[c] = emitted[c] /\ received'[c] = received[c]
  /\ outgoing_responses'[c] = outgoing_responses[c]
  /\ outgoing_stream'[c] = outgoing_stream[c]

\* No service comes back.
FewerAlive == \A p \in Peer : Alive(p)' => Alive(p)

\* No message is in flight that was not, and what is lost was the first or the last.
SameSent == \A p \in Peer : Sent(p)' = Sent(p)
SomeSent ==
  \A p \in Peer : \E k \in {0, 1} :
    /\ Len(Sent(p)') \in Nat /\ Len(Sent(p)') + k <= Len(Sent(p))
    /\ \A j \in 1 .. Len(Sent(p)') : Sent(p)'[j] = Sent(p)[j + k]

\* What is in flight are messages.
SentOK == \A p \in Peer : Sent(p) \in Seq(Message)

\* What is in flight are messages, both ways.
LEMMA SentTyped == TypeOK => SentOK
BY SentType, Zenon DEF SentOK

\* The range of a sequence, element by element.
LEMMA SeqRange ==
  ASSUME NEW S, NEW s \in Seq(S)
  PROVE  /\ \A x : x \in Range(s) <=> \E j \in 1 .. Len(s) : s[j] = x
         /\ Range(s) \subseteq S
BY DEF Range

\* Nothing lost is at most one lost.
LEMMA SameIsSome ==
  ASSUME SameSent, SentOK
  PROVE  SomeSent
BY DEF SameSent, SomeSent, SentOK

\* What is in flight was in flight.
LEMMA SomeRange ==
  ASSUME SomeSent, SentOK, SentOK', NEW p \in Peer
  PROVE  Range(Sent(p))' \subseteq Range(Sent(p))
<1> SUFFICES ASSUME NEW m \in Range(Sent(p))'
             PROVE  m \in Range(Sent(p))
  OBVIOUS
<1>1. PICK k \in {0, 1} :
        /\ Len(Sent(p)') \in Nat /\ Len(Sent(p)') + k <= Len(Sent(p))
        /\ \A j \in 1 .. Len(Sent(p)') : Sent(p)'[j] = Sent(p)[j + k]
  BY DEF SomeSent
<1>2. Sent(p) \in Seq(Message) /\ Sent(p)' \in Seq(Message)
  BY DEF SentOK
<1>3. PICK j \in 1 .. Len(Sent(p)') : Sent(p)'[j] = m
  BY <1>2, SeqRange
<1>4. j + k \in 1 .. Len(Sent(p)) /\ Sent(p)[j + k] = m
  BY <1>1, <1>2, <1>3
<1>5. QED
  BY <1>2, <1>4, SeqRange

\* What is said of a call alone, and of a message about it, holds on.
LEMMA KeptCall ==
  ASSUME NEW c \in Call, Kept(c)
  PROVE  /\ Pending(c)' = Pending(c) /\ ItemsSent(c)' = ItemsSent(c)
         /\ CallerOK(c)' = CallerOK(c) /\ HandlerOK(c)' = HandlerOK(c)
         /\ OutgoingOK(c)' = OutgoingOK(c)
         /\ Occupied(c)' = Occupied(c) /\ Unclosed(c)' = Unclosed(c)
         /\ Misled(c)' = Misled(c)
BY DEF Kept, Pending, ItemsSent, CallerOK, HandlerOK, OutgoingOK, Occupied, Unclosed, Misled

\* A message about a call that did not change is where it may be.
LEMMA KeptMessage ==
  ASSUME NEW p \in Peer, NEW m \in Message, Kept(m.data), MessageOK(p, m)
  PROVE  MessageOK(p, m)'
<1>1. m.data \in Call
  BY DEF Message
<1>2. Pending(m.data)' = Pending(m.data) /\ ItemsSent(m.data)' = ItemsSent(m.data)
  BY <1>1, KeptCall
<1>3. QED
  BY <1>2 DEF Kept, MessageOK

\* Messages about calls that did not change are where they may be.
LEMMA FrameMessages ==
  ASSUME MessagesOK, SomeSent, SentOK, SentOK',
         \A p \in Peer, m \in Message :
           m \in Range(Sent(p))' /\ MessageOK(p, m) => MessageOK(p, m)'
  PROVE  MessagesOK'
<1> SUFFICES ASSUME NEW p \in Peer, NEW m \in Range(Sent(p))'
             PROVE  MessageOK(p, m)'
  BY DEF MessagesOK
<1>1. m \in Range(Sent(p)) /\ Sent(p) \in Seq(Message)
  BY SomeRange DEF SentOK
<1>2. m \in Message
  BY <1>1, SeqRange
<1>3. QED
  BY <1>1, <1>2 DEF MessagesOK

\* Messages stay in order when the first or the last is lost.
LEMMA FrameOrdered ==
  ASSUME MessagesOrdered, SomeSent, SentOK
  PROVE  MessagesOrdered'
<1> SUFFICES ASSUME NEW p \in Peer, NEW j \in 1 .. Len(Sent(p)'), NEW l \in 1 .. Len(Sent(p)'),
                    j < l, Sent(p)'[j].data = Sent(p)'[l].data
             PROVE  /\ Sent(p)'[j].kind = "StreamMessage"
                    /\ Sent(p)'[l].kind = "StreamMessage"
                         => Sent(p)'[j].item < Sent(p)'[l].item
  BY DEF MessagesOrdered
<1>1. PICK k \in {0, 1} : /\ Len(Sent(p)') \in Nat /\ Len(Sent(p)') + k <= Len(Sent(p))
                          /\ Sent(p)'[j] = Sent(p)[j + k]
                          /\ Sent(p)'[l] = Sent(p)[l + k]
  BY DEF SomeSent
<1>2. j + k \in 1 .. Len(Sent(p)) /\ l + k \in 1 .. Len(Sent(p)) /\ j + k < l + k
  BY <1>1 DEF SentOK
<1>3. QED
  BY <1>1, <1>2 DEF MessagesOrdered

\* Calls that did not change fit together as before.
LEMMA FrameCalls ==
  ASSUME CallsOK,
         \A c \in Call :
           Kept(c) \/ (CallerOK(c)' /\ HandlerOK(c)' /\ OutgoingOK(c)')
  PROVE  CallsOK'
BY KeptCall DEF CallsOK

\* No handler is called and no loop that awaits one moves.
LEMMA FrameCalled ==
  ASSUME CalledOK,
         \A c \in Call : handler'[c] = "called" =>
           handler[c] = "called" /\ loop'[Server(c)] = loop[Server(c)]
  PROVE  CalledOK'
BY DEF CalledOK, Server

\* The handle's channel is as it was.
LEMMA FrameQueue ==
  ASSUME QueueOK, SomeSent, SentOK, SentOK', UNCHANGED interaction,
         \A p \in Peer : interaction[p] \in Seq(Call),
         \A c \in Call : Pending(c) /\ handler[c] = "none" =>
           \/ Pending(c)' /\ handler'[c] = "none"
           \/ \A p \in Peer : c \notin Range(interaction[p])
  PROVE  QueueOK'
<1> SUFFICES ASSUME NEW p \in Peer
             PROVE  /\ \A c \in Range(interaction[p]) : QueuedOK(p, c)'
                    /\ IsInjective(interaction[p])
  BY DEF QueueOK
<1>1. IsInjective(interaction[p])
  BY DEF QueueOK
<1>2. ASSUME NEW c \in Range(interaction[p])
      PROVE  QueuedOK(p, c)'
  <2>1. c \in Call /\ QueuedOK(p, c)
    BY SeqRange DEF QueueOK
  <2>2. Range(Sent(p))' \subseteq Range(Sent(p))
    BY SomeRange
  <2>3. QED
    BY <2>1, <2>2 DEF QueuedOK
<1>3. QED
  BY <1>1, <1>2

\* No call begins to wait.
LEMMA FrameWaiting ==
  ASSUME WaitingOK, FewerAlive, UNCHANGED <<interaction, incoming_responses>>,
         \A c \in Call : caller'[c] = "waiting" =>
           caller[c] = "waiting" /\ call_id'[c] = call_id[c]
  PROVE  WaitingOK'
BY ServiceAssumption DEF WaitingOK, FewerAlive

\* Entries are only taken out of the tables.
LEMMA FrameTables ==
  ASSUME TypeOK, TablesOK,
         \A p \in Peer, i \in Id :
           /\ incoming_responses'[p][i] \in {NoCall, incoming_responses[p][i]}
           /\ incoming_streams'[p][i] \in {NoCall, incoming_streams[p][i]},
         \A c \in Call : caller[c] # "idle" =>
           caller'[c] # "idle" /\ call_id'[c] = call_id[c]
  PROVE  TablesOK'
<1> SUFFICES ASSUME NEW p \in Peer, NEW i \in Id
             PROVE  /\ EntryOK(p, i, incoming_responses[p][i], "request")'
                    /\ EntryOK(p, i, incoming_streams[p][i], "stream")'
  BY DEF TablesOK
<1>1. /\ incoming_responses[p][i] \in Call \union {NoCall}
      /\ incoming_streams[p][i] \in Call \union {NoCall}
  BY DEF TypeOK, ServiceTypeOK
<1>2. /\ EntryOK(p, i, incoming_responses[p][i], "request")
      /\ EntryOK(p, i, incoming_streams[p][i], "stream")
  BY DEF TablesOK
<1>3. QED
  BY <1>1, <1>2 DEF EntryOK

\* No id comes into use.
LEMMA FrameIds ==
  ASSUME IdsOK,
         \A c \in Call : Occupied(c)' => Occupied(c) /\ call_id'[c] = call_id[c]
  PROVE  IdsOK'
BY DEF IdsOK

\* No stream is opened and no entry leaves.
LEMMA FrameStreamTable ==
  ASSUME StreamTableOK, FewerAlive, SomeSent, SentOK, SentOK',
         UNCHANGED <<interaction, incoming_streams>>,
         \A c \in Call : Unclosed(c)' => Unclosed(c),
         \A c \in Call : call_id'[c] = call_id[c]
  PROVE  StreamTableOK'
<1> SUFFICES ASSUME NEW c \in Call, Kind[c] = "stream", Alive(Owner[c])'
             PROVE  /\ Unclosed(c)' => InQueue(c)' \/ Entered(c)'
                    /\ Closing(c)' => Entered(c)'
  BY DEF StreamTableOK
<1>1. Owner[c] \in Peer /\ Server(c) \in Peer /\ Alive(Owner[c])
  BY ServiceAssumption, PeerFact DEF FewerAlive, Server
<1>2. /\ Unclosed(c) => InQueue(c) \/ Entered(c)
      /\ Closing(c) => Entered(c)
  BY <1>1 DEF StreamTableOK
<1>3. InQueue(c)' = InQueue(c) /\ Entered(c)' = Entered(c)
  BY DEF InQueue, Entered
<1>4. Range(Sent(Server(c)))' \subseteq Range(Sent(Server(c)))
  <2>1. ASSUME NEW p \in Peer
        PROVE  Range(Sent(p))' \subseteq Range(Sent(p))
    BY SomeRange
  <2>2. Server(c)' = Server(c)
    BY DEF Server, Other
  <2>3. QED
    BY <1>1, <2>1, <2>2
<1>5. Closing(c)' => Closing(c)
  BY <1>4 DEF Closing
<1>6. QED
  BY <1>2, <1>3, <1>5

\* No caller notices that its service is gone.
LEMMA FrameGone ==
  ASSUME GoneOK, FewerAlive,
         \A c \in Call : caller'[c] \in {"panicked", "cut"} => caller'[c] = caller[c]
  PROVE  GoneOK'
BY ServiceAssumption DEF GoneOK, FewerAlive

\* No item moves.
LEMMA FrameItems ==
  ASSUME ItemsOK, FewerAlive, SameSent, SentOK,
         \A c \in Call : caller'[c] = "open" =>
           caller[c] = "open" /\ received'[c] = received[c] /\ ItemsSent(c)' = ItemsSent(c)
  PROVE  ItemsOK'
<1> SUFFICES ASSUME NEW c \in Call, caller'[c] = "open", Alive(Owner[c])'
             PROVE  /\ ItemsFollow(c)'
                    /\ (Alive(Server(c)) \/ Closing(c))' => AllOnTheWay(c)'
  BY DEF ItemsOK
<1>1. /\ Owner[c] \in Peer /\ Server(c) \in Peer /\ Server(c)' = Server(c)
  BY ServiceAssumption, PeerFact DEF Server
<1>2. /\ Sent(Server(c))' = Sent(Server(c))
      /\ received'[c] = received[c] /\ ItemsSent(c)' = ItemsSent(c)
      /\ Alive(Owner[c]) /\ (Alive(Server(c))' => Alive(Server(c)))
  BY <1>1 DEF SameSent, FewerAlive
<1>3. /\ ItemsFollow(c)
      /\ Alive(Server(c)) \/ Closing(c) => AllOnTheWay(c)
  BY <1>2 DEF ItemsOK
<1>4. Closing(c)' = Closing(c) /\ AllOnTheWay(c)' = AllOnTheWay(c)
  BY <1>2 DEF Closing, AllOnTheWay
<1>5. ItemsFollow(c)'
  BY <1>2, <1>3 DEF ItemsFollow
<1>6. QED
  BY <1>1, <1>2, <1>3, <1>4, <1>5

\* No request is answered and no id is given.
LEMMA FrameAnswers ==
  ASSUME CallsOK, AnswersOwnCall,
         \A c \in Call : Misled(c)' = Misled(c) /\ (Misled(c) => answer'[c] = answer[c]),
         \A c \in Call : caller[c] # "idle" => call_id'[c] = call_id[c],
         \A c \in Call : caller[c] = "cancelled" => caller'[c] = "cancelled"
  PROVE  AnswersOwnCall'
<1> SUFFICES ASSUME NEW c \in Call, Misled(c)'
             PROVE  /\ call_id'[c] \in Reused
                    /\ Owner[answer'[c]] = Owner[c] /\ call_id'[answer'[c]] = call_id'[c]
                    /\ \/ caller'[answer'[c]] = "cancelled"
                       \/ caller'[answer'[c]] = "answered"
                          /\ answer'[answer'[c]] # answer'[c]
  BY DEF AnswersOwnCall, Misled
<1>1. /\ Misled(c) /\ answer'[c] = answer[c] /\ caller[c] # "idle"
      /\ call_id[c] \in Reused
      /\ Owner[answer[c]] = Owner[c] /\ call_id[answer[c]] = call_id[c]
      /\ caller[answer[c]] = "cancelled" \/ Misled(answer[c])
      /\ answer[c] \in Call
  BY DEF AnswersOwnCall, Misled, CallsOK, CallerOK
<1>2. ASSUME NEW d \in Call, caller[d] = "cancelled" \/ Misled(d)
      PROVE  /\ caller'[d] = "cancelled" \/ (caller'[d] = "answered" /\ answer'[d] # d)
             /\ call_id'[d] = call_id[d]
  BY <1>2 DEF Misled
<1>3. call_id'[c] = call_id[c]
  BY <1>1
<1>4. QED
  BY <1>1, <1>2, <1>3

\* No item is emitted or received, and no stream ends.
LEMMA FrameStreams ==
  ASSUME StreamsInOrder, GoneOK',
         \A c \in Call :
           /\ emitted'[c] = emitted[c] /\ received'[c] = received[c]
           /\ caller'[c] = "ended" => caller[c] = "ended"
  PROVE  StreamsInOrder'
BY DEF StreamsInOrder, GoneOK

\* The first of the messages to p is taken.
Taken(p, m) ==
  /\ Len(Sent(Other(p))) >= 1 /\ m = Sent(Other(p))[1]
  /\ Len(Sent(Other(p))') = Len(Sent(Other(p))) - 1
  /\ \A j \in 1 .. Len(Sent(Other(p))') : Sent(Other(p))'[j] = Sent(Other(p))[j + 1]
  /\ Sent(p)' = Sent(p)

\* What p was sending is lost.
Cut(p) ==
  /\ Len(Sent(p)') \in Nat /\ Len(Sent(p)') <= Len(Sent(p))
  /\ \A j \in 1 .. Len(Sent(p)') : Sent(p)'[j] = Sent(p)[j]
  /\ Sent(Other(p))' = Sent(Other(p))

\* One message is taken.
LEMMA TakenIsSome ==
  ASSUME NEW p \in Peer, NEW m, Taken(p, m), SentOK
  PROVE  SomeSent
<1>1. \A q \in Peer : Len(Sent(q)) \in Nat
  BY DEF SentOK
<1>2. QED
  BY <1>1, PeerFact DEF SomeSent, Taken

\* At most one message is lost.
LEMMA CutIsSome ==
  ASSUME NEW p \in Peer, Cut(p), SentOK
  PROVE  SomeSent
<1>1. \A q \in Peer : Len(Sent(q)) \in Nat
  BY DEF SentOK
<1>2. QED
  BY <1>1, PeerFact DEF SomeSent, Cut

\* The peer that serves a call is the other than the one that made it.
LEMMA ServerFact ==
  ASSUME NEW c \in Call
  PROVE  /\ Owner[c] \in Peer /\ Server(c) \in Peer /\ Server(c) # Owner[c]
         /\ Server(c)' = Server(c) /\ Other(Server(c)) = Owner[c]
         /\ \A p \in Peer : Owner[c] # p <=> Server(c) = p
BY ServiceAssumption, PeerFact DEF Server

\* A message that is not the next item of an open stream is taken.
LEMMA FrameItemsTaken ==
  ASSUME ItemsOK, MessagesOrdered, FewerAlive, SentOK, SentOK', NEW p \in Peer, NEW m,
         Taken(p, m),
         m.kind = "StreamMessage" =>
           Owner[m.data] # Other(p) /\ m.item <= ItemsSent(m.data),
         \A c \in Call : Len(received[c]) \in Nat /\ ItemsSent(c) \in Int,
         \A c \in Call : caller'[c] = "open" =>
           /\ caller[c] = "open" /\ ItemsSent(c)' = ItemsSent(c)
           /\ IF m.kind = "StreamMessage" /\ m.data = c
              THEN Len(received'[c]) = Len(received[c]) + 1
              ELSE received'[c] = received[c]
  PROVE  ItemsOK'
<1> SUFFICES ASSUME NEW c \in Call, caller'[c] = "open", Alive(Owner[c])'
             PROVE  /\ ItemsFollow(c)'
                    /\ (Alive(Server(c)) \/ Closing(c))' => AllOnTheWay(c)'
  BY DEF ItemsOK
<1>1. /\ Owner[c] \in Peer /\ Server(c) \in Peer /\ Server(c)' = Server(c)
      /\ Alive(Owner[c]) /\ (Alive(Server(c))' => Alive(Server(c)))
  BY ServerFact DEF FewerAlive
<1>2. /\ ItemsFollow(c)
      /\ Alive(Server(c)) \/ Closing(c) => AllOnTheWay(c)
  BY <1>1 DEF ItemsOK
<1>3. CASE Server(c) = p
  <2>1. Sent(Server(c))' = Sent(Server(c))
    BY <1>1, <1>3 DEF Taken
  <2>2. received'[c] = received[c] /\ ItemsSent(c)' = ItemsSent(c)
    BY <1>3, ServerFact, PeerFact
  <2>3. Closing(c)' = Closing(c) /\ AllOnTheWay(c)' = AllOnTheWay(c)
    BY <2>1, <2>2 DEF Closing, AllOnTheWay
  <2>4. ItemsFollow(c)'
    BY <1>2, <2>1, <2>2 DEF ItemsFollow
  <2>5. QED
    BY <1>1, <1>2, <2>3, <2>4
<1>4. CASE Server(c) = Other(p)
  <2> DEFINE s == Sent(Server(c))
             t == Sent(Server(c))'
             mine == m.kind = "StreamMessage" /\ m.data = c
  <2>1. /\ s \in Seq(Message) /\ t \in Seq(Message)
        /\ Len(s) \in Nat /\ Len(s) >= 1 /\ m = s[1] /\ Len(t) = Len(s) - 1
        /\ \A j \in 1 .. Len(t) : t[j] = s[j + 1]
    BY <1>1, <1>4, Z3 DEF Taken, SentOK
  <2>2. ItemsSent(c)' = ItemsSent(c) /\ ItemsSent(c) \in Int /\ Len(received[c]) \in Nat
    OBVIOUS
  <2>3. \A j, k \in 1 .. Len(s) : j < k /\ s[j].data = s[k].data =>
          /\ s[j].kind = "StreamMessage"
          /\ s[k].kind = "StreamMessage" => s[j].item < s[k].item
    BY <1>1 DEF MessagesOrdered
  <2>4. \A j \in 1 .. Len(s) : s[j].kind = "StreamMessage" /\ s[j].data = c =>
          /\ s[j].item \in Nat
          /\ \/ s[j].item = Len(received[c]) + 1
             \/ \E k \in 1 .. j - 1 : /\ s[k].kind = "StreamMessage" /\ s[k].data = c
                                      /\ s[k].item = s[j].item - 1
    <3>1. \A j \in 1 .. Len(s) : s[j] \in Message
      BY <2>1
    <3>2. \A j \in 1 .. Len(s) : s[j].item \in Nat
      BY <3>1 DEF Message
    <3>3. QED
      BY <1>2, <3>2 DEF ItemsFollow, IsItem
  <2>5. Closing(c)' => Closing(c)
    <3>1. SomeSent
      BY TakenIsSome
    <3>2. Range(t) \subseteq Range(s)
      BY <1>1, <3>1, SomeRange
    <3>3. QED
      BY <3>2 DEF Closing
  <2>6. AllOnTheWay(c) <=>
          \/ Len(received[c]) = ItemsSent(c)
          \/ \E k \in 1 .. Len(s) : /\ s[k].kind = "StreamMessage" /\ s[k].data = c
                                    /\ s[k].item = ItemsSent(c)
    <3>1. \A x : x \in Range(s) <=> \E j \in 1 .. Len(s) : s[j] = x
      BY <2>1, SeqRange, Z3
    <3>2. QED
      BY <3>1 DEF AllOnTheWay, IsItem
  <2>7. AllOnTheWay(c)' <=>
          \/ Len(received'[c]) = ItemsSent(c)
          \/ \E k \in 1 .. Len(t) : /\ t[k].kind = "StreamMessage" /\ t[k].data = c
                                    /\ t[k].item = ItemsSent(c)
    <3>1. \A x : x \in Range(t) <=> \E j \in 1 .. Len(t) : t[j] = x
      BY <2>1, SeqRange
    <3>2. QED
      BY <1>1, <2>2, <3>1 DEF AllOnTheWay, IsItem
  <2>8. CASE mine
    <3>1. /\ Len(received'[c]) = Len(received[c]) + 1
          /\ s[1].kind = "StreamMessage" /\ s[1].data = c
          /\ s[1].item = Len(received[c]) + 1
          /\ s[1].item <= ItemsSent(c)
      BY <2>1, <2>4, <2>8
    <3>2. ItemsFollow(c)'
      <4> SUFFICES ASSUME NEW j \in 1 .. Len(t),
                          t[j].kind = "StreamMessage", t[j].data = c
                   PROVE  \/ t[j].item = Len(received'[c]) + 1
                          \/ \E k \in 1 .. j - 1 :
                               /\ t[k].kind = "StreamMessage" /\ t[k].data = c
                               /\ t[k].item = t[j].item - 1
        BY <1>1 DEF ItemsFollow, IsItem
      <4>1. /\ t[j] = s[j + 1] /\ j + 1 \in 1 .. Len(s) /\ 1 \in 1 .. Len(s) /\ j \in Nat
            /\ t[j].item \in Nat
        BY <2>1, <2>4
      <4>2. s[1].item < t[j].item
        BY <2>3, <3>1, <4>1
      <4>3. PICK k \in 1 .. j : /\ s[k].kind = "StreamMessage" /\ s[k].data = c
                                /\ s[k].item = t[j].item - 1
        <5>1. s[j + 1].item # Len(received[c]) + 1
          BY <3>1, <4>1, <4>2
        <5>2. \E k \in 1 .. (j + 1) - 1 : /\ s[k].kind = "StreamMessage" /\ s[k].data = c
                                         /\ s[k].item = s[j + 1].item - 1
          BY <2>4, <4>1, <5>1
        <5>3. (j + 1) - 1 = j
          BY <4>1
        <5>4. QED
          BY <4>1, <5>2, <5>3
      <4>4. CASE k = 1
        <5>1. t[j].item - 1 = Len(received[c]) + 1
          BY <3>1, <4>3, <4>4
        <5>2. t[j].item = Len(received'[c]) + 1
          BY <2>2, <3>1, <4>1, <5>1, SMTT(30)
        <5>3. QED
          BY <5>2
      <4>5. CASE k # 1
        <5>1. k - 1 \in 1 .. j - 1 /\ k - 1 \in 1 .. Len(t) /\ s[k] = t[k - 1]
          BY <2>1, <4>1, <4>5
        <5>2. QED
          BY <4>3, <5>1
      <4>6. QED
        BY <4>4, <4>5
    <3>3. AllOnTheWay(c) => AllOnTheWay(c)'
      <4> SUFFICES ASSUME AllOnTheWay(c)
                   PROVE  AllOnTheWay(c)'
        OBVIOUS
      <4>1. PICK k \in 1 .. Len(s) : /\ s[k].kind = "StreamMessage" /\ s[k].data = c
                                     /\ s[k].item = ItemsSent(c)
        BY <2>2, <2>6, <3>1
      <4>2. CASE k = 1
        BY <2>7, <3>1, <4>1, <4>2
      <4>3. CASE k # 1
        <5>1. k - 1 \in 1 .. Len(t) /\ s[k] = t[k - 1]
          BY <2>1, <4>3
        <5>2. QED
          BY <2>7, <4>1, <5>1
      <4>4. QED
        BY <4>2, <4>3
    <3>4. QED
      BY <1>1, <1>2, <2>5, <3>2, <3>3
  <2>9. CASE ~ mine
    <3>1. received'[c] = received[c]
      BY <2>9
    <3>2. ItemsFollow(c)'
      <4> SUFFICES ASSUME NEW j \in 1 .. Len(t),
                          t[j].kind = "StreamMessage", t[j].data = c
                   PROVE  \/ t[j].item = Len(received[c]) + 1
                          \/ \E k \in 1 .. j - 1 :
                               /\ t[k].kind = "StreamMessage" /\ t[k].data = c
                               /\ t[k].item = t[j].item - 1
        BY <1>1, <3>1 DEF ItemsFollow, IsItem
      <4>1. t[j] = s[j + 1] /\ j + 1 \in 1 .. Len(s) /\ j \in Nat
        BY <2>1
      <4>2. CASE t[j].item = Len(received[c]) + 1
        BY <4>2
      <4>3. CASE t[j].item # Len(received[c]) + 1
        <5>1. PICK k \in 1 .. j : /\ s[k].kind = "StreamMessage" /\ s[k].data = c
                                  /\ s[k].item = t[j].item - 1
          BY <2>4, <4>1, <4>3
        <5>2. k # 1
          BY <2>1, <2>9, <5>1
        <5>3. k - 1 \in 1 .. j - 1 /\ k - 1 \in 1 .. Len(t) /\ s[k] = t[k - 1]
          BY <2>1, <4>1, <5>2
        <5>4. QED
          BY <5>1, <5>3
      <4>4. QED
        BY <4>2, <4>3
    <3>3. AllOnTheWay(c) => AllOnTheWay(c)'
      <4> SUFFICES ASSUME NEW k \in 1 .. Len(s), s[k].kind = "StreamMessage",
                          s[k].data = c, s[k].item = ItemsSent(c)
                   PROVE  AllOnTheWay(c)'
        BY <2>6, <2>7, <3>1
      <4>1. k # 1
        BY <2>1, <2>9
      <4>2. k - 1 \in 1 .. Len(t) /\ s[k] = t[k - 1]
        BY <2>1, <4>1
      <4>3. QED
        BY <2>7, <4>2
    <3>4. QED
      BY <1>1, <1>2, <2>5, <3>2, <3>3
  <2>10. QED
    BY <2>8, <2>9
<1>5. QED
  BY <1>1, <1>3, <1>4, PeerFact

\* A service that lives no longer loses what it was sending.
LEMMA FrameItemsCut ==
  ASSUME ItemsOK, MessagesOrdered, FewerAlive, SentOK, SentOK', NEW p \in Peer, Cut(p),
         ~ Alive(p)',
         \A c \in Call : caller'[c] = "open" =>
           caller[c] = "open" /\ received'[c] = received[c] /\ ItemsSent(c)' = ItemsSent(c)
  PROVE  ItemsOK'
<1> SUFFICES ASSUME NEW c \in Call, caller'[c] = "open", Alive(Owner[c])'
             PROVE  /\ ItemsFollow(c)'
                    /\ (Alive(Server(c)) \/ Closing(c))' => AllOnTheWay(c)'
  BY DEF ItemsOK
<1>1. /\ Owner[c] \in Peer /\ Server(c) \in Peer /\ Server(c)' = Server(c)
      /\ Alive(Owner[c]) /\ (Alive(Server(c))' => Alive(Server(c)))
      /\ received'[c] = received[c] /\ ItemsSent(c)' = ItemsSent(c)
  BY ServerFact DEF FewerAlive
<1>2. /\ ItemsFollow(c)
      /\ Alive(Server(c)) \/ Closing(c) => AllOnTheWay(c)
  BY <1>1 DEF ItemsOK
<1>3. CASE Server(c) = Other(p)
  <2>1. Sent(Server(c))' = Sent(Server(c))
    BY <1>1, <1>3 DEF Cut
  <2>3. Closing(c)' = Closing(c) /\ AllOnTheWay(c)' = AllOnTheWay(c)
    BY <1>1, <2>1 DEF Closing, AllOnTheWay
  <2>4. ItemsFollow(c)'
    BY <1>1, <1>2, <2>1 DEF ItemsFollow
  <2>5. QED
    BY <1>1, <1>2, <2>3, <2>4
<1>4. CASE Server(c) = p
  <2> DEFINE s == Sent(Server(c))
             t == Sent(Server(c))'
  <2>1. /\ s \in Seq(Message) /\ t \in Seq(Message)
        /\ Len(s) \in Nat /\ Len(t) \in Nat /\ Len(t) <= Len(s)
        /\ \A j \in 1 .. Len(t) : t[j] = s[j]
    BY <1>1, <1>4 DEF Cut, SentOK
  <2>2. /\ \A x : x \in Range(s) <=> \E j \in 1 .. Len(s) : s[j] = x
        /\ \A x : x \in Range(t) <=> \E j \in 1 .. Len(t) : t[j] = x
    BY <2>1, SeqRange
  <2>3. ItemsFollow(c)'
    <3> SUFFICES ASSUME NEW j \in 1 .. Len(t),
                        t[j].kind = "StreamMessage", t[j].data = c
                 PROVE  \/ t[j].item = Len(received[c]) + 1
                        \/ \E k \in 1 .. j - 1 : IsItem(t[k], c, t[j].item - 1)
      BY <1>1 DEF ItemsFollow
    <3>1. j \in 1 .. Len(s) /\ t[j] = s[j] /\ \A k \in 1 .. j - 1 : t[k] = s[k]
      BY <2>1
    <3>2. QED
      BY <1>2, <3>1 DEF ItemsFollow
  <2>4. ASSUME Closing(c)'
        PROVE  AllOnTheWay(c)'
    <3>1. PICK l \in 1 .. Len(t) : t[l].kind = "CloseStream" /\ t[l].data = c
      BY <1>1, <2>2, <2>4 DEF Closing
    <3>2. l \in 1 .. Len(s) /\ s[l] = t[l]
      BY <2>1
    <3>3. Closing(c)
      BY <2>2, <3>1, <3>2 DEF Closing
    <3>4. CASE Len(received[c]) = ItemsSent(c)
      BY <1>1, <3>4 DEF AllOnTheWay
    <3>5. CASE Len(received[c]) # ItemsSent(c)
      <4>1. PICK k \in 1 .. Len(s) : IsItem(s[k], c, ItemsSent(c))
        BY <1>2, <2>2, <3>3, <3>5 DEF AllOnTheWay
      <4>2. \A i, j \in 1 .. Len(s) : i < j /\ s[i].data = s[j].data =>
              s[i].kind = "StreamMessage"
        BY <1>1 DEF MessagesOrdered
      <4>3. k < l
        BY <2>1, <3>1, <3>2, <4>1, <4>2 DEF IsItem
      <4>4. k \in 1 .. Len(t) /\ t[k] = s[k]
        BY <2>1, <4>3
      <4>5. QED
        BY <1>1, <2>2, <4>1, <4>4 DEF AllOnTheWay
    <3>6. QED
      BY <3>4, <3>5
  <2>5. QED
    BY <1>1, <1>4, <2>3, <2>4
<1>5. QED
  BY <1>1, <1>3, <1>4, PeerFact

\* What type correctness says of the sequences and numbers.
LEMMA Types ==
  ASSUME TypeOK
  PROVE  /\ SentOK
         /\ \A p \in Peer : interaction[p] \in Seq(Call)
         /\ \A c \in Call :
              /\ call_id[c] \in Id /\ emitted[c] \in Nat /\ ItemsSent(c) \in Int
              /\ Len(received[c]) \in Nat
              /\ outgoing_stream[c] \in Seq(Nat) /\ Len(outgoing_stream[c]) \in Nat
<1>1. ASSUME NEW c \in Call
      PROVE  /\ call_id[c] \in Id /\ emitted[c] \in Nat /\ Len(received[c]) \in Nat
             /\ outgoing_stream[c] \in Seq(Nat) /\ Len(outgoing_stream[c]) \in Nat
  BY DEF TypeOK, ServiceTypeOK
<1>2. \A p \in Peer : interaction[p] \in Seq(Call)
  BY Zenon DEF TypeOK, ServiceTypeOK
<1>3. QED
  BY <1>1, <1>2, SentTyped DEF ItemsSent

\* The same of the next state.
LEMMA SentTypedNext == TypeOK' => SentOK'
<1>1. TypeOK => SentOK
  BY SentTyped
<1>2. QED
  BY <1>1, PTL

\* A call whose variables do not change is kept.
LEMMA KeptVars ==
  ASSUME UNCHANGED <<outVars, callerVars, handler, emitted>>, NEW c \in Call
  PROVE  Kept(c)
BY DEF Kept, outVars, callerVars

\* A step that moves no call: what is left to show.
LEMMA FrameRest ==
  ASSUME IInv, TypeOK', SomeSent, FewerAlive,
         UNCHANGED <<interaction, incoming_streams>>, WaitingOK',
         \A p \in Peer, i \in Id :
           incoming_responses'[p][i] \in {NoCall, incoming_responses[p][i]},
         \A c \in Call : Kept(c),
         \A c \in Call : handler[c] = "called" => loop'[Server(c)] = loop[Server(c)],
         ItemsOK'
  PROVE  IInv'
<1>1. /\ SentOK /\ SentOK' /\ \A p \in Peer : interaction[p] \in Seq(Call)
      /\ \A c \in Call : caller'[c] = caller[c] /\ call_id'[c] = call_id[c]
                         /\ answer'[c] = answer[c] /\ handler'[c] = handler[c]
                         /\ emitted'[c] = emitted[c] /\ received'[c] = received[c]
      /\ \A c \in Call : /\ Pending(c)' = Pending(c) /\ Occupied(c)' = Occupied(c)
                         /\ Unclosed(c)' = Unclosed(c) /\ Misled(c)' = Misled(c)
  <2>1. TypeOK
    BY DEF IInv
  <2>2. QED
    BY <2>1, Types, SentTypedNext, KeptCall DEF Kept
<1>2. CallsOK' /\ CalledOK'
  BY <1>1, FrameCalls, FrameCalled DEF IInv
<1>3. MessagesOK'
  <2>1. ASSUME NEW p \in Peer, NEW m \in Message, MessageOK(p, m)
        PROVE  MessageOK(p, m)'
    BY <2>1, KeptMessage DEF Message
  <2>2. QED
    BY <1>1, <2>1, FrameMessages DEF IInv
<1>4. MessagesOrdered' /\ QueueOK'
  BY <1>1, FrameOrdered, FrameQueue DEF IInv
<1>5. TablesOK' /\ IdsOK'
  BY <1>1, FrameTables, FrameIds DEF IInv
<1>6. StreamTableOK' /\ GoneOK'
  BY <1>1, FrameStreamTable, FrameGone DEF IInv
<1>7. AnswersOwnCall' /\ StreamsInOrder'
  BY <1>1, <1>6, FrameAnswers, FrameStreams DEF IInv
<1>8. QED
  BY <1>2, <1>3, <1>4, <1>5, <1>6, <1>7 DEF IInv

\* While no call moves, none begins to wait.
LEMMA KeptWaiting ==
  ASSUME WaitingOK, FewerAlive, UNCHANGED <<interaction, incoming_responses>>,
         \A c \in Call : Kept(c)
  PROVE  WaitingOK'
BY FrameWaiting DEF Kept

-----------------------------------------------------------------------------
(* A step of a handler, or that sends what it left.                        *)

\* A call whose handler was started is not in the handle's channel.
LEMMA RunningFact ==
  ASSUME IInv, NEW c \in Call, handler[c] # "none"
  PROVE  /\ \A q \in Peer : c \notin Range(interaction[q])
         /\ Pending(c) \/ handler[c] \notin {"called", "running"}
BY DEF IInv, QueueOK, QueuedOK, CallsOK, HandlerOK

\* A step of a handler, or that sends what it left, leaves the callers alone.
LEMMA OutsideFrame ==
  ASSUME IInv, FewerAlive, NEW c \in Call,
         UNCHANGED <<interaction, incoming_responses, incoming_streams, caller, call_id,
                     answer, received>>,
         \A e \in Call : e # c => Kept(e),
         HandlerOK(c)', OutgoingOK(c)',
         emitted'[c] = emitted[c]
           \/ (emitted'[c] = emitted[c] + 1 /\ handler[c] = "running")
  PROVE  /\ CallsOK' /\ WaitingOK' /\ TablesOK' /\ IdsOK' /\ GoneOK' /\ AnswersOwnCall'
         /\ StreamsInOrder'
<1>1. \A e \in Call :
        /\ Misled(e)' = Misled(e) /\ Occupied(e)' = Occupied(e)
        /\ CallerOK(e)' = CallerOK(e)
  BY DEF Misled, Occupied, CallerOK
<1>2. CallsOK'
  <2>1. CallerOK(c)'
    BY <1>1 DEF IInv, CallsOK
  <2>2. QED
    BY <2>1, FrameCalls DEF IInv
<1>3. TypeOK /\ WaitingOK /\ TablesOK /\ IdsOK /\ GoneOK /\ AnswersOwnCall /\ CallsOK
  BY DEF IInv
<1>4. WaitingOK' /\ TablesOK' /\ IdsOK' /\ GoneOK'
  BY <1>1, <1>3, FrameWaiting, FrameTables, FrameIds, FrameGone
<1>5. AnswersOwnCall'
  BY <1>1, <1>3, FrameAnswers
<1>6. StreamsInOrder'
  <2>1. StreamsInOrder /\ HandlerOK(c)
    BY DEF IInv, CallsOK
  <2>2. /\ emitted[c] \in Nat /\ Len(received[c]) \in Nat
        /\ caller[c] = "ended" => emitted'[c] = emitted[c]
    BY <1>3, <2>1, Types DEF HandlerOK
  <2>3. \A e \in Call : e # c => emitted'[e] = emitted[e]
    BY DEF Kept
  <2>4. QED
    BY <1>4, <2>1, <2>2, <2>3 DEF StreamsInOrder, GoneOK
<1>7. QED
  BY <1>2, <1>4, <1>5, <1>6

\* A step of a handler that sends nothing.
LEMMA HandlerFrame ==
  ASSUME IInv, TypeOK', FewerAlive, SomeSent, NEW c \in Call,
         UNCHANGED <<interaction, incoming_responses, incoming_streams, caller, call_id,
                     answer, received>>,
         \A e \in Call : e # c => Kept(e),
         HandlerOK(c)', OutgoingOK(c)',
         emitted'[c] = emitted[c]
           \/ (emitted'[c] = emitted[c] + 1 /\ handler[c] = "running"),
         CalledOK', ItemsOK',
         handler[c] = "closed" => handler'[c] = "closed",
         \A q \in Peer, n \in Message :
           n \in Range(Sent(q))' /\ n.data = c /\ MessageOK(q, n) => MessageOK(q, n)',
         \A q \in Peer : c \notin Range(interaction[q])
  PROVE  IInv'
<1>1. /\ CallsOK' /\ WaitingOK' /\ TablesOK' /\ IdsOK' /\ GoneOK' /\ AnswersOwnCall'
      /\ StreamsInOrder'
  BY OutsideFrame
<1>2. SentOK /\ SentOK' /\ TypeOK
  BY Types, SentTypedNext DEF IInv
<1>3. MessagesOK' /\ MessagesOrdered'
  <2>1. ASSUME NEW q \in Peer, NEW n \in Message, MessageOK(q, n), n \in Range(Sent(q))'
        PROVE  MessageOK(q, n)'
    <3>1. n.data \in Call
      BY DEF Message
    <3>2. QED
      BY <2>1, <3>1, KeptMessage
  <2>2. QED
    BY <1>2, <2>1, FrameMessages, FrameOrdered DEF IInv
<1>4. QueueOK'
  <2>1. ASSUME NEW e \in Call, Pending(e), handler[e] = "none"
        PROVE  \/ Pending(e)' /\ handler'[e] = "none"
               \/ \A q \in Peer : e \notin Range(interaction[q])
    BY <2>1, KeptCall DEF Kept
  <2>2. \A q \in Peer : interaction[q] \in Seq(Call)
    BY <1>2, Types
  <2>3. QED
    BY <1>2, <2>1, <2>2, FrameQueue DEF IInv
<1>5. StreamTableOK'
  <2>1. \A e \in Call : Unclosed(e)' => Unclosed(e)
    BY DEF Kept, Unclosed
  <2>2. QED
    BY <1>2, <2>1, FrameStreamTable DEF IInv
<1>6. QED
  BY <1>1, <1>3, <1>4, <1>5 DEF IInv

-----------------------------------------------------------------------------
(* A message is sent.                                                      *)

-----------------------------------------------------------------------------
\* A message is sent behind those in flight.
Added(p, m) ==
  /\ Len(Sent(p)') = Len(Sent(p)) + 1
  /\ \A j \in 1 .. Len(Sent(p)) : Sent(p)'[j] = Sent(p)[j]
  /\ Sent(p)'[Len(Sent(p)) + 1] = m
  /\ Sent(Other(p))' = Sent(Other(p))

\* In flight is what was, and the message.
LEMMA AddedRange ==
  ASSUME SentOK, SentOK', NEW p \in Peer, NEW m \in Message, Added(p, m)
  PROVE  /\ \A n : n \in Range(Sent(p))' <=> n \in Range(Sent(p)) \/ n = m
         /\ Range(Sent(Other(p)))' = Range(Sent(Other(p)))
<1>1. /\ Sent(p) \in Seq(Message) /\ Sent(p)' \in Seq(Message)
      /\ Len(Sent(p)) \in Nat /\ Len(Sent(p)') = Len(Sent(p)) + 1
      /\ \A j \in 1 .. Len(Sent(p)) : Sent(p)'[j] = Sent(p)[j]
      /\ Sent(p)'[Len(Sent(p)) + 1] = m
      /\ Sent(Other(p))' = Sent(Other(p))
  BY DEF SentOK, Added
<1>2. \A n : n \in Range(Sent(p)) <=> \E j \in 1 .. Len(Sent(p)) : Sent(p)[j] = n
  BY <1>1, SeqRange
<1>3. \A n : n \in Range(Sent(p))' <=> \E j \in 1 .. Len(Sent(p)) + 1 : Sent(p)'[j] = n
  BY <1>1, SeqRange
<1>4. ASSUME NEW n
      PROVE  n \in Range(Sent(p))' <=> n \in Range(Sent(p)) \/ n = m
  <2>1. ASSUME n \in Range(Sent(p))' PROVE n \in Range(Sent(p)) \/ n = m
    <3>1. PICK j \in 1 .. Len(Sent(p)) + 1 : Sent(p)'[j] = n
      BY <1>3, <2>1
    <3>2. CASE j \in 1 .. Len(Sent(p))
      BY <1>1, <1>2, <3>1, <3>2
    <3>3. CASE j = Len(Sent(p)) + 1
      BY <1>1, <3>1, <3>3
    <3>4. QED
      BY <1>1, <3>1, <3>2, <3>3
  <2>2. ASSUME n \in Range(Sent(p)) PROVE n \in Range(Sent(p))'
    <3>1. PICK j \in 1 .. Len(Sent(p)) : Sent(p)[j] = n
      BY <1>2, <2>2
    <3>2. j \in 1 .. Len(Sent(p)) + 1 /\ Sent(p)'[j] = n
      BY <1>1, <3>1
    <3>3. QED
      BY <1>3, <3>2
  <2>3. n = m => n \in Range(Sent(p))'
    <3>1. Len(Sent(p)) + 1 \in 1 .. Len(Sent(p)) + 1
      BY <1>1
    <3>2. QED
      BY <1>1, <1>3, <3>1
  <2>4. QED
    BY <2>1, <2>2, <2>3
<1>5. QED
  BY <1>1, <1>4

\* A message behind the items of its call keeps the order.
LEMMA AddedOrdered ==
  ASSUME SentOK, SentOK', MessagesOrdered, NEW p \in Peer, NEW m \in Message, Added(p, m),
         \A n \in Range(Sent(p)) : n.data = m.data =>
           /\ n.kind = "StreamMessage"
           /\ m.kind = "StreamMessage" => n.item < m.item
  PROVE  MessagesOrdered'
<1> SUFFICES ASSUME NEW q \in Peer, NEW j \in 1 .. Len(Sent(q)'), NEW l \in 1 .. Len(Sent(q)'),
                    j < l, Sent(q)'[j].data = Sent(q)'[l].data
             PROVE  /\ Sent(q)'[j].kind = "StreamMessage"
                    /\ Sent(q)'[l].kind = "StreamMessage"
                         => Sent(q)'[j].item < Sent(q)'[l].item
  BY DEF MessagesOrdered
<1>1. CASE q = Other(p)
  BY <1>1 DEF Added, MessagesOrdered
<1>2. CASE q = p
  <2>1. /\ Sent(p) \in Seq(Message) /\ Sent(p)' \in Seq(Message) /\ Len(Sent(p)) \in Nat
        /\ Len(Sent(p)') = Len(Sent(p)) + 1
        /\ \A k \in 1 .. Len(Sent(p)) : Sent(p)'[k] = Sent(p)[k]
        /\ Sent(p)'[Len(Sent(p)) + 1] = m
    BY DEF SentOK, Added
  <2>2. j \in 1 .. Len(Sent(p)) /\ Sent(p)'[j] = Sent(p)[j]
    BY <1>2, <2>1
  <2>3. CASE l \in 1 .. Len(Sent(p))
    BY <1>2, <2>1, <2>2, <2>3 DEF MessagesOrdered
  <2>4. CASE l = Len(Sent(p)) + 1
    <3>1. Sent(p)[j] \in Range(Sent(p))
      BY <2>1, <2>2, SeqRange
    <3>2. QED
      BY <1>2, <2>1, <2>2, <2>4, <3>1
  <2>5. QED
    BY <1>2, <2>1, <2>3, <2>4
<1>3. QED
  BY <1>1, <1>2, PeerFact

\* A message where it may be keeps the others where they may be.
LEMMA AddedMessages ==
  ASSUME SentOK, SentOK', MessagesOK, NEW p \in Peer, NEW m \in Message, Added(p, m),
         MessageOK(p, m)',
         \A q \in Peer, n \in Message :
           n \in Range(Sent(q)) /\ MessageOK(q, n) => MessageOK(q, n)'
  PROVE  MessagesOK'
<1> SUFFICES ASSUME NEW q \in Peer, NEW n \in Range(Sent(q))'
             PROVE  MessageOK(q, n)'
  BY DEF MessagesOK
<1>1. n \in Range(Sent(q)) \/ (q = p /\ n = m)
  BY AddedRange, PeerFact
<1>2. CASE n \in Range(Sent(q))
  <2>1. n \in Message
    BY <1>2, SeqRange DEF SentOK
  <2>2. QED
    BY <1>2, <2>1 DEF MessagesOK
<1>3. QED
  BY <1>1, <1>2

\* An item sent is the last on the way; other messages carry none.
LEMMA AddedItems ==
  ASSUME ItemsOK, SentOK, SentOK', FewerAlive, NEW p \in Peer, Alive(p),
         NEW m \in Message, Added(p, m), UNCHANGED <<caller, received>>,
         m.kind \in {"StreamMessage", "CloseStream"} => Server(m.data) = p,
         \A c \in Call : ItemsSent(c) \in Int /\ Len(received[c]) \in Nat,
         \A c \in Call : IF m.kind = "StreamMessage" /\ m.data = c
                         THEN m.item = ItemsSent(c) + 1 /\ ItemsSent(c)' = m.item
                         ELSE ItemsSent(c)' = ItemsSent(c)
  PROVE  ItemsOK'
<1> SUFFICES ASSUME NEW c \in Call, caller[c] = "open", Alive(Owner[c])'
             PROVE  /\ ItemsFollow(c)'
                    /\ (Alive(Server(c)) \/ Closing(c))' => AllOnTheWay(c)'
  BY DEF ItemsOK
<1>1. /\ Owner[c] \in Peer /\ Server(c) \in Peer /\ Server(c)' = Server(c)
      /\ Alive(Owner[c]) /\ (Alive(Server(c))' => Alive(Server(c)))
  BY ServerFact DEF FewerAlive
<1>2. /\ ItemsFollow(c)
      /\ Alive(Server(c)) \/ Closing(c) => AllOnTheWay(c)
  BY <1>1 DEF ItemsOK
<1>3. CASE Server(c) = Other(p)
  <2>1. Sent(Server(c))' = Sent(Server(c))
    BY <1>1, <1>3 DEF Added
  <2>2. ItemsSent(c)' = ItemsSent(c)
    BY <1>3, PeerFact
  <2>3. Closing(c)' = Closing(c) /\ AllOnTheWay(c)' = AllOnTheWay(c)
    BY <2>1, <2>2 DEF Closing, AllOnTheWay
  <2>4. ItemsFollow(c)'
    BY <1>2, <2>1 DEF ItemsFollow
  <2>5. QED
    BY <1>1, <1>2, <2>3, <2>4
<1>4. CASE Server(c) = p
  <2> DEFINE s == Sent(p)
             t == Sent(p)'
  <2>1. /\ s \in Seq(Message) /\ t \in Seq(Message)
        /\ Len(s) \in Nat /\ Len(t) = Len(s) + 1 /\ t[Len(s) + 1] = m
        /\ \A j \in 1 .. Len(s) : t[j] = s[j]
    BY DEF Added, SentOK
  <2>2. \A n : n \in Range(t) <=> n \in Range(s) \/ n = m
    BY AddedRange
  <2>3. AllOnTheWay(c)
    BY <1>2, <1>4
  <2>4. CASE m.kind = "StreamMessage" /\ m.data = c
    <3>1. m.item = ItemsSent(c) + 1 /\ ItemsSent(c)' = m.item /\ ItemsSent(c) \in Int
      BY <2>4
    <3>2. AllOnTheWay(c)'
      BY <1>1, <1>4, <2>2, <2>4, <3>1 DEF AllOnTheWay, IsItem
    <3>3. \/ m.item = Len(received[c]) + 1
          \/ \E k \in 1 .. Len(s) : IsItem(s[k], c, m.item - 1)
      <4>1. m.item - 1 = ItemsSent(c)
        BY <3>1
      <4>2. CASE Len(received[c]) = ItemsSent(c)
        BY <3>1, <4>2
      <4>3. CASE \E n \in Range(s) : IsItem(n, c, ItemsSent(c))
        <5>1. \A n : n \in Range(s) <=> \E j \in 1 .. Len(s) : s[j] = n
          BY <2>1, SeqRange
        <5>2. QED
          BY <4>1, <4>3, <5>1
      <4>4. QED
        BY <1>4, <2>3, <4>2, <4>3 DEF AllOnTheWay
    <3>4. ItemsFollow(c)'
      <4> SUFFICES ASSUME NEW j \in 1 .. Len(t),
                          t[j].kind = "StreamMessage", t[j].data = c
                   PROVE  \/ t[j].item = Len(received[c]) + 1
                          \/ \E k \in 1 .. j - 1 : IsItem(t[k], c, t[j].item - 1)
        BY <1>1, <1>4 DEF ItemsFollow
      <4>1. CASE j = Len(s) + 1
        BY <2>1, <3>3, <4>1
      <4>2. CASE j \in 1 .. Len(s)
        <5>1. t[j] = s[j] /\ \A k \in 1 .. j - 1 : t[k] = s[k]
          BY <2>1, <4>2
        <5>2. QED
          BY <1>2, <1>4, <4>2, <5>1 DEF ItemsFollow
      <4>3. QED
        BY <2>1, <4>1, <4>2
    <3>5. QED
      BY <3>2, <3>4
  <2>5. CASE ~ (m.kind = "StreamMessage" /\ m.data = c)
    <3>1. ItemsSent(c)' = ItemsSent(c)
      BY <2>5
    <3>2. AllOnTheWay(c)'
      BY <1>1, <1>4, <2>2, <2>3, <3>1 DEF AllOnTheWay
    <3>3. ItemsFollow(c)'
      <4> SUFFICES ASSUME NEW j \in 1 .. Len(t),
                          t[j].kind = "StreamMessage", t[j].data = c
                   PROVE  \/ t[j].item = Len(received[c]) + 1
                          \/ \E k \in 1 .. j - 1 : IsItem(t[k], c, t[j].item - 1)
        BY <1>1, <1>4 DEF ItemsFollow
      <4>1. j \in 1 .. Len(s)
        BY <2>1, <2>5
      <4>2. t[j] = s[j] /\ \A k \in 1 .. j - 1 : t[k] = s[k]
        BY <2>1, <4>1
      <4>3. QED
        BY <1>2, <1>4, <4>1, <4>2 DEF ItemsFollow
    <3>4. QED
      BY <3>2, <3>3
  <2>6. QED
    BY <2>4, <2>5
<1>5. QED
  BY <1>1, <1>3, <1>4, PeerFact

\* A message about a call that has left the handle's channel.
LEMMA AddedQueue ==
  ASSUME IInv, SentOK, SentOK', NEW p \in Peer, NEW m \in Message, Added(p, m),
         UNCHANGED interaction, \A q \in Peer : m.data \notin Range(interaction[q]),
         \A e \in Call : e # m.data => Kept(e)
  PROVE  QueueOK'
<1> SUFFICES ASSUME NEW q \in Peer
             PROVE  /\ \A e \in Range(interaction[q]) : QueuedOK(q, e)'
                    /\ IsInjective(interaction[q])
  BY DEF QueueOK
<1>1. IsInjective(interaction[q])
  BY DEF IInv, QueueOK
<1>2. ASSUME NEW e \in Range(interaction[q])
      PROVE  QueuedOK(q, e)'
  <2>1. QueuedOK(q, e) /\ e # m.data /\ e \in Call
    BY Types, SeqRange DEF IInv, QueueOK
  <2>2. \A n \in Range(Sent(q))' : n \in Range(Sent(q)) \/ n = m
    BY AddedRange, PeerFact
  <2>3. Pending(e)' = Pending(e) /\ handler'[e] = handler[e]
    BY <2>1, KeptCall DEF Kept
  <2>4. QED
    BY <2>1, <2>2, <2>3 DEF QueuedOK
<1>3. QED
  BY <1>1, <1>2

\* A message that closes a stream finds it in the table.
LEMMA AddedStreamTable ==
  ASSUME IInv, SentOK, SentOK', FewerAlive, NEW p \in Peer, NEW m \in Message, Added(p, m),
         UNCHANGED <<interaction, incoming_streams, call_id>>,
         \A e \in Call : Unclosed(e)' => Unclosed(e),
         m.kind = "CloseStream" /\ Alive(Owner[m.data]) => Entered(m.data)
  PROVE  StreamTableOK'
<1> SUFFICES ASSUME NEW c \in Call, Kind[c] = "stream", Alive(Owner[c])'
             PROVE  /\ Unclosed(c)' => InQueue(c)' \/ Entered(c)'
                    /\ Closing(c)' => Entered(c)'
  BY DEF StreamTableOK
<1>1. Owner[c] \in Peer /\ Server(c) \in Peer /\ Alive(Owner[c]) /\ Server(c)' = Server(c)
  BY ServerFact DEF FewerAlive
<1>2. /\ Unclosed(c) => InQueue(c) \/ Entered(c)
      /\ Closing(c) => Entered(c)
  BY <1>1 DEF IInv, StreamTableOK
<1>3. InQueue(c)' = InQueue(c) /\ Entered(c)' = Entered(c)
  BY DEF InQueue, Entered
<1>4. \A n \in Range(Sent(Server(c)))' : n \in Range(Sent(Server(c))) \/ n = m
  <2>1. \A q \in Peer : \A n \in Range(Sent(q))' : n \in Range(Sent(q)) \/ n = m
    BY AddedRange, PeerFact
  <2>2. QED
    BY <1>1, <2>1
<1>5. Closing(c)' => Closing(c) \/ (m.kind = "CloseStream" /\ m.data = c)
  BY <1>1, <1>4 DEF Closing
<1>6. QED
  BY <1>1, <1>2, <1>3, <1>5

\* A handler of a call sends one message.
LEMMA OutgoingFrame ==
  ASSUME IInv, TypeOK', NEW p \in Peer, NEW c \in Call, NEW m \in Message,
         UNCHANGED <<inbox, interaction, incoming_responses, incoming_streams, caller,
                     call_id, answer, received, emitted>>,
         loop[p] = "select", Send(p, m), m.data = c, Server(c) = p, handler[c] # "none",
         \A e \in Call : e # c => Kept(e),
         HandlerOK(c)', OutgoingOK(c)', MessageOK(p, m)',
         handler'[c] = handler[c] \/ (handler[c] = "finished" /\ handler'[c] = "closed"),
         \A q \in Peer, n \in Message : n.data = c /\ MessageOK(q, n) => MessageOK(q, n)',
         \A n \in Range(Sent(p)) : n.data = c =>
           /\ n.kind = "StreamMessage"
           /\ m.kind = "StreamMessage" => n.item < m.item,
         m.kind = "CloseStream" /\ Alive(Owner[c]) => Entered(c),
         IF m.kind = "StreamMessage"
         THEN m.item = ItemsSent(c) + 1 /\ ItemsSent(c)' = m.item
         ELSE ItemsSent(c)' = ItemsSent(c)
  PROVE  IInv'
<1>1. TypeOK /\ SentOK /\ SentOK'
  BY Types, SentTypedNext DEF IInv
<1>2. Added(p, m)
  BY <1>1, SentSend DEF Added
<1>3. /\ loop'[p] = "send" /\ \A q \in Peer : q # p => loop'[q] = loop[q]
      /\ FewerAlive /\ Alive(p)
  <2>1. loop'[p] = "send" /\ \A q \in Peer : q # p => loop'[q] = loop[q]
    BY <1>1 DEF Send, TypeOK, ServiceTypeOK
  <2>2. QED
    BY <2>1 DEF FewerAlive, Alive
<1>4. /\ CallsOK' /\ WaitingOK' /\ TablesOK' /\ IdsOK' /\ GoneOK' /\ AnswersOwnCall'
      /\ StreamsInOrder'
  BY <1>3, OutsideFrame
<1>5. CalledOK'
  <2>1. \A e \in Call : handler'[e] = "called" => handler[e] = "called"
    BY DEF Kept
  <2>2. \A e \in Call : handler[e] = "called" => loop'[Server(e)] = loop[Server(e)]
    BY <1>3, ServerFact DEF IInv, CalledOK
  <2>3. QED
    BY <2>1, <2>2, FrameCalled DEF IInv
<1>6. MessagesOK'
  <2>1. ASSUME NEW q \in Peer, NEW n \in Message, MessageOK(q, n)
        PROVE  MessageOK(q, n)'
    <3>1. n.data \in Call
      BY DEF Message
    <3>2. QED
      BY <2>1, <3>1, KeptMessage
  <2>2. QED
    BY <1>1, <1>2, <2>1, AddedMessages DEF IInv
<1>7. MessagesOrdered'
  BY <1>1, <1>2, AddedOrdered DEF IInv
<1>8. QueueOK'
  BY <1>1, <1>2, RunningFact, AddedQueue
<1>9. StreamTableOK'
  <2>1. \A e \in Call : Unclosed(e)' => Unclosed(e)
    BY DEF Kept, Unclosed
  <2>2. QED
    BY <1>1, <1>2, <1>3, <2>1, AddedStreamTable
<1>10. ItemsOK'
  <2>1. \A e \in Call : Len(received[e]) \in Nat /\ ItemsSent(e) \in Int
    BY <1>1, Types
  <2>2. \A e \in Call : e # c => ItemsSent(e)' = ItemsSent(e)
    BY KeptCall
  <2>3. \A e \in Call : IF m.kind = "StreamMessage" /\ m.data = e
                        THEN m.item = ItemsSent(e) + 1 /\ ItemsSent(e)' = m.item
                        ELSE ItemsSent(e)' = ItemsSent(e)
    BY <2>2
  <2>4. QED
    BY <1>1, <1>2, <1>3, <2>1, <2>3, AddedItems DEF IInv
<1>11. QED
  BY <1>4, <1>5, <1>6, <1>7, <1>8, <1>9, <1>10 DEF IInv

=============================================================================
