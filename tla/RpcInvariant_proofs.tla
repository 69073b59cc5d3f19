------------------------ MODULE RpcInvariant_proofs ------------------------
(***************************************************************************)
(* The invariant of RpcSystem is inductive: a lemma for each action, and   *)
(* what follows from the invariant.                                        *)
(***************************************************************************)
EXTENDS RpcSystem_proofs

-----------------------------------------------------------------------------
(* Callers, and what moves no call.                                        *)

\* The handle is dropped, or a message gets onto the connection.
LEMMA QuietStep ==
  ASSUME IInv, TypeOK',
         UNCHANGED vars \/ \E p \in Peer : DropHandle(p) \/ Service(FinishSend(p))
  PROVE  IInv'
<1>0. /\ SentOK /\ UNCHANGED <<outVars, callerVars, handler, emitted>>
      /\ UNCHANGED <<interaction, incoming_responses, incoming_streams>>
  BY Types DEF IInv, vars, serviceVars, handleVars, tableVars, DropHandle, Service, FinishSend
<1>1. SameSent
  <2>1. CASE UNCHANGED <<inbox, sending>>
    BY <2>1, SentSame DEF SameSent
  <2>2. CASE \E p \in Peer : FinishSend(p)
    BY <2>2, SentFinish DEF SameSent, IInv
  <2>3. QED
    BY <2>1, <2>2 DEF vars, serviceVars, loopVars, DropHandle, Service
<1>2. \A p \in Peer :
        loop'[p] = loop[p] \/ (loop[p] = "send" /\ loop'[p] = "select")
  BY DEF vars, serviceVars, loopVars, DropHandle, Service, FinishSend, IInv, TypeOK,
         ServiceTypeOK
<1>3. FewerAlive
  BY <1>2 DEF FewerAlive, Alive
<1>4. \A c \in Call : handler[c] = "called" => loop'[Server(c)] = loop[Server(c)]
  BY <1>2, ServerFact DEF IInv, CalledOK
<1>5. \A c \in Call : Kept(c)
  BY <1>0, KeptVars
<1>6. ItemsOK'
  <2>1. \A c \in Call : ItemsSent(c)' = ItemsSent(c)
    BY <1>5, KeptCall
  <2>2. QED
    BY <1>0, <1>1, <1>3, <1>5, <2>1, FrameItems DEF IInv, Kept
<1>7. QED
  <2>1. WaitingOK'
    BY <1>0, <1>3, <1>5, KeptWaiting DEF IInv
  <2>2. QED
    BY <1>0, <1>1, <1>3, <1>4, <1>5, <1>6, <2>1, SameIsSome, FrameRest

\* A loop ends, and what it was sending is lost.
LEMMA EndStep ==
  ASSUME IInv, TypeOK', NEW p \in Peer, Service(TakeEnd(p)) \/ Service(FailSend(p))
  PROVE  IInv'
<1>0. /\ SentOK /\ SentOK' /\ UNCHANGED <<outVars, callerVars, handler, emitted>>
      /\ UNCHANGED <<inbox, interaction, incoming_responses, incoming_streams>>
      /\ sending' \in {sending, [sending EXCEPT ![p] = <<>>]}
      /\ loop[p] \in {"select", "send"}
      /\ \E how \in {"ended", "failed", "panicked"} : loop' = [loop EXCEPT ![p] = how]
  <2>1. TypeOK
    BY DEF IInv
  <2>2. SentOK /\ SentOK'
    BY <2>1, Types, SentTypedNext
  <2>3. CASE TakeEnd(p)
    BY <2>2, <2>3 DEF handleVars, tableVars, Service, TakeEnd
  <2>4. CASE FailSend(p)
    BY <2>2, <2>4 DEF handleVars, tableVars, Service, FailSend
  <2>5. QED
    BY <2>3, <2>4 DEF Service
<1>1. Cut(p)
  <2>1. CASE sending' = sending
    BY <1>0, <2>1, SentSame, PeerFact DEF Cut, SentOK
  <2>2. CASE sending' = [sending EXCEPT ![p] = <<>>]
    BY <1>0, <2>2, SentLost DEF Cut, IInv
  <2>3. QED
    BY <1>0, <2>1, <2>2
<1>2. /\ ~ Alive(p)' /\ \A q \in Peer : q # p => loop'[q] = loop[q]
  BY <1>0 DEF Alive, IInv, TypeOK, ServiceTypeOK
<1>3. FewerAlive
  BY <1>2 DEF FewerAlive, Alive
<1>4. \A c \in Call : handler[c] = "called" => loop'[Server(c)] = loop[Server(c)]
  BY <1>0, <1>2, ServerFact DEF IInv, CalledOK
<1>5. \A c \in Call : Kept(c)
  BY <1>0, KeptVars
<1>6. ItemsOK'
  <2>1. \A c \in Call : ItemsSent(c)' = ItemsSent(c)
    BY <1>5, KeptCall
  <2>2. QED
    BY <1>0, <1>1, <1>2, <1>3, <1>5, <2>1, FrameItemsCut DEF IInv, Kept
<1>7. QED
  <2>1. WaitingOK'
    BY <1>0, <1>3, <1>5, KeptWaiting DEF IInv
  <2>2. QED
    BY <1>0, <1>1, <1>3, <1>4, <1>5, <1>6, <2>1, CutIsSome, FrameRest

\* A call that waits has its sender while its service lives.
LEMMA WaitingHasSender ==
  ASSUME IInv, NEW c \in Call, caller[c] = "waiting", Alive(Owner[c])
  PROVE  SenderExists(c)
<1>1. /\ Owner[c] \in Peer /\ interaction[Owner[c]] \in Seq(Call) /\ call_id[c] \in Id
  BY ServerFact, Types DEF IInv
<1>2. CASE interaction[Owner[c]] = <<>>
  BY <1>1, <1>2 DEF IInv, WaitingOK, SenderExists
<1>3. CASE interaction[Owner[c]] # <<>>
  <2>1. Len(interaction[Owner[c]]) \in DOMAIN interaction[Owner[c]]
    BY <1>1, <1>3
  <2>2. QED
    BY <1>3, <2>1 DEF IInv, WaitingOK, SenderExists, InQueue
<1>4. QED
  BY <1>2, <1>3

\* A stream that is open has its sender while its service lives.
LEMMA OpenHasSender ==
  ASSUME IInv, NEW c \in Call, caller[c] = "open", Alive(Owner[c])
  PROVE  SenderExists(c)
<1>1. Kind[c] = "stream" /\ call_id[c] \in Id
  BY ServiceAssumption, Types DEF IInv, CallsOK, CallerOK
<1>2. InQueue(c) \/ Entered(c)
  BY <1>1 DEF IInv, StreamTableOK, Unclosed
<1>3. QED
  BY <1>1, <1>2 DEF SenderExists, Entered

\* A caller gives up, or notices that its service is gone.
LEMMA CallerStep ==
  ASSUME IInv, TypeOK', NEW c \in Call,
         CancelCall(c) \/ DropStream(c) \/ CallPanics(c) \/ StreamCut(c)
  PROVE  IInv'
<1>0. /\ UNCHANGED <<inbox, loop, sending, interaction, incoming_responses,
                     incoming_streams, outgoing_responses, outgoing_stream, call_id,
                     answer, received, handler, emitted>>
      /\ TypeOK
  BY DEF CancelCall, DropStream, CallPanics, StreamCut, loopVars, handleVars, tableVars,
         outVars, IInv
<1>1. \/ caller[c] = "waiting" /\ caller' = [caller EXCEPT ![c] = "cancelled"]
      \/ caller[c] = "open" /\ caller' = [caller EXCEPT ![c] = "dropped"]
      \/ /\ caller[c] = "waiting" /\ caller' = [caller EXCEPT ![c] = "panicked"]
         /\ ~ Alive(Owner[c])
      \/ /\ caller[c] = "open" /\ caller' = [caller EXCEPT ![c] = "cut"]
         /\ ~ Alive(Owner[c])
  BY WaitingHasSender, OpenHasSender DEF CancelCall, DropStream, CallPanics, StreamCut
<1>2. /\ caller[c] \in {"waiting", "open"}
      /\ \/ caller[c] = "waiting" /\ caller'[c] \in {"cancelled", "panicked"}
         \/ caller[c] = "open" /\ caller'[c] \in {"dropped", "cut"}
      /\ caller'[c] \in {"panicked", "cut"} => ~ Alive(Owner[c])
      /\ \A d \in Call : d # c => caller'[d] = caller[d]
  BY <1>0, <1>1 DEF TypeOK, ServiceTypeOK
<1>3. SentOK /\ SentOK' /\ SameSent /\ SomeSent /\ FewerAlive
  <2>1. SameSent /\ SentOK
    BY <1>0, SentSame, Types DEF SameSent
  <2>2. QED
    BY <1>0, <2>1, SentTypedNext, SameIsSome DEF FewerAlive, Alive
<1>4. \A d \in Call :
        /\ Pending(d)' = Pending(d) /\ ItemsSent(d)' = ItemsSent(d)
        /\ Misled(d)' = Misled(d)
        /\ Unclosed(d)' => Unclosed(d)
        /\ Occupied(d)' => Occupied(d)
  BY <1>0, <1>2 DEF Pending, ItemsSent, Misled, Unclosed, Occupied
<1>5. CallsOK'
  <2>1. CallerOK(c)' /\ HandlerOK(c)' /\ OutgoingOK(c)'
    <3>1. CallerOK(c) /\ HandlerOK(c) /\ OutgoingOK(c)
      BY DEF IInv, CallsOK
    <3>2. CallerOK(c)'
      BY <1>0, <1>2, <3>1, ServiceAssumption DEF CallerOK
    <3>3. HandlerOK(c)' /\ OutgoingOK(c)'
      BY <1>0, <1>2, <1>4, <3>1 DEF HandlerOK, OutgoingOK
    <3>4. QED
      BY <3>2, <3>3
  <2>2. \A d \in Call : d # c => Kept(d)
    BY <1>0, <1>2 DEF Kept
  <2>3. QED
    BY <2>1, <2>2, FrameCalls DEF IInv
<1>6. CalledOK'
  BY <1>0, FrameCalled DEF IInv
<1>7. MessagesOK' /\ MessagesOrdered'
  <2>1. ASSUME NEW p \in Peer, NEW m \in Message, MessageOK(p, m)
        PROVE  MessageOK(p, m)'
    <3>1. m.data \in Call
      BY DEF Message
    <3>2. Pending(m.data)' = Pending(m.data) /\ ItemsSent(m.data)' = ItemsSent(m.data)
      BY <1>4, <3>1
    <3>3. QED
      BY <1>0, <2>1, <3>2 DEF MessageOK
  <2>2. QED
    BY <1>3, <2>1, FrameMessages, FrameOrdered DEF IInv
<1>8. QueueOK'
  BY <1>0, <1>3, <1>4, Types, FrameQueue DEF IInv
<1>9. WaitingOK' /\ IdsOK'
  BY <1>0, <1>2, <1>3, <1>4, FrameWaiting, FrameIds DEF IInv
<1>10. TablesOK'
  BY <1>0, <1>2, FrameTables DEF IInv
<1>11. StreamTableOK'
  BY <1>0, <1>3, <1>4, FrameStreamTable DEF IInv
<1>12. GoneOK'
  BY <1>0, <1>2, <1>3 DEF IInv, GoneOK, Alive
<1>13. ItemsOK'
  BY <1>0, <1>2, <1>3, <1>4, FrameItems DEF IInv
<1>14. AnswersOwnCall'
  BY <1>0, <1>2, <1>4, FrameAnswers DEF IInv
<1>15. StreamsInOrder'
  BY <1>0, <1>2, <1>12, FrameStreams DEF IInv
<1>16. QED
  BY <1>5, <1>6, <1>7, <1>8, <1>9, <1>10, <1>11, <1>12, <1>13, <1>14, <1>15 DEF IInv

\* A call that is not made is nowhere.
LEMMA IdleFact ==
  ASSUME IInv, NEW c \in Call, caller[c] = "idle"
  PROVE  /\ ~ Pending(c) /\ handler[c] = "none" /\ ItemsSent(c) = 0
         /\ Len(received[c]) = 0
         /\ \A p \in Peer : c \notin Range(interaction[p])
         /\ \A p \in Peer : \A m \in Range(Sent(p)) : m.data # c
<1>1. ~ Pending(c)
  BY DEF Pending
<1>2. /\ handler[c] = "none" /\ emitted[c] = 0 /\ outgoing_stream[c] = <<>>
  BY DEF IInv, CallsOK, HandlerOK, OutgoingOK
<1>3. Len(received[c]) <= 0 /\ Len(received[c]) \in Nat
  BY <1>2, Types DEF IInv, StreamsInOrder
<1>4. ItemsSent(c) = 0
  <2>1. Len(outgoing_stream[c]) = 0
    BY <1>2, EmptySeq
  <2>2. emitted[c] = 0
    BY <1>2
  <2>3. ItemsSent(c) = 0 - 0
    BY <2>1, <2>2 DEF ItemsSent
  <2>4. QED
    BY <2>3
<1>5. \A p \in Peer : c \notin Range(interaction[p])
  BY <1>1, Zenon DEF IInv, QueueOK, QueuedOK
<1>6. \A p \in Peer : \A m \in Range(Sent(p)) : m.data # c
  BY <1>1 DEF IInv, MessagesOK, MessageOK
<1>7. QED
  BY <1>1, <1>2, <1>3, <1>4, <1>5, <1>6

\* The application makes a call.
LEMMA BeginStep ==
  ASSUME IInv, TypeOK', NEW c \in Call, NEW i \in Id, NEW state \in {"waiting", "open", "sent"},
         Begin(c, i, state), Kind[c] \in {"request", "stream"} => IdFree(c, i),
         Kind[c] = CASE state = "waiting" -> "request" [] state = "open" -> "stream"
                     [] OTHER -> "oneshot"
  PROVE  IInv'
<1>0. /\ UNCHANGED <<inbox, loop, sending, incoming_responses, incoming_streams,
                     outgoing_responses, outgoing_stream, answer, received, handler,
                     emitted>>
      /\ TypeOK /\ caller[c] = "idle"
  BY DEF Begin, loopVars, tableVars, outVars, IInv
<1>1. /\ caller'[c] = state /\ call_id'[c] = i
      /\ \A d \in Call : d # c => caller'[d] = caller[d] /\ call_id'[d] = call_id[d]
  BY <1>0 DEF Begin, TypeOK, ServiceTypeOK
<1>2. /\ ~ Pending(c) /\ handler[c] = "none" /\ ItemsSent(c) = 0
      /\ Len(received[c]) = 0
      /\ \A p \in Peer : c \notin Range(interaction[p])
      /\ \A p \in Peer : \A m \in Range(Sent(p)) : m.data # c
  BY <1>0, IdleFact
<1>3. SentOK /\ SentOK' /\ SameSent /\ SomeSent /\ FewerAlive
  <2>1. SameSent /\ SentOK
    BY <1>0, SentSame, Types DEF SameSent
  <2>2. QED
    BY <1>0, <2>1, SentTypedNext, SameIsSome DEF FewerAlive, Alive
<1>4. \A d \in Call : d # c => Kept(d)
  BY <1>0, <1>1 DEF Kept
<1>5. /\ \A p \in Peer : p # Owner[c] => interaction'[p] = interaction[p]
      /\ interaction'[Owner[c]] = IF Alive(Owner[c])
                                  THEN Append(interaction[Owner[c]], c)
                                  ELSE interaction[Owner[c]]
      /\ \A p \in Peer : interaction[p] \in Seq(Call)
      /\ Owner[c] \in Peer
  BY <1>0, ServerFact DEF Begin, Interact, TypeOK, ServiceTypeOK
<1>6. /\ Pending(c)'
      /\ \A d \in Call : Misled(d)' = Misled(d)
      /\ \A d \in Call : ItemsSent(d)' = ItemsSent(d)
  BY <1>0, <1>1 DEF Pending, Misled, ItemsSent
<1>7. CallsOK'
  <2>1. CallerOK(c) /\ HandlerOK(c) /\ OutgoingOK(c)
    BY DEF IInv, CallsOK
  <2>2. CallerOK(c)'
    BY <1>1 DEF CallerOK
  <2>3. HandlerOK(c)' /\ OutgoingOK(c)'
    BY <1>0, <1>1, <1>2, <1>6, <2>1 DEF HandlerOK, OutgoingOK
  <2>4. QED
    BY <1>4, <2>2, <2>3, FrameCalls DEF IInv
<1>8. CalledOK'
  BY <1>0, FrameCalled DEF IInv
<1>9. MessagesOK' /\ MessagesOrdered'
  <2>1. ASSUME NEW p \in Peer, NEW m \in Message, MessageOK(p, m), m \in Range(Sent(p))'
        PROVE  MessageOK(p, m)'
    <3>1. m.data \in Call /\ m.data # c
      BY <1>2, <2>1 DEF MessageOK, Message
    <3>2. QED
      BY <1>4, <2>1, <3>1, KeptMessage
  <2>2. QED
    BY <1>3, <2>1, FrameMessages, FrameOrdered DEF IInv
<1>10. QueueOK'
  <2> SUFFICES ASSUME NEW p \in Peer
               PROVE  /\ \A d \in Range(interaction[p])' : QueuedOK(p, d)'
                      /\ IsInjective(interaction[p])'
    BY DEF QueueOK
  <2>1. /\ IsInjective(interaction[p])
        /\ \A d \in Range(interaction[p]) : QueuedOK(p, d)
        /\ interaction[p] \in Seq(Call)
    BY <1>5 DEF IInv, QueueOK
  <2>2. Sent(p)' = Sent(p)
    BY <1>3 DEF SameSent
  <2>3. ASSUME NEW d \in Range(interaction[p])
        PROVE  QueuedOK(p, d)'
    <3>1. d \in Call /\ d # c
      BY <1>2, <2>1, SeqRange
    <3>2. Pending(d)' = Pending(d)
      BY <1>4, <3>1, KeptCall
    <3>3. QED
      BY <1>0, <2>1, <2>2, <3>2 DEF QueuedOK
  <2>4. QueuedOK(Owner[c], c)'
    <3>1. Sent(Owner[c])' = Sent(Owner[c])
      BY <1>3, <1>5 DEF SameSent
    <3>2. QED
      BY <1>0, <1>2, <1>5, <1>6, <3>1 DEF QueuedOK
  <2>5. CASE interaction'[p] = interaction[p]
    BY <2>1, <2>3, <2>5
  <2>6. CASE p = Owner[c] /\ interaction'[p] = Append(interaction[p], c)
    <3>1. ASSUME NEW d \in Range(Append(interaction[p], c))
          PROVE  d = c \/ d \in Range(interaction[p])
      BY <2>1, <3>1 DEF Range
    <3>2. IsInjective(Append(interaction[p], c))
      <4>1. \A k \in 1 .. Len(interaction[p]) : interaction[p][k] # c
        BY <1>2, <2>1 DEF Range
      <4>2. QED
        BY <2>1, <4>1 DEF IsInjective
    <3>3. QED
      BY <2>3, <2>4, <2>6, <3>1, <3>2
  <2>7. QED
    BY <1>5, <2>5, <2>6
<1>11. WaitingOK'
  <2> SUFFICES ASSUME NEW d \in Call, caller'[d] = "waiting", Alive(Owner[d])
               PROVE  LET q == interaction'[Owner[d]]
                      IN IF q = <<>> THEN incoming_responses[Owner[d]][call_id'[d]] = d
                         ELSE q[Len(q)] = d
    BY <1>0 DEF WaitingOK, Alive
  <2>1. CASE d = c
    <3>1. /\ Append(interaction[Owner[c]], c) # <<>>
          /\ Append(interaction[Owner[c]], c)[Len(Append(interaction[Owner[c]], c))] = c
      BY <1>5
    <3>2. QED
      BY <1>5, <2>1, <3>1
  <2>2. CASE d # c
    <3>1. caller[d] = "waiting" /\ call_id'[d] = call_id[d] /\ Owner[d] \in Peer
      BY <1>1, <2>2, ServerFact
    <3>2. Owner[d] # Owner[c]
      BY <3>1 DEF Begin, HandleFree
    <3>3. QED
      BY <1>5, <3>1, <3>2 DEF IInv, WaitingOK
  <2>3. QED
    BY <2>1, <2>2
<1>12. TablesOK'
  <2>1. /\ \A p \in Peer, j \in Id :
             /\ incoming_responses'[p][j] \in {NoCall, incoming_responses[p][j]}
             /\ incoming_streams'[p][j] \in {NoCall, incoming_streams[p][j]}
        /\ \A d \in Call : caller[d] # "idle" =>
             caller'[d] # "idle" /\ call_id'[d] = call_id[d]
    BY <1>0, <1>1
  <2>2. QED
    BY <1>0, <2>1, FrameTables DEF IInv
<1>13. IdsOK'
  <2>1. \A d \in Call : d # c => Occupied(d)' = Occupied(d)
    BY <1>4, KeptCall
  <2>2. ASSUME NEW d \in Call, d # c, Owner[d] = Owner[c], Kind[d] = Kind[c],
               Occupied(d), Occupied(c)'
        PROVE  call_id[d] # i
    <3>1. IdFree(c, i)
      BY <1>1, <2>2 DEF Occupied
    <3>2. QED
      BY <2>2, <3>1 DEF IdFree, Occupied
  <2>3. QED
    BY <1>1, <2>1, <2>2 DEF IInv, IdsOK
<1>14. StreamTableOK'
  <2> SUFFICES ASSUME NEW d \in Call, Kind[d] = "stream", Alive(Owner[d])
               PROVE  /\ Unclosed(d)' => InQueue(d)' \/ Entered(d)'
                      /\ Closing(d)' => Entered(d)'
    BY <1>0 DEF StreamTableOK, Alive
  <2>1. Closing(d)' = Closing(d)
    BY <1>3, ServerFact DEF Closing, SameSent
  <2>2. CASE d = c
    <3>1. ~ Closing(c)
      BY <1>2, ServerFact DEF Closing
    <3>2. InQueue(c)'
      <4>1. /\ interaction'[Owner[c]] = Append(interaction[Owner[c]], c)
            /\ interaction[Owner[c]] \in Seq(Call)
        BY <1>5, <2>2
      <4>2. /\ Len(interaction[Owner[c]]) + 1 \in DOMAIN Append(interaction[Owner[c]], c)
            /\ Append(interaction[Owner[c]], c)[Len(interaction[Owner[c]]) + 1] = c
        BY <4>1
      <4>3. QED
        BY <4>1, <4>2 DEF InQueue
    <3>3. QED
      BY <2>1, <2>2, <3>1, <3>2
  <2>3. CASE d # c
    <3>1. /\ Unclosed(d) => InQueue(d) \/ Entered(d)
          /\ Closing(d) => Entered(d)
      BY DEF IInv, StreamTableOK
    <3>2. Unclosed(d)' = Unclosed(d) /\ Entered(d)' = Entered(d)
      BY <1>0, <1>4, <2>3, KeptCall DEF Kept, Entered
    <3>3. InQueue(d) => InQueue(d)'
      <4>1. /\ Owner[d] \in Peer /\ interaction[Owner[d]] \in Seq(Call)
            /\ interaction'[Owner[d]] \in
                 {interaction[Owner[d]], Append(interaction[Owner[d]], c)}
        BY <1>5, ServerFact
      <4>2. \A k \in DOMAIN interaction[Owner[d]] :
              /\ k \in DOMAIN Append(interaction[Owner[d]], c)
              /\ Append(interaction[Owner[d]], c)[k] = interaction[Owner[d]][k]
        BY <4>1
      <4>3. QED
        BY <4>1, <4>2 DEF InQueue
    <3>4. QED
      BY <2>1, <3>1, <3>2, <3>3
  <2>4. QED
    BY <2>2, <2>3
<1>15. GoneOK'
  BY <1>0, <1>1, <1>3, FrameGone DEF IInv
<1>16. ItemsOK'
  <2> SUFFICES ASSUME NEW d \in Call, caller'[d] = "open", Alive(Owner[d])
               PROVE  /\ ItemsFollow(d)'
                      /\ (Alive(Server(d)) \/ Closing(d))' => AllOnTheWay(d)'
    BY <1>0 DEF ItemsOK, Alive
  <2>1. /\ Server(d)' = Server(d) /\ Server(d) \in Peer
        /\ Sent(Server(d))' = Sent(Server(d)) /\ Sent(Server(d)) \in Seq(Message)
    BY <1>3, ServerFact DEF SameSent, SentOK
  <2>2. CASE d = c
    <3>1. AllOnTheWay(c)'
      BY <1>0, <1>2, <1>6 DEF AllOnTheWay
    <3>2. \A j \in 1 .. Len(Sent(Server(c))) : Sent(Server(c))[j].data # c
      BY <1>2, <2>1, <2>2, SeqRange
    <3>3. ItemsFollow(c)'
      BY <2>1, <2>2, <3>2 DEF ItemsFollow
    <3>4. QED
      BY <2>2, <3>1, <3>3
  <2>3. CASE d # c
    <3>1. /\ caller[d] = "open"
          /\ ItemsFollow(d)
          /\ Alive(Server(d)) \/ Closing(d) => AllOnTheWay(d)
      BY <1>1, <2>3 DEF IInv, ItemsOK
    <3>2. /\ ItemsFollow(d)' = ItemsFollow(d)
          /\ Closing(d)' = Closing(d) /\ AllOnTheWay(d)' = AllOnTheWay(d)
          /\ Alive(Server(d))' = Alive(Server(d))
      BY <1>0, <1>6, <2>1 DEF ItemsFollow, Closing, AllOnTheWay, Alive
    <3>3. QED
      BY <3>1, <3>2
  <2>4. QED
    BY <2>2, <2>3
<1>17. AnswersOwnCall'
  BY <1>0, <1>1, <1>6, FrameAnswers DEF IInv
<1>18. StreamsInOrder'
  BY <1>0, <1>1, <1>15, FrameStreams DEF IInv
<1>19. QED
  BY <1>7, <1>8, <1>9, <1>10, <1>11, <1>12, <1>13, <1>14, <1>15, <1>16, <1>17, <1>18
     DEF IInv

-----------------------------------------------------------------------------
(* A message is taken.                                                     *)

\* The message that is taken, and its call, which is nowhere else.
LEMMA TakeFacts ==
  ASSUME IInv, TypeOK', NEW p \in Peer, NEW kind, Take(p, kind), UNCHANGED sending
  PROVE  \E m \in Message :
           /\ m = Head(inbox[p]) /\ m.kind = kind /\ Taken(p, m)
           /\ m \in Range(Sent(Other(p))) /\ MessageOK(Other(p), m)
           /\ m.data \in Call /\ m.id \in Id /\ m.item \in Nat
           /\ \A n \in Range(Sent(p))' : n.data # m.data
           /\ kind # "StreamMessage" => \A n \in Range(Sent(Other(p)))' : n.data # m.data
           /\ \A q \in Peer : m.data \notin Range(interaction[q])
<1> DEFINE m == Head(inbox[p])
<1>0. TypeOK /\ Other(p) \in Peer /\ Other(p) # p /\ \A q \in Peer : q = p \/ q = Other(p)
  BY PeerFact DEF IInv
<1>1. /\ Len(Sent(Other(p))) >= 1
      /\ m = Sent(Other(p))[1] /\ m \in Message /\ m.kind = kind
      /\ Len(Sent(Other(p))') = Len(Sent(Other(p))) - 1
      /\ \A j \in 1 .. Len(Sent(Other(p))') : Sent(Other(p))'[j] = Sent(Other(p))[j + 1]
      /\ Sent(p)' = Sent(p)
  BY <1>0, SentTake
<1>2. PICK n \in Message : n = m
  BY <1>1
<1> HIDE DEF m
<1>3. Taken(p, n) /\ n.kind = kind /\ n.data \in Call /\ n.id \in Id /\ n.item \in Nat
  BY <1>1, <1>2 DEF Taken, Message
<1>4. Sent(Other(p)) \in Seq(Message) /\ Sent(Other(p))' \in Seq(Message)
  BY <1>0, Types, SentTypedNext DEF SentOK
<1>5. n \in Range(Sent(Other(p)))
  BY <1>1, <1>2, <1>4, SeqRange
<1>6. MessageOK(Other(p), n)
  BY <1>0, <1>5 DEF IInv, MessagesOK
<1>7. n.kind \in {"Oneshot", "Request", "Response", "OpenStream", "StreamMessage",
                  "CloseStream"}
  BY DEF Message
<1>8. ASSUME NEW l \in Range(Sent(p))
      PROVE  l.data # n.data
  <2>1. MessageOK(p, l) /\ l \in Message
    BY <1>0, Types, SeqRange DEF IInv, MessagesOK, SentOK
  <2>2. l.kind \in {"Oneshot", "Request", "Response", "OpenStream", "StreamMessage",
                    "CloseStream"}
    BY <2>1 DEF Message
  <2>3. QED
    <3>1. CASE l.data # n.data
      BY <3>1
    <3>2. CASE l.data = n.data /\ l.kind \in {"Oneshot", "Request", "OpenStream"}
      BY <1>0, <1>6, <1>7, <2>1, <3>2 DEF MessageOK
    <3>3. CASE l.data = n.data /\ l.kind \in {"Response", "StreamMessage", "CloseStream"}
      BY <1>0, <1>6, <1>7, <2>1, <3>3, ServerFact, <1>3 DEF MessageOK
    <3>4. QED
      BY <2>2, <3>1, <3>2, <3>3
<1>9. ASSUME kind # "StreamMessage", NEW l \in Range(Sent(Other(p)))'
      PROVE  l.data # n.data
  <2>1. PICK j \in 1 .. Len(Sent(Other(p))') : Sent(Other(p))'[j] = l
    BY <1>4, SeqRange
  <2>2. /\ 1 \in 1 .. Len(Sent(Other(p))) /\ j + 1 \in 1 .. Len(Sent(Other(p))) /\ 1 < j + 1
        /\ Sent(Other(p))[j + 1] = l /\ Sent(Other(p))[1] = n
    BY <1>1, <1>2, <1>4, <2>1
  <2>3. \A i, k \in 1 .. Len(Sent(Other(p))) :
          i < k /\ Sent(Other(p))[i].data = Sent(Other(p))[k].data =>
            Sent(Other(p))[i].kind = "StreamMessage"
    BY <1>0 DEF IInv, MessagesOrdered
  <2>4. QED
    BY <1>3, <1>9, <2>2, <2>3
<1>10. ASSUME NEW q \in Peer, n.data \in Range(interaction[q])
       PROVE  FALSE
  <2>1. QueuedOK(q, n.data)
    BY <1>10 DEF IInv, QueueOK
  <2>2. CASE q = p
    BY <1>0, <1>6, <1>7, <2>1, <2>2 DEF QueuedOK, MessageOK
  <2>3. CASE q = Other(p)
    BY <1>5, <2>1, <2>3 DEF QueuedOK
  <2>4. QED
    BY <1>0, <2>2, <2>3
<1>11. QED
  BY <1>1, <1>2, <1>3, <1>5, <1>6, <1>8, <1>9, <1>10 DEF m

\* The response goes to the call its id is in the table for.
LEMMA ResponseStep ==
  ASSUME IInv, TypeOK', NEW p \in Peer, Service(TakeResponse(p))
  PROVE  IInv'
<1>1. PICK m \in Message :
           /\ m = Head(inbox[p]) /\ m.kind = "Response" /\ Taken(p, m)
           /\ m \in Range(Sent(Other(p))) /\ MessageOK(Other(p), m)
           /\ m.data \in Call /\ m.id \in Id /\ m.item \in Nat
           /\ \A n \in Range(Sent(p))' : n.data # m.data
           /\ \A n \in Range(Sent(Other(p)))' : n.data # m.data
           /\ \A q \in Peer : m.data \notin Range(interaction[q])
  BY TakeFacts, TakeResponseEffect
<1>d. PICK d \in Call \union {NoCall} : d = incoming_responses[p][m.id]
  BY <1>1, EntryType DEF IInv
<1>2. /\ UNCHANGED <<loop, sending, interaction, incoming_streams, outgoing_responses,
                     outgoing_stream, call_id, received, handler, emitted>>
      /\ TypeOK /\ loop[p] = "select"
  BY TakeResponseEffect DEF Take, IInv
<1>3. SentOK /\ SentOK' /\ SomeSent /\ FewerAlive
  BY <1>1, <1>2, Types, SentTypedNext, TakenIsSome, ZenonT(60) DEF FewerAlive, Alive
<1>4. IF d = NoCall
      THEN UNCHANGED <<incoming_responses, caller, answer>>
      ELSE /\ incoming_responses' = [incoming_responses EXCEPT ![p][m.id] = NoCall]
           /\ caller' = [caller EXCEPT ![d] = IF @ = "waiting" THEN "answered" ELSE @]
           /\ answer' = [answer EXCEPT ![d] = IF caller[d] = "waiting" THEN m.data ELSE @]
  BY <1>1, <1>d, TakeResponseEffect
<1>5. /\ incoming_responses \in [Peer -> [Id -> Call \union {NoCall}]]
      /\ caller \in [Call -> {"idle", "waiting", "answered", "cancelled", "panicked",
                          "open", "ended", "cut", "dropped", "sent"}]
      /\ answer \in [Call -> Call \union {NoCall}]
      /\ d \in Call \union {NoCall}
  BY <1>2, TableTypes, CallerType
<1>6. d # NoCall => Owner[d] = p /\ Kind[d] = "request" /\ call_id[d] = m.id
  BY <1>1, <1>d DEF IInv, TablesOK, EntryOK
<1>7. /\ \A q \in Peer, i \in Id :
           incoming_responses'[q][i] = IF q = p /\ i = m.id THEN NoCall
                                       ELSE incoming_responses[q][i]
      /\ \A e \in Call : e # d \/ caller[e] # "waiting" => Kept(e)
      /\ caller[d] = "waiting" /\ d # NoCall => caller'[d] = "answered" /\ answer'[d] = m.data
  <2>1. CASE d = NoCall
    BY <1>2, <1>4, <1>5, <1>d, <2>1 DEF Kept
  <2>2. CASE d # NoCall
    BY <1>1, <1>2, <1>4, <1>5, <2>2 DEF Kept
  <2>3. QED
    BY <2>1, <2>2
<1>8. \A e \in Call : caller'[e] = "waiting" => caller[e] = "waiting" /\ e # d
  BY <1>5, <1>7, ServiceAssumption DEF Kept
<1>9. WaitingOK'
  <2> SUFFICES ASSUME NEW e \in Call, caller'[e] = "waiting", Alive(Owner[e])
               PROVE  LET q == interaction[Owner[e]]
                      IN IF q = <<>> THEN incoming_responses'[Owner[e]][call_id[e]] = e
                         ELSE q[Len(q)] = e
    BY <1>2 DEF WaitingOK, Alive
  <2>1. caller[e] = "waiting" /\ e # d /\ Owner[e] \in Peer /\ call_id[e] \in Id
    BY <1>2, <1>8, ServerFact, Types
  <2>2. QED
    BY <1>7, <1>d, <2>1 DEF IInv, WaitingOK
<1>10. ItemsOK'
  <2>1. \A e \in Call : Len(received[e]) \in Nat /\ ItemsSent(e) \in Int
    BY <1>2, Types
  <2>2. \A e \in Call : ItemsSent(e)' = ItemsSent(e)
    BY <1>2 DEF ItemsSent
  <2>3. \A e \in Call : caller'[e] = "open" => caller[e] = "open"
    BY <1>5, <1>7, ServiceAssumption DEF Kept
  <2>4. QED
    BY <1>1, <1>2, <1>3, <2>1, <2>2, <2>3, FrameItemsTaken DEF IInv
<1>11. CASE d = NoCall \/ caller[d] # "waiting"
  <2>1. \A e \in Call : Kept(e)
    BY <1>7, <1>11, ServiceAssumption
  <2>2. QED
    BY <1>2, <1>3, <1>7, <1>9, <1>10, <2>1, FrameRest
<1>12. CASE d # NoCall /\ caller[d] = "waiting"
  <2>1. /\ d \in Call /\ caller'[d] = "answered" /\ answer'[d] = m.data
        /\ \A e \in Call : e # d => Kept(e)
    BY <1>5, <1>7, <1>12
  <2>2. /\ m.data # d => Pending(d)'
        /\ m.data = d => handler[d] = "finished" /\ outgoing_responses[d] = "none"
    BY <1>1, <1>12, <2>1 DEF Pending, MessageOK
  <2>3. CallsOK'
    <3>1. CallerOK(d) /\ HandlerOK(d) /\ OutgoingOK(d)
      BY <2>1 DEF IInv, CallsOK
    <3>2. CallerOK(d)'
      BY <1>1, <1>6, <1>12, <2>1 DEF CallerOK
    <3>3. HandlerOK(d)'
      BY <1>2, <2>1, <2>2, <3>1 DEF HandlerOK
    <3>4. OutgoingOK(d)'
      <4>1. ItemsSent(d)' = ItemsSent(d)
        BY <1>2 DEF ItemsSent
      <4>2. QED
        BY <1>2, <2>2, <3>1, <4>1 DEF OutgoingOK
    <3>5. QED
      BY <2>1, <3>2, <3>3, <3>4, FrameCalls DEF IInv
  <2>4. CalledOK'
    BY <1>2, FrameCalled DEF IInv
  <2>5. MessagesOK' /\ MessagesOrdered'
    <3>1. ASSUME NEW q \in Peer, NEW n \in Message, MessageOK(q, n), n \in Range(Sent(q))'
          PROVE  MessageOK(q, n)'
      <4>1. n.data \in Call /\ n.data # m.data
        BY <1>1, <3>1, PeerFact DEF Message
      <4>2. CASE n.data # d
        BY <2>1, <3>1, <4>1, <4>2, KeptMessage
      <4>3. CASE n.data = d
        <5>1. Pending(n.data)' /\ ItemsSent(n.data)' = ItemsSent(n.data)
          BY <1>2, <2>2, <4>1, <4>3 DEF ItemsSent
        <5>2. QED
          BY <1>2, <3>1, <5>1 DEF MessageOK
      <4>4. QED
        BY <4>2, <4>3
    <3>2. QED
      BY <1>3, <3>1, FrameMessages, FrameOrdered DEF IInv
  <2>6. QueueOK'
    <3>1. ASSUME NEW e \in Call, Pending(e), handler[e] = "none"
          PROVE  \/ Pending(e)' /\ handler'[e] = "none"
                 \/ \A q \in Peer : e \notin Range(interaction[q])
      <4>1. CASE e # d
        BY <1>2, <2>1, <3>1, <4>1, KeptCall
      <4>2. CASE e = d
        BY <1>1, <1>2, <2>2, <3>1, <4>2
      <4>3. QED
        BY <4>1, <4>2
    <3>2. \A q \in Peer : interaction[q] \in Seq(Call)
      BY <1>2, Types
    <3>3. QED
      BY <1>2, <1>3, <3>1, <3>2, FrameQueue DEF IInv
  <2>7. TablesOK' /\ IdsOK' /\ StreamTableOK'
    <3>1. /\ \A e \in Call : caller[e] # "idle" => caller'[e] # "idle" /\ call_id'[e] = call_id[e]
          /\ \A e \in Call : (Occupied(e)' => Occupied(e)) /\ (Unclosed(e)' => Unclosed(e))
      <4>1. ASSUME NEW e \in Call, e # d
            PROVE  /\ caller'[e] = caller[e]
                   /\ Occupied(e)' = Occupied(e) /\ Unclosed(e)' = Unclosed(e)
        BY <2>1, <4>1, KeptCall DEF Kept
      <4>2. ~ Occupied(d)' /\ ~ Unclosed(d)'
        BY <2>1 DEF Occupied, Unclosed
      <4>3. QED
        BY <1>2, <2>1, <4>1, <4>2
    <3>2. QED
      BY <1>2, <1>3, <1>7, <3>1, FrameTables, FrameIds, FrameStreamTable DEF IInv
  <2>8. GoneOK'
    <3>1. \A e \in Call : caller'[e] \in {"panicked", "cut"} => caller'[e] = caller[e]
      BY <2>1 DEF Kept
    <3>2. QED
      BY <1>3, <3>1, FrameGone DEF IInv
  <2>9. StreamsInOrder'
    <3>1. \A e \in Call : caller'[e] = "ended" => caller[e] = "ended"
      BY <2>1 DEF Kept
    <3>2. QED
      BY <1>2, <2>8, <3>1, FrameStreams DEF IInv
  <2>10. AnswersOwnCall'
    <3> SUFFICES ASSUME NEW e \in Call, Misled(e)'
                 PROVE  /\ call_id[e] \in Reused
                        /\ Owner[answer'[e]] = Owner[e] /\ call_id[answer'[e]] = call_id[e]
                        /\ \/ caller'[answer'[e]] = "cancelled"
                           \/ caller'[answer'[e]] = "answered"
                              /\ answer'[answer'[e]] # answer'[e]
      BY <1>2 DEF AnswersOwnCall, Misled
    <3>1. ASSUME NEW f \in Call, caller[f] = "cancelled" \/ Misled(f)
          PROVE  /\ caller'[f] = "cancelled" \/ (caller'[f] = "answered" /\ answer'[f] # f)
                 /\ f # d
      BY <1>12, <2>1, <3>1 DEF Misled, Kept
    <3>2. CASE e # d
      <4>1. Misled(e) /\ answer'[e] = answer[e] /\ answer[e] \in Call
        BY <2>1, <3>2, KeptCall DEF Kept, IInv, CallsOK, CallerOK, Misled
      <4>2. QED
        BY <3>1, <4>1 DEF IInv, AnswersOwnCall
    <3>3. CASE e = d
      <4> DEFINE c == m.data
      <4>1. c \in Call /\ c # d /\ answer'[e] = c
        BY <1>1, <2>1, <3>3 DEF Misled
      <4>2. /\ Owner[c] = p /\ Kind[c] = "request" /\ call_id[c] = m.id /\ Pending(c)
        BY <1>1, PeerFact, ServerFact DEF MessageOK
      <4>3. /\ Owner[d] = p /\ Kind[d] = "request" /\ call_id[d] = m.id /\ Alive(p)
        BY <1>2, <1>6, <1>12 DEF Alive
      <4>4. caller[c] \in {"waiting", "answered", "cancelled", "panicked"}
        BY <4>1, <4>2 DEF Pending, IInv, CallsOK, CallerOK
      <4>5. caller[c] # "panicked"
        BY <4>1, <4>2, <4>3 DEF IInv, GoneOK
      <4>6. Occupied(d) /\ ~ Occupied(c)
        BY <1>12, <2>1, <4>1, <4>2, <4>3 DEF IInv, IdsOK, Occupied
      <4>7. \/ caller[c] = "cancelled" /\ call_id[c] \in Reused
            \/ Misled(c)
        BY <4>2, <4>4, <4>5, <4>6 DEF Occupied, Misled, Pending
      <4>8. call_id[c] \in Reused
        BY <4>1, <4>7 DEF IInv, AnswersOwnCall
      <4>9. QED
        BY <3>1, <3>3, <4>1, <4>2, <4>3, <4>7, <4>8
    <3>4. QED
      BY <3>2, <3>3
  <2>11. QED
    BY <1>9, <1>10, <1>11, <2>3, <2>4, <2>5, <2>6, <2>7, <2>8, <2>9, <2>10 DEF IInv
<1>13. QED
  BY <1>11, <1>12, Zenon

\* A stream whose items still come has its entry, and no other has its id.
LEMMA StreamEntry ==
  ASSUME IInv, NEW p \in Peer, Alive(p), NEW i \in Id,
         NEW c \in Call, Owner[c] = p, Kind[c] = "stream", Pending(c), call_id[c] = i,
         \A q \in Peer : c \notin Range(interaction[q])
  PROVE  /\ caller[c] = "open" => incoming_streams[p][i] = c
         /\ \A d \in Call : incoming_streams[p][i] = d /\ Occupied(d) => d = c
<1>1. caller[c] \in {"open", "dropped"}
  <2>1. caller[c] \in {"open", "cut", "dropped"}
    BY DEF Pending, IInv, CallsOK, CallerOK
  <2>2. QED
    BY <2>1 DEF IInv, GoneOK
<1>2. ~ InQueue(c)
  <2>1. interaction[p] \in Seq(Call)
    BY Types DEF IInv
  <2>2. QED
    BY <2>1 DEF InQueue, Range
<1>3. caller[c] = "open" => incoming_streams[p][i] = c
  BY <1>2 DEF IInv, StreamTableOK, Unclosed, Entered
<1>4. ASSUME NEW d \in Call, incoming_streams[p][i] = d, Occupied(d)
      PROVE  d = c
  <2>1. Owner[d] = p /\ Kind[d] = "stream" /\ call_id[d] = i
    BY <1>4, ServiceAssumption DEF IInv, TablesOK, EntryOK
  <2>2. Occupied(c)
    BY <1>1 DEF Occupied
  <2>3. QED
    BY <1>4, <2>1, <2>2 DEF IInv, IdsOK
<1>5. QED
  BY <1>3, <1>4

\* The item goes to the stream its id is in the table for.
LEMMA StreamMessageStep ==
  ASSUME IInv, TypeOK', NEW p \in Peer, Service(TakeStreamMessage(p))
  PROVE  IInv'
<1>1. PICK m \in Message :
           /\ m = Head(inbox[p]) /\ m.kind = "StreamMessage" /\ Taken(p, m)
           /\ m \in Range(Sent(Other(p))) /\ MessageOK(Other(p), m)
           /\ m.data \in Call /\ m.id \in Id /\ m.item \in Nat
           /\ \A n \in Range(Sent(p))' : n.data # m.data
           /\ \A q \in Peer : m.data \notin Range(interaction[q])
  BY TakeFacts, Zenon DEF Service, TakeStreamMessage
<1>d. PICK d \in Call \union {NoCall} : d = incoming_streams[p][m.id]
  BY <1>1, EntryType DEF IInv
<1>2. /\ UNCHANGED <<sending, interaction, incoming_responses, incoming_streams,
                     outgoing_responses, outgoing_stream, caller, call_id, answer,
                     handler, emitted>>
      /\ TypeOK /\ loop[p] = "select" /\ Alive(p)
  BY Zenon DEF Service, TakeStreamMessage, Take, handleVars, tableVars, outVars, IInv, Alive
<1>3. \/ d = NoCall /\ UNCHANGED <<loop, received>>
      \/ /\ d # NoCall /\ caller[d] = "open" /\ UNCHANGED loop
         /\ received' = [received EXCEPT ![d] =
                           Append(@, [data |-> m.data, item |-> m.item])]
      \/ /\ d # NoCall /\ caller[d] = "dropped" /\ UNCHANGED received
         /\ loop' = [loop EXCEPT ![p] = "panicked"]
  BY <1>1, <1>d, Zenon DEF Service, TakeStreamMessage
<1>4. \A q \in Peer : q # p => loop'[q] = loop[q]
  BY <1>2, <1>3, LoopType
<1>5. SentOK /\ SentOK' /\ SomeSent /\ FewerAlive
  <2>1. FewerAlive
    BY <1>2, <1>4 DEF FewerAlive, Alive
  <2>2. QED
    BY <1>1, <1>2, <2>1, Types, SentTypedNext, TakenIsSome
<1>6. LET c == m.data IN
      /\ Owner[c] = p /\ Kind[c] = "stream" /\ call_id[c] = m.id /\ Pending(c)
      /\ m.item \in 1 .. ItemsSent(c)
  BY <1>1, PeerFact, ServerFact DEF MessageOK
<1>7. /\ caller[m.data] = "open" => d = m.data
      /\ d # NoCall /\ caller[d] = "open" => d = m.data
  <2>1. caller[d] = "open" => Occupied(d)
    BY Zenon DEF Occupied
  <2>2. QED
    BY <1>1, <1>2, <1>6, <1>d, <2>1, StreamEntry
<1>8. /\ \A e \in Call : e # m.data => received'[e] = received[e]
      /\ IF caller[m.data] = "open"
         THEN received'[m.data] =
                Append(received[m.data], [data |-> m.data, item |-> m.item])
         ELSE received'[m.data] = received[m.data]
  <2>1. received \in [Call -> Seq([data : Call, item : Nat])] /\ NoCall \notin Call
    BY <1>2, ServiceAssumption DEF TypeOK, ServiceTypeOK
  <2>2. QED
    BY <1>1, <1>3, <1>7, <2>1
<1>9. \A e \in Call :
        /\ Pending(e)' = Pending(e) /\ ItemsSent(e)' = ItemsSent(e)
        /\ Misled(e)' = Misled(e) /\ Unclosed(e)' = Unclosed(e)
        /\ Occupied(e)' = Occupied(e)
        /\ CallerOK(e)' = CallerOK(e) /\ HandlerOK(e)' = HandlerOK(e)
        /\ OutgoingOK(e)' = OutgoingOK(e)
  BY <1>2 DEF Pending, ItemsSent, Misled, Unclosed, Occupied, CallerOK, HandlerOK,
              OutgoingOK
<1>10. CallsOK' /\ CalledOK'
  <2>1. CallsOK'
    BY <1>9 DEF IInv, CallsOK
  <2>2. \A e \in Call : handler[e] = "called" => loop'[Server(e)] = loop[Server(e)]
    BY <1>2, <1>4, ServerFact DEF IInv, CalledOK
  <2>3. QED
    BY <1>2, <2>1, <2>2, FrameCalled DEF IInv
<1>11. MessagesOK' /\ MessagesOrdered'
  <2>1. ASSUME NEW q \in Peer, NEW n \in Message, MessageOK(q, n)
        PROVE  MessageOK(q, n)'
    <3>1. Pending(n.data)' = Pending(n.data) /\ ItemsSent(n.data)' = ItemsSent(n.data)
      BY <1>9 DEF Message
    <3>2. QED
      BY <1>2, <2>1, <3>1 DEF MessageOK
  <2>2. QED
    BY <1>5, <2>1, FrameMessages, FrameOrdered DEF IInv
<1>12. QueueOK'
  BY <1>2, <1>5, <1>9, Types, FrameQueue DEF IInv
<1>13. WaitingOK' /\ TablesOK' /\ IdsOK'
  BY <1>2, <1>5, <1>9, FrameWaiting, FrameTables, FrameIds DEF IInv
<1>14. StreamTableOK' /\ GoneOK'
  BY <1>2, <1>5, <1>9, FrameStreamTable, FrameGone, Zenon DEF IInv
<1>15. ItemsOK'
  <2>1. \A e \in Call : Len(received[e]) \in Nat /\ ItemsSent(e) \in Int
    BY <1>2, Types
  <2>2. /\ m.kind = "StreamMessage" /\ m.item <= ItemsSent(m.data)
        /\ Owner[m.data] # Other(p)
    BY <1>1, <1>6, PeerFact
  <2>3. caller[m.data] = "open" => Len(received'[m.data]) = Len(received[m.data]) + 1
    <3>1. received[m.data] \in Seq([data : Call, item : Nat])
      BY <1>1, <1>2, ReceivedType
    <3>2. QED
      BY <1>8, <3>1
  <2>4. QED
    BY <1>1, <1>2, <1>5, <1>8, <1>9, <2>1, <2>2, <2>3, FrameItemsTaken, SMTT(30) DEF IInv
<1>16. AnswersOwnCall'
  BY <1>2, <1>9, FrameAnswers DEF IInv
<1>17. StreamsInOrder'
  <2> DEFINE c == m.data
  <2>0. StreamsInOrder
    BY DEF IInv
  <2>1. ASSUME NEW e \in Call
        PROVE  /\ emitted'[e] = emitted[e]
               /\ caller'[e] = "ended" => Len(received[e]) = emitted[e] /\ received'[e] = received[e]
               /\ caller'[e] = "cut" => ~ Alive(Owner[e])'
    BY <1>2, <1>8, <1>14, <2>0 DEF StreamsInOrder, GoneOK
  <2>2. ASSUME NEW e \in Call, e # c \/ caller[c] # "open"
        PROVE  /\ Len(received'[e]) <= emitted[e]
               /\ \A k \in DOMAIN received'[e] : received'[e][k] = [data |-> e, item |-> k]
    BY <1>8, <2>0, <2>2 DEF StreamsInOrder
  <2>3. CASE caller[c] = "open"
    <3>1. m.item = Len(received[c]) + 1
      <4>1. ItemsFollow(c)
        BY <1>1, <1>2, <1>6, <2>3 DEF IInv, ItemsOK
      <4>2. Server(c) = Other(p)
        BY <1>6 DEF Server
      <4>3. Len(Sent(Server(c))) >= 1 /\ Sent(Server(c))[1] = m
        BY <1>1, <4>2 DEF Taken
      <4>4. 1 \in 1 .. Len(Sent(Server(c)))
        BY <1>1, <1>5, <4>3, ServerFact DEF SentOK
      <4>5. QED
        BY <1>1, <4>1, <4>3, <4>4 DEF ItemsFollow
    <3>2. m.item <= emitted[c]
      <4>1. emitted[c] \in Nat /\ Len(outgoing_stream[c]) \in Nat
        BY <1>1, <1>2, Types
      <4>2. QED
        BY <1>1, <1>6, <4>1 DEF ItemsSent
    <3>3. /\ received[c] \in Seq([data : Call, item : Nat])
          /\ [data |-> m.data, item |-> m.item] \in [data : Call, item : Nat]
      BY <1>1, <1>2, ReceivedType
    <3>4. \A k \in DOMAIN received[c] : received[c][k] = [data |-> c, item |-> k]
      BY <1>1, <2>0 DEF StreamsInOrder
    <3>5. received'[c] = Append(received[c], [data |-> m.data, item |-> m.item])
      BY <1>8, <2>3
    <3>6. /\ Len(received'[c]) = m.item
          /\ \A k \in DOMAIN received'[c] : received'[c][k] = [data |-> c, item |-> k]
      <4> DEFINE r == [data |-> m.data, item |-> m.item]
      <4>1. /\ Len(Append(received[c], r)) = Len(received[c]) + 1
            /\ DOMAIN Append(received[c], r) = 1 .. Len(received[c]) + 1
            /\ DOMAIN received[c] = 1 .. Len(received[c])
            /\ \A k \in 1 .. Len(received[c]) : Append(received[c], r)[k] = received[c][k]
            /\ Append(received[c], r)[Len(received[c]) + 1] = r
        BY <3>3, AppendProperties, LenProperties
      <4>2. Len(received[c]) \in Nat
        BY <3>3
      <4>3. QED
        BY <3>1, <3>4, <3>5, <4>1, <4>2
    <3>7. /\ Len(received'[c]) <= emitted[c]
          /\ \A k \in DOMAIN received'[c] : received'[c][k] = [data |-> c, item |-> k]
      BY <3>2, <3>6
    <3>8. QED
      BY <2>1, <2>2, <3>7 DEF StreamsInOrder
  <2>4. CASE caller[c] # "open"
    BY <2>1, <2>2, <2>4 DEF StreamsInOrder
  <2>5. QED
    BY <2>3, <2>4
<1>18. QED
  BY <1>10, <1>11, <1>12, <1>13, <1>14, <1>15, <1>16, <1>17, Zenon DEF IInv

\* The end of a stream finds the stream in the table.
LEMMA CloseEntry ==
  ASSUME IInv, NEW p \in Peer, NEW m \in Range(Sent(Other(p))), Alive(p),
         m.kind = "CloseStream", m.data \in Call
  PROVE  incoming_streams[p][m.id] = m.data
<1>1. PICK c \in Call : c = m.data
  OBVIOUS
<1>2. /\ Owner[c] = p /\ Kind[c] = "stream" /\ call_id[c] = m.id /\ Server(c) = Other(p)
  BY <1>1, PeerFact, ServerFact DEF IInv, MessagesOK, MessageOK, Server
<1>3. Closing(c)
  BY <1>1, <1>2 DEF Closing
<1>4. QED
  BY <1>1, <1>2, <1>3 DEF IInv, StreamTableOK, Entered

\* The stream that the peer closed ends, with everything received.
LEMMA CloseStep ==
  ASSUME IInv, TypeOK', NEW p \in Peer, Service(TakeClose(p))
  PROVE  IInv'
<1>1. PICK m \in Message :
           /\ m = Head(inbox[p]) /\ m.kind = "CloseStream" /\ Taken(p, m)
           /\ m \in Range(Sent(Other(p))) /\ MessageOK(Other(p), m)
           /\ m.data \in Call /\ m.id \in Id /\ m.item \in Nat
           /\ \A n \in Range(Sent(p))' : n.data # m.data
           /\ \A n \in Range(Sent(Other(p)))' : n.data # m.data
           /\ \A q \in Peer : m.data \notin Range(interaction[q])
  BY TakeFacts, TakeCloseEffect
<1>c. PICK c \in Call : c = m.data
  BY <1>1, Zenon
<1>2. /\ UNCHANGED <<sending, interaction, incoming_responses, outgoing_responses,
                     outgoing_stream, call_id, answer, received, handler, emitted>>
      /\ TypeOK /\ loop[p] = "select" /\ Alive(p)
  BY TakeCloseEffect DEF Take, IInv, Alive
<1>3. /\ Owner[c] = p /\ Kind[c] = "stream" /\ call_id[c] = m.id /\ Pending(c)
      /\ handler[c] = "closed" /\ Server(c) = Other(p)
  BY <1>1, <1>c, PeerFact, ServerFact DEF MessageOK, Server
<1>4. incoming_streams[p][m.id] = c
  BY <1>1, <1>c, <1>2, CloseEntry
<1>5. /\ incoming_streams' = [incoming_streams EXCEPT ![p][m.id] = NoCall]
      /\ caller' = [caller EXCEPT ![c] = IF @ = "open" THEN "ended" ELSE @]
      /\ UNCHANGED loop
  BY <1>1, <1>4, ServiceAssumption, TakeCloseEffect
<1>6. /\ \A q \in Peer, i \in Id :
           incoming_streams'[q][i] = IF q = p /\ i = m.id THEN NoCall
                                     ELSE incoming_streams[q][i]
      /\ caller'[c] = IF caller[c] = "open" THEN "ended" ELSE caller[c]
      /\ \A e \in Call : e # c => caller'[e] = caller[e]
  <2>1. /\ incoming_streams \in [Peer -> [Id -> Call \union {NoCall}]]
        /\ caller \in [Call -> {"idle", "waiting", "answered", "cancelled", "panicked",
                               "open", "ended", "cut", "dropped", "sent"}]
    BY <1>2, TableTypes, CallerType
  <2>2. \A q \in Peer, i \in Id :
           incoming_streams'[q][i] = IF q = p /\ i = m.id THEN NoCall
                                     ELSE incoming_streams[q][i]
    BY <1>1, <1>5, <2>1
  <2>3. /\ caller'[c] = IF caller[c] = "open" THEN "ended" ELSE caller[c]
        /\ \A e \in Call : e # c => caller'[e] = caller[e]
    BY <1>5, <2>1
  <2>4. QED
    BY <2>2, <2>3
<1>7. caller[c] \in {"open", "dropped"}
  <2>1. caller[c] \in {"open", "cut", "dropped"}
    BY <1>3 DEF Pending, IInv, CallsOK, CallerOK
  <2>2. QED
    BY <1>2, <1>3, <2>1 DEF IInv, GoneOK
<1>8. SentOK /\ SentOK' /\ SomeSent /\ FewerAlive
  BY <1>1, <1>2, <1>5, Types, SentTypedNext, TakenIsSome DEF FewerAlive, Alive
<1>9. \A e \in Call : e # c => Kept(e)
  BY <1>2, <1>6 DEF Kept
<1>10. CallsOK' /\ CalledOK'
  <2>1. CallerOK(c) /\ HandlerOK(c) /\ OutgoingOK(c)
    BY DEF IInv, CallsOK
  <2>2. CallerOK(c)'
    BY <1>3, <1>6, <1>7, <2>1 DEF CallerOK
  <2>3. HandlerOK(c)'
    BY <1>2, <1>3, <1>6, <1>7, <2>1 DEF HandlerOK
  <2>4. OutgoingOK(c)'
    <3>1. ItemsSent(c)' = ItemsSent(c)
      BY <1>2 DEF ItemsSent
    <3>2. QED
      BY <1>2, <1>3, <2>1, <3>1 DEF OutgoingOK
  <2>5. QED
    BY <1>2, <1>5, <1>9, <2>2, <2>3, <2>4, FrameCalls, FrameCalled DEF IInv
<1>11. MessagesOK' /\ MessagesOrdered'
  <2>1. ASSUME NEW q \in Peer, NEW n \in Message, MessageOK(q, n), n \in Range(Sent(q))'
        PROVE  MessageOK(q, n)'
    <3>1. n.data \in Call /\ n.data # c
      BY <1>1, <1>c, <2>1, PeerFact DEF Message
    <3>2. QED
      BY <1>9, <2>1, <3>1, KeptMessage
  <2>2. QED
    BY <1>8, <2>1, FrameMessages, FrameOrdered DEF IInv
<1>12. QueueOK'
  <2>1. ASSUME NEW e \in Call, Pending(e), handler[e] = "none"
        PROVE  Pending(e)' /\ handler'[e] = "none"
    BY <1>2, <1>3, <1>9, <2>1, KeptCall
  <2>2. \A q \in Peer : interaction[q] \in Seq(Call)
    BY <1>2, Types
  <2>3. QED
    BY <1>2, <1>8, <2>1, <2>2, FrameQueue DEF IInv
<1>13. \A e \in Call : e # c =>
         /\ Occupied(e)' = Occupied(e) /\ Unclosed(e)' = Unclosed(e)
         /\ Misled(e)' = Misled(e)
  BY <1>9, KeptCall
<1>14. WaitingOK'
  BY <1>2, <1>6, <1>7, <1>8, FrameWaiting DEF IInv
<1>15. TablesOK'
  BY <1>2, <1>6, <1>7, FrameTables DEF IInv
<1>16. IdsOK'
  <2>1. Occupied(c)' => Occupied(c)
    BY <1>6, <1>7 DEF Occupied
  <2>2. QED
    BY <1>2, <1>13, <2>1, FrameIds DEF IInv
<1>17. StreamTableOK'
  <2> SUFFICES ASSUME NEW e \in Call, Kind[e] = "stream", Alive(Owner[e])
               PROVE  /\ Unclosed(e)' => InQueue(e)' \/ Entered(e)'
                      /\ Closing(e)' => Entered(e)'
    BY <1>5 DEF StreamTableOK, Alive
  <2>1. CASE e = c
    <3>1. ~ Unclosed(c)'
      BY <1>2, <1>3, <1>6, <1>7 DEF Unclosed
    <3>2. ~ Closing(c)'
      BY <1>1, <1>c, <1>3, ServerFact DEF Closing
    <3>3. QED
      BY <2>1, <3>1, <3>2
  <2>2. CASE e # c
    <3>1. Closing(e)' => Closing(e)
      <4>1. \A q \in Peer : Range(Sent(q))' \subseteq Range(Sent(q))
        BY <1>8, SomeRange
      <4>2. QED
        BY <4>1, ServerFact DEF Closing
    <3>2. InQueue(e)' = InQueue(e)
      BY <1>2 DEF InQueue
    <3>3. Entered(e) => Entered(e)'
      <4>1. Owner[e] \in Peer /\ call_id[e] \in Id /\ call_id'[e] = call_id[e]
        BY <1>2, ServerFact, Types
      <4>2. incoming_streams'[Owner[e]][call_id[e]] =
              IF Owner[e] = p /\ call_id[e] = m.id THEN NoCall
              ELSE incoming_streams[Owner[e]][call_id[e]]
        BY <1>6, <4>1
      <4>3. QED
        BY <1>4, <2>2, <4>1, <4>2 DEF Entered
    <3>4. QED
      BY <1>13, <2>2, <3>1, <3>2, <3>3 DEF IInv, StreamTableOK
  <2>3. QED
    BY <2>1, <2>2
<1>18. GoneOK'
  BY <1>6, <1>7, <1>8, FrameGone DEF IInv
<1>19. ItemsOK'
  <2>1. \A e \in Call : Len(received[e]) \in Nat /\ ItemsSent(e) \in Int
    BY <1>2, Types
  <2>2. \A e \in Call : ItemsSent(e)' = ItemsSent(e)
    BY <1>2 DEF ItemsSent
  <2>3. \A e \in Call : caller'[e] = "open" => caller[e] = "open"
    BY <1>6
  <2>4. QED
    BY <1>1, <1>2, <1>8, <2>1, <2>2, <2>3, FrameItemsTaken DEF IInv
<1>20. AnswersOwnCall'
  <2>1. ~ Misled(c) /\ Misled(c)' = Misled(c)
    BY <1>6, <1>7 DEF Misled
  <2>2. \A e \in Call : Misled(e)' = Misled(e) /\ (Misled(e) => answer'[e] = answer[e])
    BY <1>2, <1>13, <2>1
  <2>3. /\ \A e \in Call : caller[e] # "idle" => call_id'[e] = call_id[e]
        /\ \A e \in Call : caller[e] = "cancelled" => caller'[e] = "cancelled"
    BY <1>2, <1>6, <1>7
  <2>4. CallsOK /\ AnswersOwnCall
    BY DEF IInv
  <2>5. QED
    BY <2>2, <2>3, <2>4, FrameAnswers
<1>21. StreamsInOrder'
  <2>1. caller[c] = "open" => Len(received[c]) = emitted[c]
    <3> SUFFICES ASSUME caller[c] = "open"
                 PROVE  Len(received[c]) = emitted[c]
      OBVIOUS
    <3>1. Closing(c)
      BY <1>1, <1>c, <1>3 DEF Closing
    <3>2. AllOnTheWay(c)
      BY <1>2, <1>3, <3>1 DEF IInv, ItemsOK
    <3>3. ItemsSent(c) = emitted[c]
      <4>1. outgoing_stream[c] = <<>>
        BY <1>3 DEF IInv, CallsOK, HandlerOK
      <4>2. Len(outgoing_stream[c]) = 0 /\ emitted[c] \in Nat
        BY <1>2, <4>1, Types, EmptySeq
      <4>3. QED
        BY <4>2 DEF ItemsSent
    <3>4. \A n \in Range(Sent(Server(c))) : ~ IsItem(n, c, ItemsSent(c))
      <4> SUFFICES ASSUME NEW n \in Range(Sent(Other(p))), n.kind = "StreamMessage",
                          n.data = c
                   PROVE  FALSE
        BY <1>3 DEF IsItem
      <4>1. Sent(Other(p)) \in Seq(Message) /\ Sent(Other(p))' \in Seq(Message)
        BY <1>8, PeerFact DEF SentOK
      <4>2. PICK j \in 1 .. Len(Sent(Other(p))) : Sent(Other(p))[j] = n
        BY <4>1, SeqRange
      <4>3. j # 1
        BY <1>1, <4>2 DEF Taken
      <4>4. j - 1 \in 1 .. Len(Sent(Other(p))') /\ Sent(Other(p))'[j - 1] = n
        BY <1>1, <4>1, <4>2, <4>3 DEF Taken
      <4>5. n \in Range(Sent(Other(p)))'
        BY <4>1, <4>4, SeqRange
      <4>6. QED
        BY <1>1, <1>c, <4>5
    <3>5. QED
      BY <3>2, <3>3, <3>4 DEF AllOnTheWay
  <2>2. QED
    BY <1>2, <1>6, <1>7, <1>18, <2>1 DEF IInv, StreamsInOrder, GoneOK
<1>22. QED
  BY <1>10, <1>11, <1>12, <1>14, <1>15, <1>16, <1>17, <1>18, <1>19, <1>20, <1>21, Zenon
     DEF IInv

\* A message is handed to a handler, in a task of its own or in the loop.
LEMMA ServeStep ==
  ASSUME IInv, TypeOK', NEW p \in Peer,
         ServeRequest(p) \/ ServeStream(p) \/ ServeOneshot(p) \/ HandleInline(p)
  PROVE  IInv'
<1>0. PICK kind \in {"Request", "OpenStream", "Oneshot"} : Take(p, kind)
  BY DEF ServeRequest, ServeStream, ServeOneshot, HandleInline
<1>u. /\ UNCHANGED <<sending, interaction, incoming_responses, incoming_streams, caller,
                     call_id, answer, received, emitted>>
      /\ TypeOK /\ loop[p] = "select"
  BY <1>0 DEF ServeRequest, ServeStream, ServeOneshot, HandleInline, Take, handleVars,
              tableVars, callerVars, outVars, IInv
<1>1. PICK m \in Message :
           /\ m = Head(inbox[p]) /\ m.kind = kind /\ Taken(p, m)
           /\ m \in Range(Sent(Other(p))) /\ MessageOK(Other(p), m)
           /\ m.data \in Call /\ m.id \in Id /\ m.item \in Nat
           /\ \A n \in Range(Sent(p))' : n.data # m.data
           /\ \A n \in Range(Sent(Other(p)))' : n.data # m.data
           /\ \A q \in Peer : m.data \notin Range(interaction[q])
  BY <1>0, <1>u, TakeFacts
<1>c. PICK c \in Call : c = m.data
  BY <1>1
<1>2. /\ handler' \in {[handler EXCEPT ![c] = "running"], [handler EXCEPT ![c] = "called"]}
      /\ outgoing_responses' = IF Kind[c] = "request"
                               THEN [outgoing_responses EXCEPT ![c] = "pending"]
                               ELSE outgoing_responses
      /\ outgoing_stream' \in {outgoing_stream, [outgoing_stream EXCEPT ![c] = <<>>]}
      /\ \/ UNCHANGED loop /\ handler' = [handler EXCEPT ![c] = "running"]
         \/ /\ loop' = [loop EXCEPT ![p] = "handle"]
            /\ handler' = [handler EXCEPT ![c] = "called"]
  <2>1. CASE ServeRequest(p)
    <3>1. Kind[c] = "request"
      BY <1>1, <1>c, <2>1 DEF ServeRequest, Take, MessageOK
    <3>2. QED
      BY <1>1, <1>c, <2>1, <3>1 DEF ServeRequest, recv_request
  <2>2. CASE ServeStream(p)
    <3>1. Kind[c] = "stream"
      BY <1>1, <1>c, <2>2 DEF ServeStream, Take, MessageOK
    <3>2. QED
      BY <1>1, <1>c, <2>2, <3>1 DEF ServeStream, recv_stream
  <2>3. CASE ServeOneshot(p)
    <3>1. Kind[c] = "oneshot"
      BY <1>1, <1>c, <2>3 DEF ServeOneshot, Take, MessageOK
    <3>2. QED
      BY <1>1, <1>c, <2>3, <3>1 DEF ServeOneshot, outVars
  <2>4. CASE HandleInline(p)
    BY <1>1, <1>c, <2>4 DEF HandleInline, recv_request
  <2>5. QED
    BY <2>1, <2>2, <2>3, <2>4
<1>3. /\ Owner[c] = Other(p) /\ Server(c) = p /\ handler[c] = "none" /\ Pending(c)
  BY <1>1, <1>c, PeerFact DEF MessageOK, Server
<1>4. /\ emitted[c] = 0 /\ outgoing_stream[c] = <<>> /\ outgoing_responses[c] = "none"
      /\ caller[c] # "ended"
  BY <1>3 DEF IInv, CallsOK, OutgoingOK, Pending
<1>5. /\ handler'[c] \in {"running", "called"} /\ outgoing_stream'[c] = <<>>
      /\ outgoing_responses'[c] = IF Kind[c] = "request" THEN "pending" ELSE "none"
      /\ \A e \in Call : e # c => Kept(e)
      /\ outgoing_stream' = outgoing_stream
      /\ \A q \in Peer : q # p => loop'[q] = loop[q]
      /\ \/ handler'[c] = "running" /\ loop'[p] = "select"
         \/ handler'[c] = "called" /\ loop'[p] = "handle"
  <2>1. /\ handler \in [Call -> {"none", "called", "running", "finished",
                                 "failed", "panicked", "closed"}]
        /\ outgoing_responses \in [Call -> {"none", "pending", "ready", "cancelled"}]
        /\ outgoing_stream \in [Call -> Seq(Nat)]
        /\ loop \in [Peer -> {"select", "send", "handle", "ended", "failed", "panicked"}]
    BY <1>u DEF TypeOK, ServiceTypeOK
  <2>2. outgoing_stream' = outgoing_stream
    BY <1>2, <1>4, <2>1
  <2>3. /\ handler'[c] \in {"running", "called"}
        /\ outgoing_responses'[c] = IF Kind[c] = "request" THEN "pending" ELSE "none"
        /\ \A e \in Call : e # c => /\ handler'[e] = handler[e]
                                   /\ outgoing_responses'[e] = outgoing_responses[e]
    BY <1>2, <1>4, <2>1
  <2>4. /\ \A q \in Peer : q # p => loop'[q] = loop[q]
        /\ \/ handler'[c] = "running" /\ loop'[p] = "select"
           \/ handler'[c] = "called" /\ loop'[p] = "handle"
    BY <1>u, <1>2, <2>1
  <2>5. QED
    BY <1>u, <1>4, <2>2, <2>3, <2>4 DEF Kept
<1>6. SentOK /\ SentOK' /\ SomeSent /\ FewerAlive
  <2>1. FewerAlive
    BY <1>u, <1>5 DEF FewerAlive, Alive
  <2>2. QED
    BY <1>u, <1>1, <2>1, Types, SentTypedNext, TakenIsSome
<1>7. \A e \in Call : Pending(e)' = Pending(e) /\ ItemsSent(e)' = ItemsSent(e)
  BY <1>u, <1>5 DEF Pending, ItemsSent
<1>8. HandlerOK(c)'
  BY <1>u, <1>3, <1>4, <1>5, <1>7 DEF HandlerOK, Pending
<1>9. OutgoingOK(c)'
  <2>1. Len(outgoing_stream'[c]) = 0
    BY <1>5, EmptySeq
  <2>2. QED
    BY <1>u, <1>3, <1>4, <1>5, <1>7, <2>1 DEF OutgoingOK
<1>10. CalledOK'
  <2>1. \A e \in Call : handler[e] = "called" =>
          /\ loop[Server(e)] = "handle" /\ Server(e) # p
          /\ \A f \in Call : handler[f] = "called" /\ Server(f) = Server(e) => f = e
    BY <1>u DEF IInv, CalledOK
  <2>2. \A e \in Call : e # c => handler'[e] = handler[e]
    BY <1>5 DEF Kept
  <2>3. \A e \in Call : handler'[e] = "called" => loop'[Server(e)] = "handle"
    BY <1>3, <1>5, <2>1, <2>2, ServerFact
  <2>4. \A e, f \in Call : handler'[e] = "called" /\ handler'[f] = "called"
                           /\ Server(f) = Server(e) => f = e
    BY <1>3, <2>1, <2>2
  <2>5. QED
    BY <2>3, <2>4, ServerFact DEF CalledOK
<1>11. ItemsOK'
  <2>1. \A e \in Call : Len(received[e]) \in Nat /\ ItemsSent(e) \in Int
    BY <1>u, Types
  <2>2. m.kind # "StreamMessage"
    BY <1>1
  <2>3. QED
    BY <1>1, <1>u, <1>6, <1>7, <2>1, <2>2, FrameItemsTaken DEF IInv
<1>12. \A q \in Peer, n \in Message : n \in Range(Sent(q))' => n.data # c
  BY <1>1, <1>c, PeerFact
<1>13. \A q \in Peer : c \notin Range(interaction[q])
  BY <1>1, <1>c, <1>5
<1>14. QED
  BY <1>u, <1>3, <1>5, <1>6, <1>8, <1>9, <1>10, <1>11, <1>12, <1>13, HandlerFrame

-----------------------------------------------------------------------------
(* Handlers.                                                               *)

\* Of a call whose handler runs only items are in flight.
LEMMA RunningMessages ==
  ASSUME NEW c \in Call, handler[c] \in {"called", "running"},
         NEW q \in Peer, NEW n \in Message, n.data = c, MessageOK(q, n)
  PROVE  /\ n.kind = "StreamMessage" /\ handler[c] = "running"
         /\ n.id = call_id[c] /\ Pending(c) /\ Owner[c] # q /\ Kind[c] = "stream"
         /\ n.item \in 1 .. ItemsSent(c)
<1>1. n.kind \in {"Oneshot", "Request", "Response", "OpenStream", "StreamMessage",
                  "CloseStream"}
  BY DEF Message
<1>2. QED
  BY <1>1 DEF MessageOK

\* They stay in flight when the handler goes on.
LEMMA RunningMessagesKept ==
  ASSUME NEW c \in Call, handler[c] \in {"called", "running"},
         handler'[c] \notin {"none", "called"}, ItemsSent(c)' = ItemsSent(c),
         UNCHANGED <<caller, call_id, answer>>,
         NEW q \in Peer, NEW n \in Message, n.data = c, MessageOK(q, n)
  PROVE  MessageOK(q, n)'
<1>1. /\ n.kind = "StreamMessage" /\ handler[c] = "running"
      /\ n.id = call_id[c] /\ Pending(c) /\ Owner[c] # q /\ Kind[c] = "stream"
      /\ n.item \in 1 .. ItemsSent(c)
  BY RunningMessages
<1>2. Pending(c)'
  BY <1>1 DEF Pending
<1>3. QED
  BY <1>1, <1>2 DEF MessageOK

\* A handler that runs in a task returns.
LEMMA FinishStep ==
  ASSUME IInv, TypeOK', NEW c \in Call, FinishHandler(c) \/ FailHandler(c)
  PROVE  IInv'
<1>1. /\ UNCHANGED <<inbox, loop, sending, interaction, incoming_responses,
                     incoming_streams, outgoing_stream, caller, call_id, answer,
                     received, emitted>>
      /\ TypeOK /\ handler[c] = "running"
      /\ \/ handler' = [handler EXCEPT ![c] = "finished"] /\ Resolve(c, "ready")
         \/ handler' = [handler EXCEPT ![c] = "failed"] /\ Resolve(c, "cancelled")
  BY DEF FinishHandler, FailHandler, loopVars, handleVars, tableVars, callerVars, IInv
<1>2. /\ \/ handler'[c] = "finished" /\ outgoing_responses'[c] \in {outgoing_responses[c], "ready"}
         \/ handler'[c] = "failed" /\ outgoing_responses'[c] \in {outgoing_responses[c], "cancelled"}
      /\ outgoing_responses'[c] # outgoing_responses[c] => Kind[c] = "request"
      /\ \A e \in Call : e # c => Kept(e)
  <2>1. /\ handler \in [Call -> {"none", "called", "running", "finished",
                                 "failed", "panicked", "closed"}]
        /\ outgoing_responses \in [Call -> {"none", "pending", "ready", "cancelled"}]
    BY <1>1 DEF TypeOK, ServiceTypeOK
  <2>2. QED
    BY <1>1, <2>1 DEF Resolve, Kept
<1>3. SentOK /\ SentOK' /\ SameSent /\ SomeSent /\ FewerAlive
  <2>1. SameSent /\ SentOK
    BY <1>1, SentSame, Types DEF SameSent
  <2>2. QED
    BY <1>1, <2>1, SentTypedNext, SameIsSome DEF FewerAlive, Alive
<1>4. \A e \in Call : Pending(e)' = Pending(e) /\ ItemsSent(e)' = ItemsSent(e)
  BY <1>1 DEF Pending, ItemsSent
<1>5. HandlerOK(c) /\ OutgoingOK(c) /\ Pending(c)
  BY <1>1 DEF IInv, CallsOK, HandlerOK
<1>6. HandlerOK(c)' /\ OutgoingOK(c)'
  BY <1>1, <1>2, <1>4, <1>5 DEF HandlerOK, OutgoingOK
<1>7. CalledOK'
  <2>1. \A e \in Call : handler'[e] = "called" => handler[e] = "called"
    BY <1>2 DEF Kept
  <2>2. QED
    BY <1>1, <2>1, FrameCalled DEF IInv
<1>8. ItemsOK'
  BY <1>1, <1>3, <1>4, FrameItems DEF IInv
<1>9. \A q \in Peer, n \in Message : n.data = c /\ MessageOK(q, n) => MessageOK(q, n)'
  BY <1>1, <1>2, <1>4, RunningMessagesKept
<1>10. \A q \in Peer : c \notin Range(interaction[q])
  BY <1>1, RunningFact
<1>11. QED
  BY <1>1, <1>2, <1>3, <1>6, <1>7, <1>8, <1>9, <1>10, HandlerFrame

\* A handler puts an item into its stream's channel, or fails to.
LEMMA EmitStep ==
  ASSUME IInv, TypeOK', NEW c \in Call, EmitItem(c)
  PROVE  IInv'
<1>1. /\ UNCHANGED <<inbox, loop, sending, interaction, incoming_responses,
                     incoming_streams, outgoing_responses, caller, call_id, answer,
                     received>>
      /\ TypeOK /\ handler[c] = "running" /\ Kind[c] = "stream"
      /\ \/ /\ emitted' = [emitted EXCEPT ![c] = @ + 1] /\ UNCHANGED handler
            /\ outgoing_stream' = [outgoing_stream EXCEPT ![c] = Append(@, emitted[c] + 1)]
         \/ /\ handler' = [handler EXCEPT ![c] = "failed"]
            /\ UNCHANGED <<emitted, outgoing_stream>>
  BY DEF EmitItem, loopVars, handleVars, tableVars, callerVars, IInv
<1>2. /\ \/ /\ emitted'[c] = emitted[c] + 1 /\ handler'[c] = "running"
            /\ outgoing_stream'[c] = Append(outgoing_stream[c], emitted[c] + 1)
         \/ /\ handler'[c] = "failed" /\ emitted'[c] = emitted[c]
            /\ outgoing_stream'[c] = outgoing_stream[c]
      /\ \A e \in Call : e # c => Kept(e)
  <2>1. /\ handler \in [Call -> {"none", "called", "running", "finished",
                                 "failed", "panicked", "closed"}]
        /\ outgoing_stream \in [Call -> Seq(Nat)]
        /\ emitted \in [Call -> Nat]
    BY <1>1 DEF TypeOK, ServiceTypeOK
  <2>2. QED
    BY <1>1, <2>1 DEF Kept
<1>3. SentOK /\ SentOK' /\ SameSent /\ SomeSent /\ FewerAlive
  <2>1. SameSent /\ SentOK
    BY <1>1, SentSame, Types DEF SameSent
  <2>2. QED
    BY <1>1, <2>1, SentTypedNext, SameIsSome DEF FewerAlive, Alive
<1>t. emitted[c] \in Nat /\ outgoing_stream[c] \in Seq(Nat) /\ Len(outgoing_stream[c]) \in Nat
  BY <1>1, Types
<1>a. /\ Len(Append(outgoing_stream[c], emitted[c] + 1)) = Len(outgoing_stream[c]) + 1
      /\ \A k \in 1 .. Len(outgoing_stream[c]) + 1 :
           Append(outgoing_stream[c], emitted[c] + 1)[k] =
             IF k <= Len(outgoing_stream[c]) THEN outgoing_stream[c][k] ELSE emitted[c] + 1
  BY <1>t
<1>4. \A e \in Call : Pending(e)' = Pending(e) /\ ItemsSent(e)' = ItemsSent(e)
  <2>1. \A e \in Call : Pending(e)' = Pending(e)
    BY <1>1 DEF Pending
  <2>2. \A e \in Call : e # c => ItemsSent(e)' = ItemsSent(e)
    BY <1>2, KeptCall
  <2>3. ItemsSent(c)' = ItemsSent(c)
    <3>1. CASE handler'[c] = "failed"
      BY <1>2, <3>1 DEF ItemsSent
    <3>2. CASE handler'[c] # "failed"
      <4>1. /\ Len(outgoing_stream'[c]) = Len(outgoing_stream[c]) + 1
            /\ emitted'[c] = emitted[c] + 1
        BY <1>2, <1>a, <3>2
      <4>2. (emitted[c] + 1) - (Len(outgoing_stream[c]) + 1)
              = emitted[c] - Len(outgoing_stream[c])
        BY <1>t, SMTT(30)
      <4>3. QED
        BY <4>1, <4>2 DEF ItemsSent
    <3>3. QED
      BY <3>1, <3>2
  <2>4. QED
    BY <2>1, <2>2, <2>3
<1>5. HandlerOK(c) /\ OutgoingOK(c) /\ Pending(c)
  BY <1>1 DEF IInv, CallsOK, HandlerOK
<1>6. HandlerOK(c)'
  BY <1>1, <1>2, <1>4, <1>5 DEF HandlerOK
<1>7. OutgoingOK(c)'
  <2>1. CASE handler'[c] = "failed"
    BY <1>1, <1>2, <1>4, <1>5, <2>1 DEF OutgoingOK
  <2>2. CASE handler'[c] # "failed"
    <3>1. /\ Len(outgoing_stream'[c]) = Len(outgoing_stream[c]) + 1
          /\ emitted'[c] = emitted[c] + 1
          /\ \A k \in 1 .. Len(outgoing_stream[c]) + 1 : outgoing_stream'[c][k] =
             IF k <= Len(outgoing_stream[c]) THEN outgoing_stream[c][k] ELSE emitted[c] + 1
      BY <1>2, <1>a, <2>2
    <3>2. ItemsSent(c)' = ItemsSent(c) /\ ItemsSent(c) = emitted[c] - Len(outgoing_stream[c])
      BY <1>4 DEF ItemsSent
    <3>3. \A k \in 1 .. Len(outgoing_stream'[c]) : outgoing_stream'[c][k] = ItemsSent(c)' + k
      <4>1. \A k \in 1 .. Len(outgoing_stream[c]) :
              outgoing_stream[c][k] = ItemsSent(c) + k
        BY <1>5 DEF OutgoingOK
      <4>2. emitted[c] + 1 = ItemsSent(c) + (Len(outgoing_stream[c]) + 1)
        BY <1>t, <3>2
      <4>3. ASSUME NEW k \in 1 .. Len(outgoing_stream[c]) + 1
            PROVE  outgoing_stream'[c][k] = ItemsSent(c) + k
        <5>1. CASE k <= Len(outgoing_stream[c])
          BY <1>t, <3>1, <4>1, <5>1
        <5>2. CASE k = Len(outgoing_stream[c]) + 1
          <6>1. outgoing_stream'[c][k] = emitted[c] + 1
            BY <1>t, <3>1, <5>2
          <6>2. QED
            BY <4>2, <5>2, <6>1
        <5>3. QED
          BY <1>t, <5>1, <5>2
      <4>4. QED
        BY <3>1, <3>2, <4>3
    <3>4. Len(outgoing_stream'[c]) <= emitted'[c]
      BY <1>5, <1>t, <3>1 DEF OutgoingOK
    <3>5. QED
      BY <1>1, <1>2, <1>4, <1>5, <2>2, <3>3, <3>4 DEF OutgoingOK
  <2>3. QED
    BY <2>1, <2>2
<1>8. CalledOK'
  <2>1. \A e \in Call : handler'[e] = "called" => handler[e] = "called"
    BY <1>2 DEF Kept
  <2>2. QED
    BY <1>1, <2>1, FrameCalled DEF IInv
<1>9. ItemsOK'
  BY <1>1, <1>3, <1>4, FrameItems DEF IInv
<1>10. \A q \in Peer, n \in Message : n.data = c /\ MessageOK(q, n) => MessageOK(q, n)'
  BY <1>1, <1>2, <1>4, RunningMessagesKept
<1>11. \A q \in Peer : c \notin Range(interaction[q])
  BY <1>1, RunningFact
<1>12. QED
  BY <1>1, <1>2, <1>3, <1>6, <1>7, <1>8, <1>9, <1>10, <1>11, HandlerFrame

\* The handler that the loop awaits returns.
LEMMA ReturnStep ==
  ASSUME IInv, TypeOK', NEW c \in Call, ReturnInline(c)
  PROVE  IInv'
<1>1. /\ UNCHANGED <<inbox, sending, interaction, incoming_responses,
                     incoming_streams, caller, call_id, answer, received, emitted>>
      /\ TypeOK /\ handler[c] = "called" /\ loop[Server(c)] = "handle"
      /\ loop' = [loop EXCEPT ![Server(c)] = "select"]
      /\ Resolve(c, "ready")
      /\ \/ /\ Kind[c] = "stream"
            /\ outgoing_stream' = [outgoing_stream EXCEPT ![c] = <<>>]
            /\ \E state \in {"running", "failed"} : handler' = [handler EXCEPT ![c] = state]
         \/ /\ Kind[c] # "stream"
            /\ handler' = [handler EXCEPT ![c] = "finished"]
            /\ UNCHANGED outgoing_stream
  BY DEF ReturnInline, recv_stream, handleVars, tableVars, callerVars, IInv
<1>5. HandlerOK(c) /\ OutgoingOK(c) /\ Pending(c)
  BY <1>1 DEF IInv, CallsOK, HandlerOK
<1>o. outgoing_stream[c] = <<>> /\ emitted[c] = 0
  BY <1>1, <1>5 DEF OutgoingOK
<1>2. /\ \/ Kind[c] = "stream" /\ handler'[c] \in {"running", "failed"}
         \/ Kind[c] # "stream" /\ handler'[c] = "finished"
      /\ outgoing_responses'[c] \in {outgoing_responses[c], "ready"}
      /\ outgoing_responses'[c] # outgoing_responses[c] => Kind[c] = "request"
      /\ outgoing_stream'[c] = <<>>
      /\ \A e \in Call : e # c => Kept(e)
      /\ loop'[Server(c)] = "select" /\ \A q \in Peer : q # Server(c) => loop'[q] = loop[q]
  <2>1. /\ handler \in [Call -> {"none", "called", "running", "finished",
                                 "failed", "panicked", "closed"}]
        /\ outgoing_responses \in [Call -> {"none", "pending", "ready", "cancelled"}]
        /\ outgoing_stream \in [Call -> Seq(Nat)]
        /\ loop \in [Peer -> {"select", "send", "handle", "ended", "failed", "panicked"}]
        /\ Server(c) \in Peer
    BY <1>1, ServerFact DEF TypeOK, ServiceTypeOK
  <2>2. /\ outgoing_responses'[c] \in {outgoing_responses[c], "ready"}
        /\ outgoing_responses'[c] # outgoing_responses[c] => Kind[c] = "request"
        /\ \A e \in Call : e # c => outgoing_responses'[e] = outgoing_responses[e]
    BY <1>1, <2>1 DEF Resolve
  <2>3. /\ outgoing_stream'[c] = <<>>
        /\ \A e \in Call : e # c => outgoing_stream'[e] = outgoing_stream[e]
    BY <1>1, <1>o, <2>1
  <2>4. /\ \/ Kind[c] = "stream" /\ handler'[c] \in {"running", "failed"}
           \/ Kind[c] # "stream" /\ handler'[c] = "finished"
        /\ \A e \in Call : e # c => handler'[e] = handler[e]
    BY <1>1, <2>1
  <2>5. /\ loop'[Server(c)] = "select"
        /\ \A q \in Peer : q # Server(c) => loop'[q] = loop[q]
    BY <1>1, <2>1
  <2>6. QED
    BY <1>1, <2>2, <2>3, <2>4, <2>5 DEF Kept
<1>3. SentOK /\ SentOK' /\ SameSent /\ SomeSent /\ FewerAlive
  <2>1. SameSent /\ SentOK
    BY <1>1, SentSame, Types DEF SameSent
  <2>2. FewerAlive
    BY <1>1, <1>2 DEF FewerAlive, Alive
  <2>3. QED
    BY <1>1, <2>1, <2>2, SentTypedNext, SameIsSome
<1>4. \A e \in Call : Pending(e)' = Pending(e) /\ ItemsSent(e)' = ItemsSent(e)
  <2>1. \A e \in Call : Pending(e)' = Pending(e)
    BY <1>1 DEF Pending
  <2>2. \A e \in Call : e # c => ItemsSent(e)' = ItemsSent(e)
    BY <1>2, KeptCall
  <2>3. ItemsSent(c)' = ItemsSent(c)
    BY <1>1, <1>2, <1>o DEF ItemsSent
  <2>4. QED
    BY <2>1, <2>2, <2>3
<1>6. HandlerOK(c)'
  BY <1>1, <1>2, <1>4, <1>5 DEF HandlerOK
<1>7. OutgoingOK(c)'
  BY <1>1, <1>2, <1>4, <1>5, <1>o DEF OutgoingOK
<1>8. CalledOK'
  <2>1. \A e \in Call : handler'[e] = "called" => handler[e] = "called" /\ e # c
    BY <1>2 DEF Kept
  <2>2. \A e \in Call : handler[e] = "called" /\ Server(e) = Server(c) => e = c
    BY <1>1 DEF IInv, CalledOK
  <2>3. \A e \in Call : handler'[e] = "called" =>
          handler[e] = "called" /\ loop'[Server(e)] = loop[Server(e)]
    BY <1>2, <2>1, <2>2, ServerFact
  <2>4. QED
    BY <2>3, FrameCalled DEF IInv
<1>9. ItemsOK'
  BY <1>1, <1>3, <1>4, FrameItems DEF IInv
<1>10. \A q \in Peer, n \in Message : n.data = c /\ MessageOK(q, n) => MessageOK(q, n)'
  BY <1>1, <1>2, <1>4, RunningMessagesKept
<1>11. \A q \in Peer : c \notin Range(interaction[q])
  BY <1>1, RunningFact
<1>12. QED
  BY <1>1, <1>2, <1>3, <1>6, <1>7, <1>8, <1>9, <1>10, <1>11, HandlerFrame

\* A service is gone, and with it the handler its loop awaits.
LEMMA GoneStep ==
  ASSUME IInv, TypeOK', NEW p \in Peer,
         UNCHANGED <<inbox, interaction, incoming_responses, incoming_streams,
                     outgoing_responses, outgoing_stream, caller, call_id, answer,
                     received, emitted>>,
         sending' = [sending EXCEPT ![p] = <<>>],
         NEW how \in {"ended", "failed", "panicked"}, loop' = [loop EXCEPT ![p] = how],
         NEW state \in {"failed", "panicked"},
         \A e \in Call : handler'[e] = IF Server(e) = p /\ handler[e] = "called"
                                       THEN state ELSE handler[e]
  PROVE  IInv'
<1>1. TypeOK /\ SentOK /\ SentOK'
  BY Types, SentTypedNext DEF IInv
<1>2. Cut(p)
  BY <1>1, SentLost DEF Cut
<1>3. /\ loop'[p] = how /\ \A q \in Peer : q # p => loop'[q] = loop[q]
      /\ FewerAlive /\ ~ Alive(p)' /\ SomeSent
  <2>1. loop'[p] = how /\ \A q \in Peer : q # p => loop'[q] = loop[q]
    BY <1>1 DEF TypeOK, ServiceTypeOK
  <2>2. QED
    BY <1>1, <1>2, <2>1, CutIsSome DEF FewerAlive, Alive
<1>4. \A e \in Call : Kept(e) \/ (handler[e] = "called" /\ handler'[e] = state)
  BY <1>1 DEF Kept
<1>5. \A e \in Call :
        /\ Pending(e)' = Pending(e) /\ ItemsSent(e)' = ItemsSent(e)
        /\ Misled(e)' = Misled(e) /\ Occupied(e)' = Occupied(e)
        /\ Unclosed(e)' => Unclosed(e)
  BY <1>1 DEF Pending, ItemsSent, Misled, Occupied, Unclosed
<1>6. CallsOK'
  <2>1. ASSUME NEW e \in Call, handler[e] = "called", handler'[e] = state
        PROVE  CallerOK(e)' /\ HandlerOK(e)' /\ OutgoingOK(e)'
    <3>1. CallerOK(e) /\ HandlerOK(e) /\ OutgoingOK(e)
      BY DEF IInv, CallsOK
    <3>2. CallerOK(e)'
      BY <1>1, <3>1 DEF CallerOK
    <3>3. HandlerOK(e)'
      BY <1>1, <2>1, <3>1 DEF HandlerOK, Pending
    <3>4. OutgoingOK(e)'
      BY <1>1, <1>5, <2>1, <3>1 DEF OutgoingOK
    <3>5. QED
      BY <3>2, <3>3, <3>4
  <2>2. QED
    BY <1>4, <2>1, FrameCalls DEF IInv
<1>7. CalledOK'
  <2>1. \A e \in Call : handler'[e] = "called" =>
          handler[e] = "called" /\ loop'[Server(e)] = loop[Server(e)]
    BY <1>1, <1>3, ServerFact
  <2>2. QED
    BY <2>1, FrameCalled DEF IInv
<1>8. MessagesOK' /\ MessagesOrdered'
  <2>1. ASSUME NEW q \in Peer, NEW n \in Message, MessageOK(q, n)
        PROVE  MessageOK(q, n)'
    <3>1. n.data \in Call
      BY DEF Message
    <3>2. PICK e \in Call : e = n.data
      BY <3>1
    <3>3. handler[e] # "called"
      BY <2>1, <3>2, RunningMessages
    <3>4. QED
      BY <1>4, <2>1, <3>2, <3>3, KeptMessage
  <2>2. QED
    BY <1>1, <1>3, <2>1, FrameMessages, FrameOrdered DEF IInv
<1>9. QueueOK'
  <2>1. \A e \in Call : Pending(e) /\ handler[e] = "none" => Pending(e)' /\ handler'[e] = "none"
    BY <1>1, <1>5
  <2>2. \A q \in Peer : interaction[q] \in Seq(Call)
    BY <1>1, Types
  <2>3. QED
    BY <1>1, <1>3, <2>1, <2>2, FrameQueue DEF IInv
<1>10. WaitingOK' /\ TablesOK' /\ IdsOK' /\ GoneOK'
  BY <1>1, <1>3, <1>5, FrameWaiting, FrameTables, FrameIds, FrameGone DEF IInv
<1>11. StreamTableOK'
  BY <1>1, <1>3, <1>5, FrameStreamTable DEF IInv
<1>12. ItemsOK'
  BY <1>1, <1>2, <1>3, <1>5, FrameItemsCut DEF IInv
<1>13. AnswersOwnCall' /\ StreamsInOrder'
  BY <1>1, <1>5, <1>10, FrameAnswers, FrameStreams DEF IInv
<1>14. QED
  BY <1>1, <1>6, <1>7, <1>8, <1>9, <1>10, <1>11, <1>12, <1>13 DEF IInv

\* The application drops the service.
LEMMA StopStep ==
  ASSUME IInv, TypeOK', NEW p \in Peer, StopService(p)
  PROVE  IInv'
BY GoneStep DEF StopService, handleVars, tableVars, outVars, callerVars

\* The handler that the loop awaits panics, and the loop with it.
LEMMA FailInlineStep ==
  ASSUME IInv, TypeOK', NEW c \in Call, FailInline(c)
  PROVE  IInv'
<1>1. TypeOK /\ CalledOK /\ Server(c) \in Peer
  BY ServerFact DEF IInv
<1>2. sending' = [sending EXCEPT ![Server(c)] = <<>>]
  <2>1. sending \in [Peer -> Seq(Message)] /\ sending[Server(c)] = <<>>
    BY <1>1 DEF FailInline, TypeOK, ServiceTypeOK
  <2>2. QED
    BY <2>1 DEF FailInline
<1>3. \A e \in Call : handler'[e] = IF Server(e) = Server(c) /\ handler[e] = "called"
                                    THEN "panicked" ELSE handler[e]
  BY <1>1 DEF FailInline, CalledOK, TypeOK
<1>4. QED
  BY <1>1, <1>2, <1>3, GoneStep
     DEF FailInline, handleVars, tableVars, outVars, callerVars

-----------------------------------------------------------------------------
(* A message is sent.                                                      *)

\* A stream whose handler was started and that is not closed waits for more.
LEMMA StreamPending ==
  ASSUME IInv, NEW c \in Call, Kind[c] = "stream", handler[c] \notin {"none", "closed"}
  PROVE  Pending(c)
BY DEF IInv, CallsOK, CallerOK, HandlerOK, Pending

\* The loop takes an item from a channel and sends it.
LEMMA SendItemStep ==
  ASSUME IInv, TypeOK', NEW p \in Peer, NEW c \in Call, Service(SendItem(p, c))
  PROVE  IInv'
<1>1. /\ UNCHANGED <<inbox, interaction, incoming_responses, incoming_streams,
                     outgoing_responses, caller, call_id, answer, received, emitted,
                     handler>>
      /\ TypeOK /\ loop[p] = "select" /\ Owner[c] # p /\ outgoing_stream[c] # <<>>
      /\ Send(p, Msg("StreamMessage", c, Head(outgoing_stream[c])))
      /\ outgoing_stream' = [outgoing_stream EXCEPT ![c] = Tail(@)]
  BY DEF Service, SendItem, handleVars, tableVars, callerVars, IInv
<1>2. HandlerOK(c) /\ OutgoingOK(c)
  BY DEF IInv, CallsOK
<1>3. /\ Kind[c] = "stream" /\ handler[c] \notin {"none", "called", "closed"}
      /\ Server(c) = p
  BY <1>1, <1>2, ServerFact DEF HandlerOK, OutgoingOK
<1>4. Pending(c)
  BY <1>3, StreamPending
<1>5. /\ outgoing_stream'[c] = Tail(outgoing_stream[c])
      /\ \A e \in Call : e # c => Kept(e)
  <2>1. outgoing_stream \in [Call -> Seq(Nat)]
    BY <1>1 DEF TypeOK, ServiceTypeOK
  <2>2. QED
    BY <1>1, <2>1 DEF Kept
<1>6. /\ outgoing_stream[c] \in Seq(Nat) /\ Len(outgoing_stream[c]) \in Nat
      /\ Len(outgoing_stream[c]) >= 1 /\ emitted[c] \in Nat
      /\ Len(Tail(outgoing_stream[c])) = Len(outgoing_stream[c]) - 1
      /\ \A k \in 1 .. Len(outgoing_stream[c]) - 1 :
           Tail(outgoing_stream[c])[k] = outgoing_stream[c][k + 1]
      /\ Head(outgoing_stream[c]) = outgoing_stream[c][1]
      /\ Head(outgoing_stream[c]) \in Nat
  <2>1. outgoing_stream[c] \in Seq(Nat) /\ emitted[c] \in Nat
    BY <1>1, Types
  <2>2. QED
    BY <1>1, <2>1
<1>7. /\ ItemsSent(c) = emitted[c] - Len(outgoing_stream[c])
      /\ ItemsSent(c)' = ItemsSent(c) + 1
      /\ ItemsSent(c) \in Nat
  <2>1. ItemsSent(c) = emitted[c] - Len(outgoing_stream[c])
    BY DEF ItemsSent
  <2>2. ItemsSent(c)' = emitted[c] - (Len(outgoing_stream[c]) - 1)
    BY <1>1, <1>5, <1>6 DEF ItemsSent
  <2>3. Len(outgoing_stream[c]) <= emitted[c]
    BY <1>2 DEF OutgoingOK
  <2>4. QED
    BY <1>6, <2>1, <2>2, <2>3
<1>8. \A k \in 1 .. Len(outgoing_stream[c]) : outgoing_stream[c][k] = ItemsSent(c) + k
  BY <1>2 DEF OutgoingOK
<1>9. PICK m \in Message :
        /\ m = Msg("StreamMessage", c, Head(outgoing_stream[c]))
        /\ m.kind = "StreamMessage" /\ m.data = c /\ m.id = call_id[c]
        /\ m.item = Head(outgoing_stream[c])
  BY <1>1, <1>6, MsgType
<1>10. m.item = ItemsSent(c) + 1
  <2>1. 1 \in 1 .. Len(outgoing_stream[c])
    BY <1>6
  <2>2. QED
    BY <1>6, <1>8, <1>9, <2>1
<1>11. Pending(c)' /\ HandlerOK(c)'
  <2>1. Pending(c)'
    BY <1>1, <1>4 DEF Pending
  <2>2. QED
    BY <1>1, <1>2, <1>3, <2>1 DEF HandlerOK
<1>12. OutgoingOK(c)'
  <2>1. Len(outgoing_stream'[c]) = Len(outgoing_stream[c]) - 1
    BY <1>5, <1>6
  <2>2. \A k \in 1 .. Len(outgoing_stream'[c]) : outgoing_stream'[c][k] = ItemsSent(c)' + k
    <3> SUFFICES ASSUME NEW k \in 1 .. Len(outgoing_stream[c]) - 1
                 PROVE  outgoing_stream'[c][k] = ItemsSent(c)' + k
      BY <2>1
    <3>1. outgoing_stream'[c][k] = outgoing_stream[c][k + 1]
      BY <1>5, <1>6
    <3>2. k + 1 \in 1 .. Len(outgoing_stream[c])
      BY <1>6
    <3>3. outgoing_stream[c][k + 1] = ItemsSent(c) + (k + 1)
      BY <1>8, <3>2
    <3>4. QED
      BY <1>6, <1>7, <3>1, <3>3
  <2>3. Len(outgoing_stream'[c]) <= emitted'[c]
    BY <1>1, <1>2, <1>6, <2>1 DEF OutgoingOK
  <2>4. QED
    BY <1>1, <1>2, <1>3, <1>11, <2>2, <2>3 DEF OutgoingOK
<1>13. MessageOK(p, m)'
  <2>1. m.item \in 1 .. ItemsSent(c)'
    BY <1>7, <1>10
  <2>2. QED
    BY <1>1, <1>3, <1>9, <1>11, <2>1 DEF MessageOK
<1>14. ASSUME NEW q \in Peer, NEW n \in Message, n.data = c, MessageOK(q, n)
       PROVE  MessageOK(q, n)'
  <2>1. 1 .. ItemsSent(c) \subseteq 1 .. ItemsSent(c)'
    BY <1>7
  <2>2. QED
    BY <1>1, <1>11, <1>14, <2>1 DEF MessageOK
<1>15. ASSUME NEW n \in Range(Sent(p)), n.data = c
       PROVE  n.kind = "StreamMessage" /\ n.item < m.item
  <2>1. n \in Message /\ MessageOK(p, n)
    BY <1>1, Types, SeqRange, <1>3, ServerFact DEF SentOK, IInv, MessagesOK
  <2>2. n.kind \in {"Oneshot", "Request", "Response", "OpenStream", "StreamMessage",
                    "CloseStream"}
    BY <2>1 DEF Message
  <2>3. n.kind = "StreamMessage" /\ n.item \in 1 .. ItemsSent(c)
    BY <1>1, <1>3, <1>15, <2>1, <2>2 DEF MessageOK
  <2>4. QED
    BY <1>7, <1>10, <2>3
<1>16. QED
  BY <1>1, <1>3, <1>5, <1>7, <1>9, <1>10, <1>11, <1>12, <1>13, <1>14, <1>15, OutgoingFrame

\* The loop takes the response of a handler, or panics for want of it.
LEMMA SendResponseStep ==
  ASSUME IInv, TypeOK', NEW p \in Peer, NEW c \in Call, Service(SendResponse(p, c))
  PROVE  IInv'
<1>1. /\ UNCHANGED <<inbox, interaction, incoming_responses, incoming_streams,
                     outgoing_stream, caller, call_id, answer, received, emitted, handler>>
      /\ TypeOK /\ loop[p] = "select" /\ Owner[c] # p
      /\ outgoing_responses' = [outgoing_responses EXCEPT ![c] = "none"]
      /\ \/ /\ outgoing_responses[c] = "ready"
            /\ Send(p, Msg("Response", c, 0))
         \/ /\ outgoing_responses[c] = "cancelled"
            /\ loop' = [loop EXCEPT ![p] = "panicked"]
            /\ UNCHANGED sending
  BY DEF Service, SendResponse, handleVars, tableVars, callerVars, IInv
<1>2. HandlerOK(c) /\ OutgoingOK(c)
  BY DEF IInv, CallsOK
<1>3. /\ Kind[c] = "request" /\ Pending(c) /\ Server(c) = p
      /\ outgoing_responses[c] = "ready" => handler[c] = "finished"
      /\ outgoing_responses[c] = "cancelled" => handler[c] = "failed"
  BY <1>1, <1>2, ServerFact DEF OutgoingOK
<1>4. /\ outgoing_responses'[c] = "none"
      /\ \A e \in Call : e # c => Kept(e)
  <2>1. outgoing_responses \in [Call -> {"none", "pending", "ready", "cancelled"}]
    BY <1>1 DEF TypeOK, ServiceTypeOK
  <2>2. QED
    BY <1>1, <2>1 DEF Kept
<1>5. \A e \in Call : Pending(e)' = Pending(e) /\ ItemsSent(e)' = ItemsSent(e)
  BY <1>1 DEF Pending, ItemsSent
<1>6. HandlerOK(c)' /\ OutgoingOK(c)'
  BY <1>1, <1>2, <1>4, <1>5 DEF HandlerOK, OutgoingOK
<1>7. \A q \in Peer, n \in Message : n.data = c /\ MessageOK(q, n) => MessageOK(q, n)'
  BY <1>1, <1>4, <1>5 DEF MessageOK
<1>8. CASE outgoing_responses[c] = "ready"
  <2>1. PICK m \in Message :
          /\ m = Msg("Response", c, 0)
          /\ m.kind = "Response" /\ m.data = c /\ m.id = call_id[c]
    BY <1>1, MsgType
  <2>2. Send(p, m)
    BY <1>1, <1>8, <2>1
  <2>3. MessageOK(p, m)'
    BY <1>1, <1>3, <1>4, <1>5, <1>8, <2>1 DEF MessageOK
  <2>4. ASSUME NEW n \in Range(Sent(p)), n.data = c
        PROVE  FALSE
    <3>1. n \in Message /\ MessageOK(p, n)
      BY <1>1, Types, SeqRange, <1>3, ServerFact DEF SentOK, IInv, MessagesOK
    <3>2. n.kind \in {"Oneshot", "Request", "Response", "OpenStream", "StreamMessage",
                      "CloseStream"}
      BY <3>1 DEF Message
    <3>3. QED
      BY <1>1, <1>3, <1>8, <2>4, <3>1, <3>2 DEF MessageOK
  <2>5. handler[c] # "none" /\ handler'[c] = handler[c] /\ ItemsSent(c)' = ItemsSent(c)
    BY <1>1, <1>3, <1>5, <1>8
  <2>6. QED
    BY <1>1, <1>3, <1>4, <1>6, <1>7, <2>1, <2>2, <2>3, <2>4, <2>5, OutgoingFrame
<1>9. CASE outgoing_responses[c] = "cancelled"
  <2>1. /\ loop'[p] = "panicked" /\ \A q \in Peer : q # p => loop'[q] = loop[q]
        /\ UNCHANGED sending
    BY <1>1, <1>9 DEF TypeOK, ServiceTypeOK
  <2>2. SentOK /\ SentOK' /\ SameSent /\ SomeSent /\ FewerAlive
    <3>1. SameSent /\ SentOK
      BY <1>1, <2>1, SentSame, Types DEF SameSent
    <3>2. QED
      BY <1>1, <2>1, <3>1, SentTypedNext, SameIsSome DEF FewerAlive, Alive
  <2>3. CalledOK'
    <3>1. \A e \in Call : handler[e] = "called" => loop'[Server(e)] = loop[Server(e)]
      BY <1>1, <2>1, ServerFact DEF IInv, CalledOK
    <3>2. QED
      BY <1>1, <3>1, FrameCalled DEF IInv
  <2>4. ItemsOK'
    BY <1>1, <1>5, <2>2, FrameItems DEF IInv
  <2>5. \A q \in Peer : c \notin Range(interaction[q])
    BY <1>3, <1>9, RunningFact
  <2>6. QED
    BY <1>1, <1>4, <1>6, <1>7, <2>2, <2>3, <2>4, <2>5, HandlerFrame
<1>10. QED
  BY <1>1, <1>8, <1>9

\* The peer closes a stream of which everything was sent.
LEMMA CloseSendStep ==
  ASSUME IInv, TypeOK', NEW p \in Peer, NEW c \in Call, CloseStream(p, c)
  PROVE  IInv'
<1>1. /\ UNCHANGED <<inbox, interaction, incoming_responses, incoming_streams,
                     outgoing_responses, outgoing_stream, caller, call_id, answer,
                     received, emitted>>
      /\ TypeOK /\ loop[p] = "select" /\ Owner[c] # p /\ Kind[c] = "stream"
      /\ handler[c] = "finished" /\ outgoing_stream[c] = <<>>
      /\ Send(p, Msg("CloseStream", c, 0))
      /\ handler' = [handler EXCEPT ![c] = "closed"]
  BY DEF CloseStream, handleVars, tableVars, outVars, callerVars, IInv
<1>2. HandlerOK(c) /\ OutgoingOK(c) /\ Server(c) = p /\ Pending(c)
  BY <1>1, ServerFact, StreamPending DEF IInv, CallsOK
<1>3. handler'[c] = "closed" /\ \A e \in Call : e # c => Kept(e)
  <2>1. handler \in [Call -> {"none", "called", "running", "finished",
                              "failed", "panicked", "closed"}]
    BY <1>1 DEF TypeOK, ServiceTypeOK
  <2>2. QED
    BY <1>1, <2>1 DEF Kept
<1>4. \A e \in Call : Pending(e)' = Pending(e) /\ ItemsSent(e)' = ItemsSent(e)
  BY <1>1 DEF Pending, ItemsSent
<1>5. HandlerOK(c)' /\ OutgoingOK(c)'
  BY <1>1, <1>2, <1>3, <1>4 DEF HandlerOK, OutgoingOK
<1>6. PICK m \in Message :
        /\ m = Msg("CloseStream", c, 0)
        /\ m.kind = "CloseStream" /\ m.data = c /\ m.id = call_id[c]
  BY <1>1, MsgType
<1>7. MessageOK(p, m)'
  BY <1>1, <1>2, <1>3, <1>4, <1>6 DEF MessageOK
<1>8. ASSUME NEW q \in Peer, NEW n \in Message, n.data = c, MessageOK(q, n)
      PROVE  MessageOK(q, n)' /\ n.kind = "StreamMessage"
  <2>1. n.kind \in {"Oneshot", "Request", "Response", "OpenStream", "StreamMessage",
                    "CloseStream"}
    BY DEF Message
  <2>2. n.kind = "StreamMessage"
    BY <1>1, <1>8, <2>1 DEF MessageOK
  <2>3. QED
    BY <1>1, <1>3, <1>4, <1>8, <2>2 DEF MessageOK
<1>9. \A n \in Range(Sent(p)) : n.data = c => n.kind = "StreamMessage"
  <2>1. \A n \in Range(Sent(p)) : n \in Message /\ MessageOK(p, n)
    BY <1>1, Types, SeqRange DEF SentOK, IInv, MessagesOK
  <2>2. QED
    BY <1>8, <2>1
<1>10. Alive(Owner[c]) => Entered(c)
  <2>1. SUFFICES ASSUME Alive(Owner[c])
                 PROVE  Entered(c)
    OBVIOUS
  <2>2. caller[c] \in {"open", "dropped"}
    BY <1>1, <1>2, <2>1 DEF IInv, CallsOK, CallerOK, HandlerOK, GoneOK, Pending
  <2>3. Unclosed(c)
    BY <1>1, <2>2 DEF Unclosed
  <2>4. InQueue(c) \/ Entered(c)
    BY <1>1, <2>1, <2>3 DEF IInv, StreamTableOK
  <2>5. ~ InQueue(c)
    <3>1. c \notin Range(interaction[Owner[c]])
      BY <1>1, RunningFact, ServerFact
    <3>2. QED
      BY <3>1 DEF InQueue, Range
  <2>6. QED
    BY <2>4, <2>5
<1>11. QED
  BY <1>1, <1>2, <1>3, <1>4, <1>5, <1>6, <1>7, <1>8, <1>9, <1>10, OutgoingFrame

\* What is left of the handle's channel when the first call is taken.
LEMMA TailFacts ==
  ASSUME NEW S, NEW q \in Seq(S), q # <<>>
  PROVE  /\ Head(q) \in S /\ Head(q) = q[1] /\ Head(q) \in Range(q)
         /\ Tail(q) \in Seq(S)
         /\ Range(Tail(q)) \subseteq Range(q)
         /\ IsInjective(q) => IsInjective(Tail(q)) /\ Head(q) \notin Range(Tail(q))
         /\ \A d \in Range(q) : d = Head(q) \/ d \in Range(Tail(q))
         /\ Tail(q) = <<>> => q[Len(q)] = Head(q)
         /\ Tail(q) # <<>> => Tail(q)[Len(Tail(q))] = q[Len(q)]
<1>1. /\ Len(q) \in Nat /\ Len(q) >= 1 /\ Head(q) = q[1] /\ Head(q) \in S
      /\ Tail(q) \in Seq(S) /\ Len(Tail(q)) = Len(q) - 1
      /\ \A k \in 1 .. Len(q) - 1 : Tail(q)[k] = q[k + 1]
  OBVIOUS
<1>2. /\ \A x : x \in Range(q) <=> \E j \in 1 .. Len(q) : q[j] = x
      /\ \A x : x \in Range(Tail(q)) <=> \E j \in 1 .. Len(q) - 1 : Tail(q)[j] = x
  <2>1. \A x : x \in Range(q) <=> \E j \in 1 .. Len(q) : q[j] = x
    BY SeqRange
  <2>2. \A x : x \in Range(Tail(q)) <=> \E j \in 1 .. Len(Tail(q)) : Tail(q)[j] = x
    BY <1>1, SeqRange
  <2>3. QED
    BY <1>1, <2>1, <2>2
<1>3. Head(q) \in Range(q) /\ Range(Tail(q)) \subseteq Range(q)
  <2>1. 1 \in 1 .. Len(q)
    BY <1>1
  <2>2. ASSUME NEW x \in Range(Tail(q))
        PROVE  x \in Range(q)
    <3>1. PICK j \in 1 .. Len(q) - 1 : Tail(q)[j] = x
      BY <1>2
    <3>2. j + 1 \in 1 .. Len(q) /\ q[j + 1] = x
      BY <1>1, <3>1
    <3>3. QED
      BY <1>2, <3>2
  <2>3. QED
    BY <1>1, <1>2, <2>1, <2>2
<1>4. ASSUME IsInjective(q)
      PROVE  IsInjective(Tail(q)) /\ Head(q) \notin Range(Tail(q))
  <2>1. \A j, k \in 1 .. Len(q) : q[j] = q[k] => j = k
    BY <1>4 DEF IsInjective
  <2>2. ASSUME NEW j \in 1 .. Len(q) - 1, NEW k \in 1 .. Len(q) - 1, Tail(q)[j] = Tail(q)[k]
        PROVE  j = k
    <3>1. j + 1 \in 1 .. Len(q) /\ k + 1 \in 1 .. Len(q) /\ q[j + 1] = q[k + 1]
      BY <1>1, <2>2
    <3>2. j + 1 = k + 1
      BY <2>1, <3>1
    <3>3. QED
      BY <3>2
  <2>3. DOMAIN Tail(q) = 1 .. Len(q) - 1
    BY <1>1
  <2>4. IsInjective(Tail(q))
    BY <2>2, <2>3 DEF IsInjective
  <2>5. ASSUME NEW j \in 1 .. Len(q) - 1, Tail(q)[j] = Head(q)
        PROVE  FALSE
    <3>1. j + 1 \in 1 .. Len(q) /\ 1 \in 1 .. Len(q) /\ q[j + 1] = q[1]
      BY <1>1, <2>5
    <3>2. j + 1 = 1
      BY <2>1, <3>1
    <3>3. QED
      BY <3>2
  <2>6. QED
    BY <1>2, <2>4, <2>5
<1>5. ASSUME NEW d \in Range(q), d # Head(q)
      PROVE  d \in Range(Tail(q))
  <2>1. PICK j \in 1 .. Len(q) : q[j] = d
    BY <1>2
  <2>2. j - 1 \in 1 .. Len(q) - 1 /\ Tail(q)[j - 1] = d
    BY <1>1, <1>5, <2>1
  <2>3. QED
    BY <1>2, <2>2
<1>6. /\ Tail(q) = <<>> => q[Len(q)] = Head(q)
      /\ Tail(q) # <<>> => Tail(q)[Len(Tail(q))] = q[Len(q)]
  BY <1>1
<1>7. QED
  BY <1>1, <1>3, <1>4, <1>5, <1>6

\* A stream that is not over and whose service lives holds its id.
LEMMA StreamOccupied ==
  ASSUME IInv, NEW c \in Call, Kind[c] = "stream", Pending(c), Alive(Owner[c])
  PROVE  Occupied(c)
BY DEF IInv, CallsOK, CallerOK, GoneOK, Pending, Occupied

\* The loop takes a call from the handle and sends it.
LEMMA InteractionStep ==
  ASSUME IInv, TypeOK', NEW p \in Peer, Service(SendInteraction(p))
  PROVE  IInv'
<1>0. /\ UNCHANGED <<inbox, outgoing_responses, outgoing_stream, caller, call_id,
                     answer, received, emitted, handler>>
      /\ TypeOK /\ SentOK /\ SentOK' /\ loop[p] = "select"
      /\ interaction[p] \in Seq(Call) /\ interaction[p] # <<>>
      /\ interaction' = [interaction EXCEPT ![p] = Tail(@)]
  <2>1. TypeOK
    BY DEF IInv
  <2>2. QED
    BY <2>1, Types, SentTypedNext DEF Service, SendInteraction, outVars, callerVars
<1>1. PICK c \in Call : c = Head(interaction[p])
  BY <1>0, TailFacts
<1>2. /\ interaction'[p] = Tail(interaction[p])
      /\ \A q \in Peer : q # p => interaction'[q] = interaction[q]
      /\ Tail(interaction[p]) \in Seq(Call)
      /\ Range(Tail(interaction[p])) \subseteq Range(interaction[p])
      /\ IsInjective(Tail(interaction[p])) /\ c \notin Range(Tail(interaction[p]))
      /\ QueuedOK(p, c)
  <2>1. interaction \in [Peer -> Seq(Call)]
    BY <1>0 DEF TypeOK, ServiceTypeOK
  <2>2. IsInjective(interaction[p]) /\ \A d \in Range(interaction[p]) : QueuedOK(p, d)
    BY DEF IInv, QueueOK
  <2>3. QED
    BY <1>0, <1>1, <2>1, <2>2, TailFacts
<1>3. /\ Owner[c] = p /\ Pending(c) /\ handler[c] = "none" /\ caller[c] # "idle"
      /\ \A n \in Range(Sent(p)) : n.data # c
      /\ call_id[c] \in Id
  BY <1>0, <1>2, Types DEF QueuedOK, Pending
<1>4. PICK m \in Message :
        /\ m.data = c /\ m.id = call_id[c] /\ Send(p, m)
        /\ m.kind = CASE Kind[c] = "request" -> "Request"
                      [] Kind[c] = "stream" -> "OpenStream"
                      [] Kind[c] = "oneshot" -> "Oneshot"
  <2>1. CASE Kind[c] = "request"
    BY <1>0, <1>1, <2>1, MsgType DEF Service, SendInteraction
  <2>2. CASE Kind[c] = "stream"
    BY <1>0, <1>1, <2>2, MsgType DEF Service, SendInteraction
  <2>3. CASE Kind[c] = "oneshot"
    BY <1>0, <1>1, <2>3, MsgType DEF Service, SendInteraction
  <2>4. QED
    BY <2>1, <2>2, <2>3, ServiceAssumption
<1>5. \A q \in Peer, i \in Id :
        /\ incoming_responses'[q][i] = IF Kind[c] = "request" /\ q = p /\ i = call_id[c]
                                       THEN c ELSE incoming_responses[q][i]
        /\ incoming_streams'[q][i] = IF Kind[c] = "stream" /\ q = p /\ i = call_id[c]
                                     THEN c ELSE incoming_streams[q][i]
  <2>1. /\ incoming_responses \in [Peer -> [Id -> Call \union {NoCall}]]
        /\ incoming_streams \in [Peer -> [Id -> Call \union {NoCall}]]
    BY <1>0 DEF TypeOK, ServiceTypeOK
  <2>2. /\ incoming_responses' = IF Kind[c] = "request"
                                 THEN [incoming_responses EXCEPT ![p][call_id[c]] = c]
                                 ELSE incoming_responses
        /\ incoming_streams' = IF Kind[c] = "stream"
                               THEN [incoming_streams EXCEPT ![p][call_id[c]] = c]
                               ELSE incoming_streams
    BY <1>1 DEF Service, SendInteraction, tableVars
  <2>3. QED
    BY <1>3, <2>1, <2>2
<1>6. Added(p, m)
  BY <1>0, <1>4, SentSend DEF Added
<1>7. /\ loop'[p] = "send" /\ \A q \in Peer : q # p => loop'[q] = loop[q]
      /\ FewerAlive /\ Alive(p)
      /\ \A q \in Peer : Alive(q)' = Alive(q)
  <2>1. loop'[p] = "send" /\ \A q \in Peer : q # p => loop'[q] = loop[q]
    BY <1>0, <1>4 DEF Send, TypeOK, ServiceTypeOK
  <2>2. QED
    BY <1>0, <2>1 DEF FewerAlive, Alive
<1>8. /\ \A e \in Call : Kept(e)
      /\ \A e \in Call : /\ Pending(e)' = Pending(e) /\ ItemsSent(e)' = ItemsSent(e)
                         /\ Occupied(e)' = Occupied(e) /\ Unclosed(e)' = Unclosed(e)
                         /\ Misled(e)' = Misled(e)
  BY <1>0, KeptCall DEF Kept
<1>9. CallsOK' /\ CalledOK'
  <2>1. \A e \in Call : handler[e] = "called" => loop'[Server(e)] = loop[Server(e)]
    BY <1>0, <1>7, ServerFact DEF IInv, CalledOK
  <2>2. QED
    BY <1>0, <1>8, <2>1, FrameCalls, FrameCalled DEF IInv
<1>10. MessagesOK'
  <2>1. ASSUME NEW q \in Peer, NEW n \in Message, MessageOK(q, n)
        PROVE  MessageOK(q, n)'
    BY <1>8, <2>1, KeptMessage DEF Message
  <2>2. m.kind \in {"Request", "OpenStream", "Oneshot"}
    BY <1>4, ServiceAssumption
  <2>3. MessageOK(p, m)'
    BY <1>0, <1>3, <1>4, <1>8, <2>2, ServiceAssumption DEF MessageOK
  <2>4. QED
    BY <1>0, <1>6, <2>1, <2>3, AddedMessages DEF IInv
<1>11. MessagesOrdered'
  BY <1>0, <1>3, <1>4, <1>6, AddedOrdered DEF IInv
<1>12. QueueOK'
  <2> SUFFICES ASSUME NEW q \in Peer
               PROVE  /\ \A e \in Range(interaction[q])' : QueuedOK(q, e)'
                      /\ IsInjective(interaction[q])'
    BY DEF QueueOK
  <2>1. /\ IsInjective(interaction'[q])
        /\ \A e \in Range(interaction'[q]) : QueuedOK(q, e) /\ e \in Call
    <3>1. IsInjective(interaction[q]) /\ \A e \in Range(interaction[q]) : QueuedOK(q, e)
      BY DEF IInv, QueueOK
    <3>2. Range(interaction[q]) \subseteq Call
      BY <1>0, Types, SeqRange
    <3>3. QED
      BY <1>2, <3>1, <3>2
  <2>2. ASSUME NEW e \in Range(interaction'[q])
        PROVE  QueuedOK(q, e)'
    <3>1. QueuedOK(q, e) /\ e \in Call /\ (q = p => e # c)
      BY <1>2, <2>1
    <3>2. \A n \in Range(Sent(q))' : n \in Range(Sent(q)) \/ (q = p /\ n = m)
      BY <1>0, <1>6, AddedRange, PeerFact
    <3>3. QED
      BY <1>0, <1>4, <1>8, <3>1, <3>2 DEF QueuedOK
  <2>3. QED
    BY <2>1, <2>2
<1>13. WaitingOK'
  <2> SUFFICES ASSUME NEW d \in Call, caller[d] = "waiting", Alive(Owner[d])
               PROVE  LET q == interaction'[Owner[d]]
                      IN IF q = <<>> THEN incoming_responses'[Owner[d]][call_id[d]] = d
                         ELSE q[Len(q)] = d
    BY <1>0, <1>7, ServerFact DEF WaitingOK
  <2>1. Owner[d] \in Peer /\ call_id[d] \in Id
    BY <1>0, ServerFact, Types
  <2>2. CASE Owner[d] # p
    BY <1>2, <1>5, <2>1, <2>2 DEF IInv, WaitingOK
  <2>3. CASE Owner[d] = p
    <3>1. interaction[p][Len(interaction[p])] = d
      BY <1>0, <2>3 DEF IInv, WaitingOK
    <3>2. CASE Tail(interaction[p]) = <<>>
      <4>1. d = c
        BY <1>0, <1>1, <3>1, <3>2, TailFacts
      <4>2. Kind[c] = "request"
        BY <4>1, ServiceAssumption DEF IInv, CallsOK, CallerOK
      <4>3. QED
        BY <1>2, <1>5, <2>1, <2>3, <3>2, <4>1, <4>2
    <3>3. CASE Tail(interaction[p]) # <<>>
      BY <1>0, <1>2, <2>3, <3>1, <3>3, TailFacts
    <3>4. QED
      BY <3>2, <3>3
  <2>4. QED
    BY <2>2, <2>3
<1>14. TablesOK'
  <2> SUFFICES ASSUME NEW q \in Peer, NEW i \in Id
               PROVE  /\ EntryOK(q, i, incoming_responses[q][i], "request")'
                      /\ EntryOK(q, i, incoming_streams[q][i], "stream")'
    BY DEF TablesOK
  <2>1. /\ EntryOK(q, i, incoming_responses[q][i], "request")
        /\ EntryOK(q, i, incoming_streams[q][i], "stream")
    BY DEF IInv, TablesOK
  <2>2. /\ incoming_responses'[q][i] = incoming_responses[q][i]
             \/ (Kind[c] = "request" /\ q = p /\ i = call_id[c]
                 /\ incoming_responses'[q][i] = c)
        /\ incoming_streams'[q][i] = incoming_streams[q][i]
             \/ (Kind[c] = "stream" /\ q = p /\ i = call_id[c]
                 /\ incoming_streams'[q][i] = c)
    BY <1>5
  <2>3. QED
    BY <1>0, <1>3, <2>1, <2>2 DEF EntryOK
<1>15. IdsOK' /\ GoneOK'
  BY <1>0, <1>7, <1>8, FrameIds, FrameGone DEF IInv
<1>16. StreamTableOK'
  <2> SUFFICES ASSUME NEW d \in Call, Kind[d] = "stream", Alive(Owner[d])
               PROVE  /\ Unclosed(d)' => InQueue(d)' \/ Entered(d)'
                      /\ Closing(d)' => Entered(d)'
    BY <1>7, ServerFact DEF StreamTableOK
  <2>1. Owner[d] \in Peer /\ call_id[d] \in Id /\ Server(d) \in Peer
    BY <1>0, ServerFact, Types
  <2>2. /\ Unclosed(d) => InQueue(d) \/ Entered(d)
        /\ Closing(d) => Entered(d)
    BY DEF IInv, StreamTableOK
  <2>3. Closing(d)' => Closing(d)
    <3>1. m.kind # "CloseStream"
      BY <1>4, ServiceAssumption
    <3>2. \A q \in Peer : \A n \in Range(Sent(q))' : n \in Range(Sent(q)) \/ n = m
      BY <1>0, <1>6, AddedRange, PeerFact
    <3>3. QED
      BY <2>1, <3>1, <3>2, ServerFact DEF Closing
  <2>4. InQueue(d) => InQueue(d)' \/ Entered(d)'
    <3>1. CASE Owner[d] # p
      BY <1>2, <2>1, <3>1 DEF InQueue
    <3>2. CASE Owner[d] = p
      <4>1. InQueue(d) => d \in Range(interaction[p])
        BY <3>2 DEF InQueue, Range
      <4>2. d \in Range(interaction[p]) => d = c \/ d \in Range(Tail(interaction[p]))
        BY <1>0, <1>1, TailFacts
      <4>3. d \in Range(Tail(interaction[p])) => InQueue(d)'
        BY <1>2, <3>2 DEF InQueue, Range
      <4>4. d = c => Entered(d)'
        BY <1>0, <1>3, <1>5, <2>1 DEF Entered
      <4>5. QED
        BY <4>1, <4>2, <4>3, <4>4
    <3>3. QED
      BY <3>1, <3>2
  <2>5. ASSUME Entered(d), Pending(d)
        PROVE  Entered(d)'
    <3>1. Occupied(d)
      BY <2>5, StreamOccupied
    <3>2. CASE d # c /\ Kind[c] = "stream" /\ Owner[d] = p /\ call_id[d] = call_id[c]
      <4>1. Occupied(c)
        BY <1>3, <1>7, <3>2, StreamOccupied
      <4>2. QED
        BY <1>3, <3>1, <3>2, <4>1 DEF IInv, IdsOK
    <3>3. CASE ~ (d # c /\ Kind[c] = "stream" /\ Owner[d] = p /\ call_id[d] = call_id[c])
      <4>1. incoming_streams'[Owner[d]][call_id[d]] = d
        BY <1>5, <2>1, <2>5, <3>3 DEF Entered
      <4>2. QED
        BY <1>0, <4>1 DEF Entered
    <3>4. QED
      BY <3>2, <3>3
  <2>6. Unclosed(d) => Pending(d)
    BY DEF Unclosed, Pending
  <2>7. Closing(d) => Pending(d)
    BY <2>1 DEF Closing, IInv, MessagesOK, MessageOK
  <2>8. QED
    BY <1>8, <2>2, <2>3, <2>4, <2>5, <2>6, <2>7
<1>17. ItemsOK'
  <2>1. \A e \in Call : Len(received[e]) \in Nat /\ ItemsSent(e) \in Int
    BY <1>0, Types
  <2>2. m.kind \notin {"StreamMessage", "CloseStream"}
    BY <1>4, ServiceAssumption
  <2>3. UNCHANGED <<caller, received>>
    BY <1>0
  <2>4. QED
    BY <1>0, <1>6, <1>7, <1>8, <2>1, <2>2, <2>3, AddedItems DEF IInv
<1>18. AnswersOwnCall'
  BY <1>0, <1>8, FrameAnswers DEF IInv
<1>19. StreamsInOrder'
  BY <1>0, <1>15, FrameStreams DEF IInv
<1>20. QED
  BY <1>9, <1>10, <1>11, <1>12, <1>13, <1>14, <1>15, <1>16, <1>17, <1>18, <1>19
     DEF IInv

-----------------------------------------------------------------------------
(* The invariant, and what it says.                                        *)

\* Nothing has happened.
LEMMA InitIInv == Init => IInv
<1> SUFFICES ASSUME Init
             PROVE  IInv
  OBVIOUS
<1>1. TypeOK
  BY InitTypeOK
<1>2. /\ \A p \in Peer : /\ inbox[p] = <<>> /\ sending[p] = <<>>
                         /\ interaction[p] = <<>> /\ loop[p] = "select"
      /\ \A p \in Peer, i \in Id : /\ incoming_responses[p][i] = NoCall
                                   /\ incoming_streams[p][i] = NoCall
      /\ \A c \in Call : /\ outgoing_responses[c] = "none" /\ outgoing_stream[c] = <<>>
                         /\ caller[c] = "idle" /\ received[c] = <<>>
                         /\ handler[c] = "none" /\ emitted[c] = 0
  BY DEF Init, ServiceInit
<1>3. \A p \in Peer : Sent(p) = <<>> /\ Len(Sent(p)) = 0 /\ Range(Sent(p)) = {}
  <2>1. ASSUME NEW p \in Peer
        PROVE  Sent(p) = <<>>
    BY <1>2, PeerFact DEF Sent
  <2>2. Len(<<>>) = 0 /\ Range(<<>>) = {}
    BY DEF Range
  <2>3. QED
    BY <2>1, <2>2, Zenon
<1>4. \A c \in Call : Len(outgoing_stream[c]) = 0 /\ Len(received[c]) = 0
  BY <1>2
<1>5. CallsOK
  <2> SUFFICES ASSUME NEW c \in Call
               PROVE  CallerOK(c) /\ HandlerOK(c) /\ OutgoingOK(c)
    BY DEF CallsOK
  <2>1. CallerOK(c) /\ HandlerOK(c)
    BY <1>2 DEF CallerOK, HandlerOK
  <2>2. OutgoingOK(c)
    BY <1>2, <1>4 DEF OutgoingOK
  <2>3. QED
    BY <2>1, <2>2
<1>6. CalledOK /\ MessagesOK /\ WaitingOK /\ IdsOK /\ GoneOK
  BY <1>2, <1>3 DEF CalledOK, MessagesOK, WaitingOK, IdsOK, Occupied, GoneOK
<1>7. MessagesOrdered
  BY <1>3 DEF MessagesOrdered
<1>8. QueueOK
  <2>1. Range(<<>>) = {} /\ IsInjective(<<>>)
    BY DEF Range, IsInjective
  <2>2. \A p \in Peer : interaction[p] = <<>>
    BY <1>2, Zenon
  <2>3. QED
    BY <2>1, <2>2, Zenon DEF QueueOK
<1>9. TablesOK
  BY <1>2 DEF TablesOK, EntryOK
<1>10. StreamTableOK
  BY <1>2, <1>3, ServerFact DEF StreamTableOK, Unclosed, Closing
<1>11. ItemsOK /\ AnswersOwnCall /\ StreamsInOrder
  <2>1. ItemsOK
    BY <1>2 DEF ItemsOK
  <2>2. AnswersOwnCall
    BY <1>2 DEF AnswersOwnCall, Misled
  <2>3. StreamsInOrder
    <3>1. \A c \in Call : DOMAIN received[c] = {}
      BY <1>2
    <3>2. QED
      BY <1>2, <1>4, <3>1 DEF StreamsInOrder
  <2>4. QED
    BY <2>1, <2>2, <2>3
<1>12. QED
  BY <1>1, <1>5, <1>6, <1>7, <1>8, <1>9, <1>10, <1>11 DEF IInv

\* Each step of the system leaves it where it was.
LEMMA NextIInv == IInv /\ [Next]_vars => IInv'
<1> SUFFICES ASSUME IInv, [Next]_vars
             PROVE  IInv'
  OBVIOUS
<1>1. TypeOK'
  BY NextTypeOK DEF IInv
<1>2. CASE UNCHANGED vars
  BY <1>1, <1>2, QuietStep
<1>3. CASE Application
  <2>1. ASSUME NEW c \in Call, NEW i \in Id, send_request(c, i)
        PROVE  IInv'
    BY <1>1, <2>1, BeginStep DEF send_request
  <2>2. ASSUME NEW c \in Call, NEW i \in Id, send_stream(c, i)
        PROVE  IInv'
    BY <1>1, <2>2, BeginStep DEF send_stream
  <2>3. ASSUME NEW c \in Call, send_oneshot(c)
        PROVE  IInv'
    <3>1. call_id[c] \in Id
      BY Types DEF IInv
    <3>2. PICK i \in Id : i = call_id[c]
      BY <3>1
    <3>3. Begin(c, i, "sent") /\ Kind[c] = "oneshot"
      BY <2>3, <3>2 DEF send_oneshot
    <3>4. QED
      BY <1>1, <3>3, BeginStep
  <2>4. ASSUME NEW c \in Call, CancelCall(c) \/ DropStream(c)
        PROVE  IInv'
    BY <1>1, <2>4, CallerStep
  <2>5. ASSUME NEW p \in Peer, DropHandle(p)
        PROVE  IInv'
    BY <1>1, <2>5, QuietStep
  <2>6. ASSUME NEW p \in Peer, StopService(p)
        PROVE  IInv'
    BY <1>1, <2>6, StopStep
  <2>7. QED
    BY <1>3, <2>1, <2>2, <2>3, <2>4, <2>5, <2>6 DEF Application
<1>4. ASSUME NEW c \in Call, CallPanics(c) \/ StreamCut(c) \/ EndHandler(c) \/ EmitItem(c)
      PROVE  IInv'
  <2>1. CASE CallPanics(c) \/ StreamCut(c)
    BY <1>1, <2>1, CallerStep
  <2>2. CASE FinishHandler(c) \/ FailHandler(c)
    BY <1>1, <2>2, FinishStep
  <2>3. CASE ReturnInline(c)
    BY <1>1, <2>3, ReturnStep
  <2>4. CASE EmitItem(c)
    BY <1>1, <2>4, EmitStep
  <2>5. CASE FailInline(c)
    BY <1>1, <2>5, FailInlineStep
  <2>6. QED
    BY <1>4, <2>1, <2>2, <2>3, <2>4, <2>5 DEF EndHandler
<1>5. ASSUME NEW p \in Peer, Receive(p)
      PROVE  IInv'
  <2>1. CASE Service(TakeResponse(p))
    BY <1>1, <2>1, ResponseStep
  <2>2. CASE Service(TakeStreamMessage(p))
    BY <1>1, <2>2, StreamMessageStep
  <2>3. CASE Service(TakeClose(p))
    BY <1>1, <2>3, CloseStep
  <2>4. CASE ServeRequest(p) \/ ServeStream(p) \/ ServeOneshot(p) \/ HandleInline(p)
    BY <1>1, <2>4, ServeStep
  <2>5. QED
    BY <1>5, <2>1, <2>2, <2>3, <2>4 DEF Receive
<1>6. ASSUME NEW p \in Peer, EndSend(p) \/ Service(TakeEnd(p)) \/ Service(SendInteraction(p))
      PROVE  IInv'
  <2>1. CASE Service(FinishSend(p))
    BY <1>1, <2>1, QuietStep
  <2>2. CASE Service(FailSend(p)) \/ Service(TakeEnd(p))
    BY <1>1, <2>2, EndStep
  <2>3. CASE Service(SendInteraction(p))
    BY <1>1, <2>3, InteractionStep
  <2>4. QED
    BY <1>6, <2>1, <2>2, <2>3 DEF EndSend
<1>7. ASSUME NEW p \in Peer, NEW c \in Call,
             Service(SendItem(p, c)) \/ Service(SendResponse(p, c)) \/ CloseStream(p, c)
      PROVE  IInv'
  BY <1>1, <1>7, SendItemStep, SendResponseStep, CloseSendStep
<1>8. QED
  BY <1>2, <1>3, <1>4, <1>5, <1>6, <1>7 DEF Next

(***************************************************************************)
(* Whatever the two services, their applications and their handlers do,    *)
(* the invariant holds: of select!'s arms, of cancelled calls, of handles  *)
(* and services that are dropped, and for any number of calls and ids.     *)
(***************************************************************************)
THEOREM Invariance == SafeSpec => []IInv
BY InitIInv, NextIInv, PTL DEF SafeSpec

(***************************************************************************)
(* A request gets the response to itself (send_request of handle.rs, and   *)
(* the Response arm of sans_service.rs), but where the application used    *)
(* the id of a request again that it had given up.                         *)
(***************************************************************************)
THEOREM OwnAnswers == SafeSpec => []AnswersOwnCall
<1>1. IInv => AnswersOwnCall
  BY DEF IInv
<1>2. QED
  BY <1>1, Invariance, PTL

(***************************************************************************)
(* A stream's receiver gets a prefix of what its handler emitted, and all  *)
(* of it before the stream ends (the StreamMessage and CloseStream arms).  *)
(***************************************************************************)
THEOREM StreamOrder == SafeSpec => []StreamsInOrder
<1>1. IInv => StreamsInOrder
  BY DEF IInv
<1>2. QED
  BY <1>1, Invariance, PTL

(***************************************************************************)
(* The unwrap in send_request panics only when its service is gone.        *)
(***************************************************************************)
THEOREM CallsPanic == SafeSpec => []CallPanicsOnlyWithoutService
<1>1. IInv => CallPanicsOnlyWithoutService
  BY WaitingHasSender DEF IInv, GoneOK, CallPanicsOnlyWithoutService
<1>2. QED
  BY <1>1, Invariance, PTL

-----------------------------------------------------------------------------
(* What panics a service.                                                  *)

\* The steps in which a service panics.
LEMMA PanicSteps ==
  ASSUME TypeOK, Next, NEW p \in Peer, loop[p] # "panicked", loop'[p] = "panicked"
  PROVE  \/ Service(TakeStreamMessage(p)) \/ Service(TakeClose(p)) \/ Service(FailSend(p))
         \/ \E c \in Call : Service(SendResponse(p, c)) \/ (FailInline(c) /\ Server(c) = p)
<1>1. loop \in [Peer -> {"select", "send", "handle", "ended", "failed", "panicked"}]
  BY LoopType
<1>2. ASSUME Application
      PROVE  FALSE
  <2>1. UNCHANGED loop \/ \E q \in Peer : loop' = [loop EXCEPT ![q] = "ended"]
    BY <1>2 DEF Application, send_request, send_stream, send_oneshot, Begin, CancelCall,
                DropStream, DropHandle, StopService, loopVars
  <2>2. QED
    BY <1>1, <2>1
<1>3. ASSUME NEW c \in Call, CallPanics(c) \/ StreamCut(c) \/ EndHandler(c) \/ EmitItem(c)
      PROVE  FailInline(c) /\ Server(c) = p
  <2>1. \/ UNCHANGED loop
        \/ loop' = [loop EXCEPT ![Server(c)] = "select"]
        \/ FailInline(c) /\ loop' = [loop EXCEPT ![Server(c)] = "panicked"]
    BY <1>3 DEF CallPanics, StreamCut, EndHandler, FinishHandler, FailHandler, ReturnInline,
                FailInline, EmitItem, loopVars
  <2>2. QED
    BY <1>1, <2>1, ServerFact
<1>4. ASSUME NEW q \in Peer, Receive(q)
      PROVE  Service(TakeStreamMessage(p)) \/ Service(TakeClose(p))
  <2>1. \/ UNCHANGED loop \/ loop' = [loop EXCEPT ![q] = "handle"]
        \/ /\ Service(TakeStreamMessage(q)) \/ Service(TakeClose(q))
           /\ loop' = [loop EXCEPT ![q] = "panicked"]
    BY <1>4, Zenon DEF Receive, Service, TakeResponse, TakeStreamMessage, TakeClose,
                       ServeRequest, ServeStream, ServeOneshot, HandleInline
  <2>2. QED
    BY <1>1, <2>1
<1>5. ASSUME NEW q \in Peer,
             EndSend(q) \/ Service(TakeEnd(q)) \/ Service(SendInteraction(q))
      PROVE  Service(FailSend(p))
  <2>1. \/ \E to \in {"ended", "failed", "select", "send"} : loop' = [loop EXCEPT ![q] = to]
        \/ Service(FailSend(q)) /\ loop' = [loop EXCEPT ![q] = "panicked"]
    BY <1>5 DEF EndSend, Service, FinishSend, FailSend, TakeEnd, SendInteraction, Send
  <2>2. QED
    BY <1>1, <2>1
<1>6. ASSUME NEW q \in Peer, NEW c \in Call,
             \/ Service(SendItem(q, c)) \/ Service(SendResponse(q, c))
             \/ CloseStream(q, c)
      PROVE  Service(SendResponse(p, c))
  <2>1. \/ loop' = [loop EXCEPT ![q] = "send"]
        \/ Service(SendResponse(q, c)) /\ loop' = [loop EXCEPT ![q] = "panicked"]
    BY <1>6 DEF Service, SendItem, SendResponse, CloseStream, Send
  <2>2. QED
    BY <1>1, <2>1
<1>7. QED
  BY <1>2, <1>3, <1>4, <1>5, <1>6 DEF Next

\* A call that cannot be sent is lost.
LEMMA FailedCall ==
  ASSUME IInv, TypeOK', NEW p \in Peer, Service(FailSend(p)), loop'[p] = "panicked"
  PROVE  \E c \in Call : Owner[c] = p /\ Unsent(c)'
<1>1. /\ UNCHANGED <<inbox, interaction, caller, handler>>
      /\ sending' = [sending EXCEPT ![p] = <<>>]
      /\ TypeOK /\ loop[p] = "send" /\ Other(p) \in Peer
      /\ Head(sending[p]).kind \in {"Request", "OpenStream", "Oneshot"}
  BY PeerFact, LoopType DEF Service, FailSend, handleVars, callerVars, IInv
<1>2. PICK m \in Message : m = Head(sending[p]) /\ sending[p] = <<m>>
  BY <1>1 DEF TypeOK, ServiceTypeOK
<1>3. /\ Sent(p) \in Seq(Message) /\ Sent(p)' \in Seq(Message)
      /\ Len(Sent(p)) = Len(Sent(p)') + 1 /\ Sent(p)[Len(Sent(p))] = m
      /\ \A j \in 1 .. Len(Sent(p)') : Sent(p)'[j] = Sent(p)[j]
  <2>1. inbox[Other(p)] \in Seq(Message) /\ sending'[p] = <<>>
    BY <1>1 DEF TypeOK, ServiceTypeOK
  <2>2. Sent(p) = inbox[Other(p)] \o <<m>> /\ Sent(p)' = inbox[Other(p)] \o <<>>
    BY <1>1, <1>2, <2>1 DEF Sent
  <2>3. QED
    BY <1>2, <2>1, <2>2
<1>4. MessageOK(p, m) /\ m \in Range(Sent(p))
  <2>1. m \in Range(Sent(p))
    BY <1>3, SeqRange
  <2>2. QED
    BY <2>1 DEF IInv, MessagesOK
<1>5. PICK c \in Call : c = m.data
  BY DEF Message
<1>6. Owner[c] = p /\ handler[c] = "none" /\ caller[c] # "idle"
  BY <1>1, <1>2, <1>4, <1>5 DEF MessageOK, Pending
<1>7. ~ InQueue(c)
  <2>1. interaction[p] \in Seq(Call)
    BY <1>1, Types
  <2>2. c \notin Range(interaction[p])
    BY <1>4, <1>5 DEF IInv, QueueOK, QueuedOK
  <2>3. QED
    BY <1>6, <2>1, <2>2 DEF InQueue, Range
<1>8. ASSUME NEW n \in Range(Sent(p)'), n.data = c,
             n.kind \in {"Request", "OpenStream", "Oneshot"}
      PROVE  FALSE
  <2>1. PICK j \in 1 .. Len(Sent(p)') : Sent(p)'[j] = n
    BY <1>3, <1>8, SeqRange
  <2>2. /\ j \in 1 .. Len(Sent(p)) /\ Len(Sent(p)) \in 1 .. Len(Sent(p)) /\ j < Len(Sent(p))
        /\ Sent(p)[j] = n
    BY <1>3, <2>1
  <2>3. n.kind = "StreamMessage"
    BY <1>3, <1>5, <1>8, <2>2 DEF IInv, MessagesOrdered
  <2>4. QED
    BY <1>8, <2>3
<1>9. ~ OnTheWay(c)'
  <2>1. ~ InQueue(c)'
    BY <1>1, <1>7 DEF InQueue
  <2>2. QED
    BY <1>6, <1>8, <2>1 DEF OnTheWay, Carries
<1>10. QED
  BY <1>1, <1>6, <1>9 DEF Unsent

\* The message of the end of a stream finds the stream in the table.
LEMMA ClosePanicsNot ==
  ASSUME IInv, TypeOK', NEW p \in Peer, Service(TakeClose(p))
  PROVE  UNCHANGED loop
<1>1. PICK m \in Message :
           /\ m = Head(inbox[p]) /\ m.kind = "CloseStream"
           /\ m \in Range(Sent(Other(p))) /\ MessageOK(Other(p), m) /\ m.data \in Call
  BY TakeFacts, TakeCloseEffect
<1>2. Alive(p)
  BY TakeCloseEffect DEF Take, Alive
<1>3. QED
  BY <1>1, <1>2, CloseEntry, ServiceAssumption, TakeCloseEffect

\* A call that is made remains so, and so does a receiver that was dropped.
LEMMA CallerStays ==
  ASSUME TypeOK, Next, NEW c \in Call
  PROVE  /\ caller[c] # "idle" => caller'[c] # "idle"
         /\ caller[c] = "dropped" => caller'[c] = "dropped"
<1>1. caller \in [Call -> {"idle", "waiting", "answered", "cancelled", "panicked",
                           "open", "ended", "cut", "dropped", "sent"}]
  BY CallerType
<1>2. ASSUME NEW d \in Call, NEW i \in Id,
             \/ send_request(d, i) \/ send_stream(d, i) \/ send_oneshot(d)
             \/ CancelCall(d) \/ DropStream(d) \/ CallPanics(d) \/ StreamCut(d)
      PROVE  /\ caller[d] \in {"idle", "waiting", "open"}
             /\ \E to \in {"waiting", "open", "sent", "cancelled", "dropped", "panicked", "cut"} :
                  caller' = [caller EXCEPT ![d] = to]
  BY <1>2 DEF send_request, send_stream, send_oneshot, Begin, CancelCall, DropStream,
              CallPanics, StreamCut
<1>3. ASSUME NEW d \in Call, EndHandler(d) \/ EmitItem(d)
      PROVE  UNCHANGED caller
  BY <1>3 DEF EndHandler, FinishHandler, FailHandler, ReturnInline, FailInline, EmitItem,
              callerVars
<1>4. ASSUME NEW p \in Peer, DropHandle(p) \/ StopService(p)
      PROVE  UNCHANGED caller
  BY <1>4 DEF DropHandle, StopService, callerVars
<1>5. ASSUME NEW p \in Peer, Receive(p)
      PROVE  \/ UNCHANGED caller
             \/ \E d : caller' = [caller EXCEPT ![d] = IF @ = "waiting" THEN "answered" ELSE @]
             \/ \E d : caller' = [caller EXCEPT ![d] = IF @ = "open" THEN "ended" ELSE @]
  <2>1. CASE Service(TakeResponse(p))
    BY <2>1 DEF Service, TakeResponse
  <2>2. CASE Service(TakeClose(p))
    BY <2>2 DEF Service, TakeClose
  <2>3. CASE \/ Service(TakeStreamMessage(p)) \/ ServeRequest(p) \/ ServeStream(p)
             \/ ServeOneshot(p) \/ HandleInline(p)
    BY <2>3, Zenon DEF Service, TakeStreamMessage, ServeRequest, ServeStream, ServeOneshot,
                       HandleInline, callerVars
  <2>4. QED
    BY <1>5, <2>1, <2>2, <2>3 DEF Receive
<1>6. ASSUME NEW p \in Peer,
             EndSend(p) \/ Service(TakeEnd(p)) \/ Service(SendInteraction(p))
      PROVE  UNCHANGED caller
  BY <1>6, Zenon DEF EndSend, Service, FinishSend, FailSend, TakeEnd, SendInteraction, callerVars
<1>7. ASSUME NEW p \in Peer, NEW d \in Call,
             \/ Service(SendItem(p, d)) \/ Service(SendResponse(p, d))
             \/ CloseStream(p, d)
      PROVE  UNCHANGED caller
  BY <1>7 DEF Service, SendItem, SendResponse, CloseStream, callerVars
<1>8. PICK i \in Id : TRUE
  BY ServiceAssumption
<1>9. \/ UNCHANGED caller
      \/ \E d \in Call : /\ caller[d] \in {"idle", "waiting", "open"}
                         /\ \E to \in {"waiting", "open", "sent", "cancelled", "dropped",
                                       "panicked", "cut"} :
                              caller' = [caller EXCEPT ![d] = to]
      \/ \E d : caller' = [caller EXCEPT ![d] = IF @ = "waiting" THEN "answered" ELSE @]
      \/ \E d : caller' = [caller EXCEPT ![d] = IF @ = "open" THEN "ended" ELSE @]
  BY <1>2, <1>3, <1>4, <1>5, <1>6, <1>7, <1>8, Zenon DEF Next, Application
<1>10. QED
  BY <1>1, <1>9

\* A handler that failed does not run again, and one that was not started
\* starts with the message of its call.
LEMMA HandlerStays ==
  ASSUME IInv, TypeOK', Next, NEW c \in Call
  PROVE  /\ handler[c] \in {"failed", "panicked"} => handler'[c] = handler[c]
         /\ handler[c] = "none" => handler'[c] = "none" \/ OnTheWay(c)
<1>1. handler \in [Call -> {"none", "called", "running", "finished", "failed", "panicked",
                            "closed"}]
  BY DEF IInv, TypeOK
<1>2. CASE Application
  <2>1. \/ UNCHANGED handler
        \/ \E p : handler' = [d \in Call |-> IF Server(d) = p /\ handler[d] = "called"
                                             THEN "failed" ELSE handler[d]]
    BY <1>2 DEF Application, send_request, send_stream, send_oneshot, Begin, CancelCall,
                DropStream, DropHandle, StopService
  <2>2. QED
    BY <1>1, <2>1
<1>3. ASSUME NEW d \in Call, CallPanics(d) \/ StreamCut(d) \/ EndHandler(d) \/ EmitItem(d)
      PROVE  \/ UNCHANGED handler
             \/ /\ handler[d] \in {"called", "running"}
                /\ \E to : handler' = [handler EXCEPT ![d] = to]
  <2>1. CASE EmitItem(d) /\ Alive(Server(d))
    BY <2>1 DEF EmitItem
  <2>2. CASE EmitItem(d) /\ ~ Alive(Server(d))
    BY <2>2 DEF EmitItem
  <2>3. CASE CallPanics(d) \/ StreamCut(d)
    BY <2>3 DEF CallPanics, StreamCut
  <2>4. CASE ReturnInline(d)
    BY <2>4 DEF ReturnInline
  <2>5. CASE FinishHandler(d) \/ FailHandler(d) \/ FailInline(d)
    BY <2>5 DEF FinishHandler, FailHandler, FailInline
  <2>6. QED
    BY <1>3, <2>1, <2>2, <2>3, <2>4, <2>5 DEF EndHandler
<1>4. ASSUME NEW p \in Peer,
             ServeRequest(p) \/ ServeStream(p) \/ ServeOneshot(p) \/ HandleInline(p)
      PROVE  \E d \in Call : /\ handler[d] = "none" /\ OnTheWay(d)
                             /\ \E to : handler' = [handler EXCEPT ![d] = to]
  <2>1. PICK kind \in {"Request", "OpenStream", "Oneshot"} : Take(p, kind) /\ UNCHANGED sending
    BY <1>4 DEF ServeRequest, ServeStream, ServeOneshot, HandleInline
  <2>2. PICK m \in Message :
           /\ m = Head(inbox[p]) /\ m.kind = kind /\ m \in Range(Sent(Other(p)))
           /\ MessageOK(Other(p), m) /\ m.data \in Call
    BY <2>1, TakeFacts
  <2>3. OnTheWay(m.data) /\ handler[m.data] = "none"
    BY <2>2 DEF MessageOK, OnTheWay, Carries
  <2>4. \E to : handler' = [handler EXCEPT ![m.data] = to]
    BY <1>4, <2>2 DEF ServeRequest, ServeStream, ServeOneshot, HandleInline
  <2>5. QED
    BY <2>2, <2>3, <2>4
<1>5. ASSUME NEW p \in Peer, Receive(p)
      PROVE  \/ UNCHANGED handler
             \/ \E d \in Call : /\ handler[d] = "none" /\ OnTheWay(d)
                                /\ \E to : handler' = [handler EXCEPT ![d] = to]
  BY <1>4, <1>5 DEF Receive, Service
<1>6. ASSUME NEW p \in Peer,
             EndSend(p) \/ Service(TakeEnd(p)) \/ Service(SendInteraction(p))
      PROVE  UNCHANGED handler
  BY <1>6 DEF EndSend, Service
<1>7. ASSUME NEW p \in Peer, NEW d \in Call,
             \/ Service(SendItem(p, d)) \/ Service(SendResponse(p, d))
             \/ CloseStream(p, d)
      PROVE  \/ UNCHANGED handler
             \/ handler[d] = "finished" /\ \E to : handler' = [handler EXCEPT ![d] = to]
  BY <1>7 DEF Service, CloseStream
<1>8. CASE \/ UNCHANGED handler
           \/ \E d \in Call : /\ handler[d] \in {"called", "running", "finished"}
                              /\ \E to : handler' = [handler EXCEPT ![d] = to]
           \/ \E d \in Call : /\ handler[d] = "none" /\ OnTheWay(d)
                              /\ \E to : handler' = [handler EXCEPT ![d] = to]
  BY <1>1, <1>8
<1>9. QED
  BY <1>2, <1>3, <1>5, <1>6, <1>7, <1>8 DEF Next

\* A service that is gone asks for nothing and sends nothing.
LEMMA GoneStays ==
  ASSUME TypeOK, Next, NEW p \in Peer, ~ Alive(p)
  PROVE  /\ loop'[p] = loop[p] /\ interaction'[p] = interaction[p]
         /\ \/ inbox'[Other(p)] = inbox[Other(p)]
            \/ /\ inbox[Other(p)] # <<>> /\ inbox'[Other(p)] = Tail(inbox[Other(p)])
<1>1. /\ loop \in [Peer -> {"select", "send", "handle", "ended", "failed", "panicked"}]
      /\ interaction \in [Peer -> Seq(Call)] /\ inbox \in [Peer -> Seq(Message)]
      /\ Other(p) \in Peer /\ Other(p) # p
  BY LoopType, PeerFact DEF TypeOK, ServiceTypeOK
<1>2. CASE Application
  <2>1. ASSUME NEW c \in Call, NEW i \in Id,
               send_request(c, i) \/ send_stream(c, i) \/ send_oneshot(c)
        PROVE  /\ UNCHANGED <<loop, inbox>>
               /\ \/ UNCHANGED interaction
                  \/ /\ Owner[c] # p
                     /\ \E s : interaction' = [interaction EXCEPT ![Owner[c]] = s]
    BY <2>1 DEF send_request, send_stream, send_oneshot, Begin, Interact, loopVars
  <2>2. ASSUME NEW c \in Call, CancelCall(c) \/ DropStream(c)
        PROVE  UNCHANGED <<loop, interaction, inbox>>
    BY <2>2 DEF CancelCall, DropStream, loopVars, handleVars
  <2>3. ASSUME NEW q \in Peer, DropHandle(q) \/ StopService(q)
        PROVE  /\ UNCHANGED <<interaction, inbox>>
               /\ UNCHANGED loop \/ (q # p /\ \E to : loop' = [loop EXCEPT ![q] = to])
    BY <2>3 DEF DropHandle, StopService, loopVars, handleVars
  <2>4. PICK i \in Id : TRUE
    BY ServiceAssumption
  <2>5. \/ /\ UNCHANGED <<loop, inbox>>
           /\ \/ UNCHANGED interaction
              \/ \E c \in Call : /\ Owner[c] # p
                                 /\ \E s : interaction' = [interaction EXCEPT ![Owner[c]] = s]
        \/ /\ UNCHANGED <<interaction, inbox>>
           /\ \/ UNCHANGED loop
              \/ \E q \in Peer : q # p /\ \E to : loop' = [loop EXCEPT ![q] = to]
    BY <1>2, <2>1, <2>2, <2>3, <2>4, Zenon DEF Application
  <2>6. QED
    BY <1>1, <2>5
<1>3. ASSUME NEW c \in Call, CallPanics(c) \/ StreamCut(c) \/ EndHandler(c) \/ EmitItem(c)
      PROVE  /\ UNCHANGED <<interaction, inbox>>
             /\ \/ UNCHANGED loop
                \/ loop[Server(c)] = "handle" /\ \E to : loop' = [loop EXCEPT ![Server(c)] = to]
  BY <1>3 DEF CallPanics, StreamCut, EndHandler, FinishHandler, FailHandler, ReturnInline,
              FailInline, EmitItem, loopVars, handleVars
<1>4. ASSUME NEW q \in Peer, Receive(q)
      PROVE  /\ UNCHANGED interaction /\ q # p
             /\ inbox[q] # <<>> /\ inbox' = [inbox EXCEPT ![q] = Tail(@)]
             /\ UNCHANGED loop \/ \E to : loop' = [loop EXCEPT ![q] = to]
  <2>1. /\ UNCHANGED interaction
        /\ \E kind : Take(q, kind)
        /\ UNCHANGED loop \/ \E to : loop' = [loop EXCEPT ![q] = to]
    BY <1>4, Zenon DEF Receive, Service, TakeResponse, TakeStreamMessage, TakeClose,
                       ServeRequest, ServeStream, ServeOneshot, HandleInline, handleVars
  <2>2. QED
    BY <2>1 DEF Take, Alive
<1>5. ASSUME NEW q \in Peer, \/ EndSend(q) \/ Service(TakeEnd(q)) \/ Service(SendInteraction(q))
                             \/ \E c \in Call : \/ Service(SendItem(q, c))
                                                \/ Service(SendResponse(q, c))
                                                \/ CloseStream(q, c)
      PROVE  /\ q # p /\ \E to : loop' = [loop EXCEPT ![q] = to]
             /\ \/ UNCHANGED interaction
                \/ interaction' = [interaction EXCEPT ![q] = Tail(@)]
             /\ \/ UNCHANGED inbox
                \/ \E s : inbox' = [inbox EXCEPT ![Other(q)] = s]
  BY <1>5 DEF EndSend, Service, FinishSend, FailSend, TakeEnd, SendInteraction, SendItem,
              SendResponse, CloseStream, Send, handleVars, Alive
<1>6. CASE \E c \in Call : CallPanics(c) \/ StreamCut(c) \/ EndHandler(c) \/ EmitItem(c)
  BY <1>1, <1>3, <1>6 DEF Alive
<1>7. CASE \E q \in Peer : Receive(q)
  <2>1. PICK q \in Peer : Receive(q)
    BY <1>7
  <2>2. q = Other(p)
    BY <1>4, <2>1, PeerFact
  <2>3. QED
    BY <1>1, <1>4, <2>1, <2>2
<1>8. CASE \E q \in Peer : \/ EndSend(q) \/ Service(TakeEnd(q)) \/ Service(SendInteraction(q))
                           \/ \E c \in Call : \/ Service(SendItem(q, c))
                                              \/ Service(SendResponse(q, c))
                                              \/ CloseStream(q, c)
  <2>1. PICK q \in Peer :
             /\ q # p /\ \E to : loop' = [loop EXCEPT ![q] = to]
             /\ \/ UNCHANGED interaction
                \/ interaction' = [interaction EXCEPT ![q] = Tail(@)]
             /\ \/ UNCHANGED inbox
                \/ \E s : inbox' = [inbox EXCEPT ![Other(q)] = s]
    BY <1>5, <1>8
  <2>2. Other(q) = p
    BY <2>1, PeerFact
  <2>3. QED
    BY <1>1, <2>1, <2>2
<1>9. QED
  BY <1>2, <1>6, <1>7, <1>8 DEF Next

\* A call that is lost with its service remains lost.
LEMMA UnsentStays ==
  ASSUME IInv, TypeOK', Next, NEW c \in Call, ~ Alive(Owner[c]), Unsent(c)
  PROVE  Unsent(c)'
<1> DEFINE p == Owner[c]
<1>1. TypeOK /\ p \in Peer /\ Other(p) \in Peer
  BY ServerFact, PeerFact DEF IInv
<1>2. /\ loop'[p] = loop[p] /\ interaction'[p] = interaction[p]
      /\ \/ inbox'[Other(p)] = inbox[Other(p)]
         \/ /\ inbox[Other(p)] # <<>> /\ inbox'[Other(p)] = Tail(inbox[Other(p)])
  BY <1>1, GoneStays
<1>3. sending[p] = <<>> /\ sending'[p] = <<>>
  BY <1>1, <1>2 DEF Alive, TypeOK, ServiceTypeOK
<1>4. Range(Sent(p)') \subseteq Range(Sent(p))
  <2>1. inbox[Other(p)] \in Seq(Message)
    BY <1>1 DEF TypeOK, ServiceTypeOK
  <2>2. Sent(p) = inbox[Other(p)] /\ Sent(p)' = inbox'[Other(p)]
    BY <1>2, <1>3, <2>1 DEF Sent
  <2>3. Range(Tail(inbox[Other(p)])) \subseteq Range(inbox[Other(p)])
    BY <2>1 DEF Range
  <2>4. QED
    BY <1>2, <2>2, <2>3
<1>5. caller'[c] # "idle" /\ handler'[c] = "none"
  BY <1>1, CallerStays, HandlerStays DEF Unsent
<1>6. ~ OnTheWay(c)'
  <2>1. ~ InQueue(c)'
    BY <1>2 DEF Unsent, OnTheWay, InQueue
  <2>2. QED
    BY <1>4, <2>1 DEF Unsent, OnTheWay, Carries
<1>7. QED
  BY <1>5, <1>6 DEF Unsent

\* A step that panics a service has its reason, and the reasons remain.
LEMMA NextPanics ==
  IInv /\ ServicePanicsOnlyFor /\ [Next]_vars => ServicePanicsOnlyFor'
<1> SUFFICES ASSUME IInv, ServicePanicsOnlyFor, [Next]_vars, NEW p \in Peer,
                    loop'[p] = "panicked"
             PROVE  \E c \in Call : IF Owner[c] = p THEN caller'[c] = "dropped" \/ Unsent(c)'
                                                    ELSE NoAnswer(c)'
  BY DEF ServicePanicsOnlyFor
<1>1. TypeOK /\ TypeOK'
  BY NextTypeOK DEF IInv
<1>2. CASE UNCHANGED vars
  <2>1. PICK c \in Call : IF Owner[c] = p THEN caller[c] = "dropped" \/ Unsent(c)
                                          ELSE NoAnswer(c)
    BY <1>2 DEF vars, serviceVars, loopVars, ServicePanicsOnlyFor
  <2>2. UNCHANGED <<inbox, sending, interaction, caller, handler>>
    BY <1>2 DEF vars, serviceVars, loopVars, handleVars, callerVars
  <2>3. QED
    BY <2>1, <2>2 DEF Unsent, OnTheWay, InQueue, Carries, Sent, NoAnswer
<1>3. CASE Next /\ loop[p] = "panicked"
  <2>1. PICK c \in Call : IF Owner[c] = p THEN caller[c] = "dropped" \/ Unsent(c)
                                          ELSE NoAnswer(c)
    BY <1>3 DEF ServicePanicsOnlyFor
  <2>2. /\ caller[c] = "dropped" => caller'[c] = "dropped"
        /\ handler[c] \in {"failed", "panicked"} => handler'[c] = handler[c]
    BY <1>1, <1>3, CallerStays, HandlerStays
  <2>3. Owner[c] = p /\ Unsent(c) => Unsent(c)'
    BY <1>1, <1>3, UnsentStays DEF Alive
  <2>4. QED
    BY <2>1, <2>2, <2>3 DEF NoAnswer
<1>4. CASE Next /\ loop[p] # "panicked"
  <2>1. CASE Service(TakeStreamMessage(p))
    <3>1. PICK m \in Message : m = Head(inbox[p]) /\ m.id \in Id
      BY <1>1, <2>1, TakeFacts, Zenon DEF Service, TakeStreamMessage
    <3>2. PICK c \in Call \union {NoCall} : c = incoming_streams[p][m.id]
      BY <1>1, <3>1, EntryType
    <3>3. /\ UNCHANGED loop \/ (c # NoCall /\ caller[c] = "dropped")
          /\ UNCHANGED caller
      BY <2>1, <3>1, <3>2, Zenon DEF Service, TakeStreamMessage
    <3>4. c \in Call /\ caller'[c] = "dropped"
      BY <1>4, <3>2, <3>3
    <3>5. EntryOK(p, m.id, c, "stream")
      BY <1>1, <3>1, <3>2 DEF IInv, TablesOK
    <3>6. Owner[c] = p
      BY <3>4, <3>5, ServiceAssumption DEF EntryOK
    <3>7. QED
      BY <3>4, <3>6
  <2>2. CASE Service(TakeClose(p))
    BY <1>1, <1>4, <2>2, ClosePanicsNot
  <2>3. CASE Service(FailSend(p))
    BY <1>1, <2>3, FailedCall
  <2>4. ASSUME NEW c \in Call, Service(SendResponse(p, c))
        PROVE  Owner[c] # p /\ NoAnswer(c)'
    <3>1. /\ Owner[c] # p /\ outgoing_responses[c] = "cancelled" /\ UNCHANGED handler
      BY <1>1, <1>4, <2>4, LoopType DEF Service, SendResponse, Send
    <3>2. handler[c] = "failed" /\ Kind[c] = "request"
      BY <3>1 DEF IInv, CallsOK, OutgoingOK
    <3>3. QED
      BY <3>1, <3>2 DEF NoAnswer
  <2>5. ASSUME NEW c \in Call, FailInline(c), Server(c) = p
        PROVE  Owner[c] # p /\ NoAnswer(c)'
    BY <1>1, <2>5, ServerFact DEF FailInline, TypeOK, NoAnswer
  <2>6. QED
    BY <1>1, <1>4, <2>1, <2>2, <2>3, <2>4, <2>5, PanicSteps
<1>5. QED
  BY <1>2, <1>3, <1>4

(***************************************************************************)
(* The unwraps of next_message and the loop that awaits its handlers panic *)
(* for no reason but a handler that gave no answer, a receiver that the    *)
(* application dropped, and a call that could not be sent.                 *)
(***************************************************************************)
THEOREM ServicePanics == SafeSpec => []ServicePanicsOnlyFor
<1>1. Init => ServicePanicsOnlyFor
  BY DEF Init, ServiceInit, ServicePanicsOnlyFor
<1>2. QED
  BY <1>1, NextPanics, Invariance, PTL DEF SafeSpec

=============================================================================
