------------------------- MODULE RpcResults_proofs -------------------------
(***************************************************************************)
(* What follows from the invariant of RpcSystem: the two services          *)
(* implement CallService, nobody who waits is stuck, and no step can be    *)
(* repeated for ever.                                                      *)
(***************************************************************************)
EXTENDS RpcInvariant_proofs

\* The steps of CallService, call by call.
LEMMA Stutter ==
  ASSUME \A d \in Call : Phase(d)' = Phase(d) /\ Execution(d)' = Execution(d),
         UNCHANGED <<emitted, received>>
  PROVE  UNCHANGED Calls!vars
BY DEF Calls!vars

\* One caller moves on.
LEMMA PhaseStep ==
  ASSUME NEW c \in Call, NEW from, NEW to, Phase(c) = from, Phase(c)' = to,
         \A d \in Call : d # c => Phase(d)' = Phase(d),
         \A d \in Call : Execution(d)' = Execution(d),
         UNCHANGED <<emitted, received>>
  PROVE  Calls!Step(c, from, to)
BY DEF Calls!Step

\* One handler is started, or stops.
LEMMA ExecutionStep ==
  ASSUME NEW c \in Call, NEW to, Execution(c)' = to,
         \A d \in Call : d # c => Execution(d)' = Execution(d),
         \A d \in Call : Phase(d)' = Phase(d),
         UNCHANGED <<emitted, received>>
  PROVE  /\ Execution(c) = "running" /\ to \in {"finished", "failed"} => Calls!Stop(c)
         /\ Execution(c) = "none" /\ to = "running" /\ Phase(c) # "idle" => Calls!Execute(c)
BY DEF Calls!Stop, Calls!Execute

\* No caller moves.
LEMMA SamePhases ==
  ASSUME UNCHANGED <<caller, answer>>
  PROVE  \A d \in Call : Phase(d)' = Phase(d)
BY DEF Phase, Misled

\* No handler moves.
LEMMA SameExecutions ==
  ASSUME UNCHANGED handler
  PROVE  \A d \in Call : Execution(d)' = Execution(d)
BY DEF Execution

\* No call is made and no handler runs.
LEMMA CallsInit == Init => Calls!Init
BY DEF Init, ServiceInit, Calls!Init, Phase, Execution, Misled

\* Nothing that a caller or a handler notices.
LEMMA UnnoticedStep ==
  ASSUME UNCHANGED <<caller, answer, received, handler, emitted>>
  PROVE  UNCHANGED Calls!vars
BY SamePhases, SameExecutions, Stutter

\* A call is made, or given up.
LEMMA CallerCalls ==
  ASSUME IInv, NEW c \in Call,
         UNCHANGED <<answer, received, handler, emitted>>,
         \/ /\ caller[c] = "idle"
            /\ \E state \in {"waiting", "open", "sent"} :
                 caller' = [caller EXCEPT ![c] = state]
         \/ /\ caller[c] \in {"waiting", "open"}
            /\ \E state \in {"cancelled", "panicked", "dropped", "cut"} :
                 caller' = [caller EXCEPT ![c] = state]
  PROVE  Calls!Make(c) \/ Calls!Lose(c)
<1>1. /\ \A d \in Call : d # c => caller'[d] = caller[d]
      /\ \/ caller[c] = "idle" /\ caller'[c] \in {"waiting", "open", "sent"}
         \/ /\ caller[c] \in {"waiting", "open"}
            /\ caller'[c] \in {"cancelled", "panicked", "dropped", "cut"}
  BY DEF IInv, TypeOK, ServiceTypeOK
<1>2. \A d \in Call : d # c => Phase(d)' = Phase(d)
  BY <1>1 DEF Phase, Misled
<1>3. \/ Phase(c) = "idle" /\ Phase(c)' = "made"
      \/ Phase(c) = "made" /\ Phase(c)' = "lost"
  BY <1>1 DEF Phase, Misled
<1>4. QED
  BY <1>2, <1>3, SameExecutions, PhaseStep DEF Calls!Make, Calls!Lose

\* A request is answered, or misses its answer.
LEMMA ResponseCalls ==
  ASSUME IInv, TypeOK', NEW p \in Peer, Service(TakeResponse(p))
  PROVE  [Calls!Next]_(Calls!vars)
<1>0. /\ Take(p, "Response") /\ TypeOK
      /\ UNCHANGED <<sending, received, handler, emitted>>
  BY TakeResponseEffect DEF IInv
<1>1. PICK m \in Message :
        /\ m = Head(inbox[p]) /\ m.kind = "Response"
        /\ MessageOK(Other(p), m) /\ m.data \in Call /\ m.id \in Id
  BY <1>0, TakeFacts
<1>2. PICK d : d = incoming_responses[p][m.id]
  OBVIOUS
<1>e. IF d = NoCall
      THEN UNCHANGED <<incoming_responses, caller, answer>>
      ELSE /\ caller' = [caller EXCEPT ![d] = IF @ = "waiting" THEN "answered" ELSE @]
           /\ answer' = [answer EXCEPT ![d] = IF caller[d] = "waiting" THEN m.data ELSE @]
  BY <1>1, <1>2, TakeResponseEffect
<1>3. CASE d = NoCall
  BY <1>0, <1>3, <1>e, UnnoticedStep
<1>4. CASE d # NoCall
  <2>1. d \in Call /\ Kind[d] = "request"
    BY <1>0, <1>1, <1>2, <1>4, EntryType DEF IInv, TablesOK, EntryOK
  <2>2. /\ caller' = [caller EXCEPT ![d] = IF @ = "waiting" THEN "answered" ELSE @]
        /\ answer' = [answer EXCEPT ![d] =
                        IF caller[d] = "waiting" THEN m.data ELSE @]
    BY <1>4, <1>e
  <2>3. /\ \A e \in Call : e # d => caller'[e] = caller[e] /\ answer'[e] = answer[e]
        /\ caller'[d] = IF caller[d] = "waiting" THEN "answered" ELSE caller[d]
        /\ answer'[d] = IF caller[d] = "waiting" THEN m.data ELSE answer[d]
    BY <1>0, <2>1, <2>2, CallerType
  <2>4. \A e \in Call : e # d => Phase(e)' = Phase(e)
    BY <2>3 DEF Phase, Misled
  <2>5. CASE caller[d] # "waiting"
    <3>1. \A e \in Call : Phase(e)' = Phase(e)
      BY <2>1, <2>3, <2>4, <2>5 DEF Phase, Misled
    <3>2. QED
      BY <1>0, <3>1, SameExecutions, Stutter
  <2>6. CASE caller[d] = "waiting" /\ m.data = d
    <3>1. Phase(d) = "made" /\ Phase(d)' = "answered"
      BY <2>3, <2>6 DEF Phase, Misled
    <3>2. Execution(d) = "finished"
      BY <1>1, <2>6 DEF MessageOK, Execution
    <3>3. Calls!Step(d, "made", "answered")
      BY <1>0, <2>1, <2>4, <3>1, SameExecutions, PhaseStep
    <3>4. QED
      BY <2>1, <3>2, <3>3 DEF Calls!Next, Calls!Answer
  <2>7. CASE caller[d] = "waiting" /\ m.data # d
    <3>1. Phase(d) = "made" /\ Phase(d)' = "lost"
      BY <2>3, <2>7 DEF Phase, Misled
    <3>2. Calls!Step(d, "made", "lost")
      BY <1>0, <2>1, <2>4, <3>1, SameExecutions, PhaseStep
    <3>3. QED
      BY <2>1, <3>2 DEF Calls!Next, Calls!Lose
  <2>8. QED
    BY <2>5, <2>6, <2>7
<1>5. QED
  BY <1>3, <1>4, Zenon

\* An item is delivered behind those before it.
LEMMA StreamMessageCalls ==
  ASSUME IInv, IInv', NEW p \in Peer, Service(TakeStreamMessage(p))
  PROVE  [Calls!Next]_(Calls!vars)
<1>0. /\ Take(p, "StreamMessage") /\ TypeOK /\ TypeOK'
      /\ UNCHANGED <<sending, caller, answer, handler, emitted>>
  BY Zenon DEF Service, TakeStreamMessage, IInv
<1>1. PICK m \in Message : m = Head(inbox[p]) /\ m.id \in Id /\ m.item \in Nat
                           /\ m.data \in Call
  BY <1>0, TakeFacts
<1>2. PICK d : d = incoming_streams[p][m.id]
  OBVIOUS
<1>3. CASE UNCHANGED received
  BY <1>0, <1>3, UnnoticedStep
<1>4. CASE received' # received
  <2>1. /\ d # NoCall /\ caller[d] = "open"
        /\ received' = [received EXCEPT ![d] =
                          Append(@, [data |-> m.data, item |-> m.item])]
    BY <1>1, <1>2, <1>4, ZenonT(60) DEF Service, TakeStreamMessage
  <2>2. d \in Call
    <3>1. incoming_streams \in [Peer -> [Id -> Call \union {NoCall}]]
      BY <1>0, TableTypes
    <3>2. QED
      BY <1>1, <1>2, <2>1, <3>1
  <2>3. received'[d] = Append(received[d], [data |-> m.data, item |-> m.item])
    BY <1>0, <2>1, <2>2 DEF TypeOK, ServiceTypeOK
  <2>4. /\ received[d] \in Seq([data : Call, item : Nat])
        /\ Len(received'[d]) = Len(received[d]) + 1
        /\ Len(received[d]) + 1 \in DOMAIN received'[d]
        /\ received'[d][Len(received[d]) + 1] = [data |-> m.data, item |-> m.item]
    <3>1. received[d] \in Seq([data : Call, item : Nat])
      BY <1>0, <2>2, ReceivedType
    <3>2. [data |-> m.data, item |-> m.item] \in [data : Call, item : Nat]
      BY <1>1
    <3>3. QED
      BY <2>3, <3>1, <3>2
  <2>5. /\ [data |-> m.data, item |-> m.item] = [data |-> d, item |-> Len(received[d]) + 1]
        /\ Len(received[d]) < emitted[d]
    <3>1. /\ Len(received'[d]) <= emitted'[d]
          /\ \A k \in DOMAIN received'[d] : received'[d][k] = [data |-> d, item |-> k]
      BY <2>2 DEF IInv, StreamsInOrder
    <3>2. emitted[d] \in Nat /\ Len(received[d]) \in Nat
      BY <1>0, <2>2, Types
    <3>3. QED
      BY <1>0, <2>4, <3>1, <3>2
  <2>6. Phase(d) = "made"
    BY <2>1 DEF Phase, Misled
  <2>7. \A e \in Call : Phase(e)' = Phase(e) /\ Execution(e)' = Execution(e)
    BY <1>0, SamePhases, SameExecutions
  <2>8. Calls!Deliver(d)
    BY <1>0, <2>1, <2>2, <2>5, <2>6, <2>7 DEF Calls!Deliver
  <2>9. QED
    BY <2>2, <2>8, Zenon DEF Calls!Next
<1>5. QED
  BY <1>3, <1>4, Zenon

\* A stream ends.
LEMMA CloseCalls ==
  ASSUME IInv, IInv', NEW p \in Peer, Service(TakeClose(p))
  PROVE  [Calls!Next]_(Calls!vars)
<1>0. /\ Take(p, "CloseStream") /\ TypeOK /\ TypeOK'
      /\ UNCHANGED <<sending, answer, received, handler, emitted>>
  BY TakeCloseEffect DEF IInv
<1>1. PICK m \in Message : m = Head(inbox[p]) /\ m.id \in Id
  BY <1>0, TakeFacts
<1>2. PICK d : d = incoming_streams[p][m.id]
  OBVIOUS
<1>3. CASE UNCHANGED caller
  BY <1>0, <1>3, UnnoticedStep
<1>4. CASE caller' # caller
  <2>1. /\ d # NoCall
        /\ caller' = [caller EXCEPT ![d] = IF @ = "open" THEN "ended" ELSE @]
    BY <1>1, <1>2, <1>4, TakeCloseEffect
  <2>2. d \in Call /\ Kind[d] = "stream"
    <3>1. d \in Call
      <4>1. incoming_streams \in [Peer -> [Id -> Call \union {NoCall}]]
        BY <1>0, TableTypes
      <4>2. QED
        BY <1>1, <1>2, <2>1, <4>1
    <3>2. EntryOK(p, m.id, d, "stream")
      BY <1>1, <1>2 DEF IInv, TablesOK
    <3>3. QED
      BY <2>1, <3>1, <3>2 DEF EntryOK
  <2>3. caller \in [Call -> {"idle", "waiting", "answered", "cancelled", "panicked",
                             "open", "ended", "cut", "dropped", "sent"}]
    BY <1>0, CallerType
  <2>4. caller[d] = "open"
    BY <1>4, <2>1, <2>2, <2>3
  <2>5. caller'[d] = "ended" /\ \A e \in Call : e # d => caller'[e] = caller[e]
    BY <2>1, <2>2, <2>3, <2>4
  <2>6. \A e \in Call : e # d => Phase(e)' = Phase(e)
    BY <1>0, <2>5 DEF Phase, Misled
  <2>7. Phase(d) = "made" /\ Phase(d)' = "ended"
    BY <2>4, <2>5 DEF Phase, Misled
  <2>8. Execution(d) = "finished" /\ Len(received[d]) = emitted[d]
    <3>1. HandlerOK(d)' /\ Len(received'[d]) = emitted'[d]
      BY <2>2, <2>5 DEF IInv, CallsOK, StreamsInOrder
    <3>2. handler'[d] = "closed"
      BY <2>5, <3>1 DEF HandlerOK
    <3>3. QED
      BY <1>0, <3>1, <3>2 DEF Execution
  <2>9. Calls!Step(d, "made", "ended")
    BY <1>0, <2>2, <2>6, <2>7, SameExecutions, PhaseStep
  <2>10. QED
    BY <2>2, <2>8, <2>9, Zenon DEF Calls!Next, Calls!End
<1>5. QED
  BY <1>3, <1>4

\* A handler is started, for the first time.
LEMMA ServeCalls ==
  ASSUME IInv, TypeOK', NEW p \in Peer,
         ServeRequest(p) \/ ServeStream(p) \/ ServeOneshot(p) \/ HandleInline(p)
  PROVE  Calls!Next
<1>0. PICK kind \in {"Request", "OpenStream", "Oneshot"} : Take(p, kind)
  BY DEF ServeRequest, ServeStream, ServeOneshot, HandleInline
<1>1. /\ UNCHANGED <<sending, caller, answer, received, emitted>> /\ TypeOK
  BY DEF ServeRequest, ServeStream, ServeOneshot, HandleInline, callerVars, IInv
<1>2. PICK m \in Message :
        /\ m = Head(inbox[p]) /\ m.kind = kind
        /\ MessageOK(Other(p), m) /\ m.data \in Call
  BY <1>0, <1>1, TakeFacts
<1>3. PICK c \in Call : c = m.data
  BY <1>2
<1>4. handler' \in {[handler EXCEPT ![c] = "running"], [handler EXCEPT ![c] = "called"]}
  BY <1>2, <1>3 DEF ServeRequest, ServeStream, ServeOneshot, HandleInline
<1>5. handler[c] = "none" /\ Pending(c)
  BY <1>2, <1>3 DEF MessageOK
<1>6. /\ handler'[c] \in {"running", "called"}
      /\ \A e \in Call : e # c => handler'[e] = handler[e]
  BY <1>1, <1>4 DEF TypeOK, ServiceTypeOK
<1>7. /\ Execution(c) = "none" /\ Execution(c)' = "running"
      /\ \A e \in Call : e # c => Execution(e)' = Execution(e)
  BY <1>5, <1>6 DEF Execution
<1>8. Phase(c) # "idle"
  BY <1>5 DEF Phase, Pending, Misled
<1>9. Calls!Execute(c)
  BY <1>1, <1>7, <1>8, SamePhases, ExecutionStep
<1>10. QED
  BY <1>9 DEF Calls!Next

\* A handler goes on or stops.
LEMMA HandlerCalls ==
  ASSUME IInv, NEW c \in Call, EndHandler(c) \/ EmitItem(c)
  PROVE  [Calls!Next]_(Calls!vars)
<1>0. /\ UNCHANGED <<caller, answer, received>> /\ TypeOK
      /\ \A d \in Call : Phase(d)' = Phase(d)
  BY SamePhases DEF EndHandler, FinishHandler, FailHandler, ReturnInline, FailInline,
                    EmitItem, callerVars, IInv
<1>1. /\ handler[c] \in {"called", "running"} /\ Execution(c) = "running"
      /\ handler \in [Call -> {"none", "called", "running", "finished",
                               "failed", "panicked", "closed"}]
      /\ emitted \in [Call -> Nat]
  BY <1>0 DEF EndHandler, FinishHandler, FailHandler, ReturnInline, FailInline, EmitItem,
              Execution, TypeOK
<1>2. CASE UNCHANGED emitted /\ \E state \in {"running", "finished", "failed", "panicked"} :
             handler' = [handler EXCEPT ![c] = state]
  <2>1. /\ handler'[c] \in {"running", "finished", "failed", "panicked"}
        /\ \A e \in Call : e # c => handler'[e] = handler[e]
    BY <1>1, <1>2
  <2>2. \A e \in Call : e # c => Execution(e)' = Execution(e)
    BY <2>1 DEF Execution
  <2>3. Execution(c)' \in {"running", "finished", "failed"}
    BY <2>1 DEF Execution
  <2>4. CASE Execution(c)' = "running"
    BY <1>0, <1>1, <1>2, <2>2, <2>4, Stutter
  <2>5. CASE Execution(c)' # "running"
    <3>1. Calls!Stop(c)
      BY <1>0, <1>1, <1>2, <2>2, <2>3, <2>5, ExecutionStep
    <3>2. QED
      BY <3>1 DEF Calls!Next
  <2>6. QED
    BY <2>4, <2>5
<1>3. CASE /\ UNCHANGED handler /\ Kind[c] = "stream"
           /\ emitted' = [emitted EXCEPT ![c] = @ + 1]
  <2>1. \A d \in Call : Execution(d)' = Execution(d)
    BY <1>3, SameExecutions
  <2>2. Calls!Emit(c)
    BY <1>0, <1>1, <1>3, <2>1 DEF Calls!Emit
  <2>3. QED
    BY <2>2 DEF Calls!Next
<1>4. QED
  <2>1. CASE FinishHandler(c) \/ FailHandler(c)
    BY <1>2, <2>1 DEF FinishHandler, FailHandler
  <2>2. CASE ReturnInline(c)
    BY <1>2, <2>2 DEF ReturnInline
  <2>3. CASE FailInline(c)
    BY <1>2, <2>3 DEF FailInline
  <2>4. CASE EmitItem(c)
    BY <1>2, <1>3, <2>4 DEF EmitItem
  <2>5. QED
    BY <2>1, <2>2, <2>3, <2>4 DEF EndHandler

\* Of the handlers of a service that is dropped one at most stops.
LEMMA StopCalls ==
  ASSUME IInv, NEW p \in Peer, StopService(p)
  PROVE  [Calls!Next]_(Calls!vars)
<1>1. /\ UNCHANGED <<caller, answer, received, emitted>>
      /\ \A e \in Call : handler'[e] = IF Server(e) = p /\ handler[e] = "called"
                                       THEN "failed" ELSE handler[e]
      /\ \A d \in Call : Phase(d)' = Phase(d)
  BY SamePhases DEF StopService, callerVars
<1>2. CASE \A c \in Call : ~ (Server(c) = p /\ handler[c] = "called")
  <2>1. \A d \in Call : Execution(d)' = Execution(d)
    BY <1>1, <1>2 DEF Execution
  <2>2. QED
    BY <1>1, <2>1, Stutter
<1>3. ASSUME NEW c \in Call, Server(c) = p, handler[c] = "called"
      PROVE  Calls!Next
  <2>1. \A d \in Call : Server(d) = p /\ handler[d] = "called" => d = c
    BY <1>3 DEF IInv, CalledOK
  <2>2. \A d \in Call : d # c => handler'[d] = handler[d]
    BY <1>1, <2>1
  <2>3. \A d \in Call : d # c => Execution(d)' = Execution(d)
    BY <2>2 DEF Execution
  <2>4. Execution(c) = "running" /\ Execution(c)' = "failed"
    BY <1>1, <1>3 DEF Execution
  <2>5. Calls!Stop(c)
    BY <1>1, <2>3, <2>4, ExecutionStep
  <2>6. QED
    BY <2>5 DEF Calls!Next
<1>4. QED
  BY <1>2, <1>3

\* That a stream is closed is seen when its caller reads it.
LEMMA CloseSendCalls ==
  ASSUME IInv, NEW p \in Peer, NEW c \in Call, CloseStream(p, c)
  PROVE  UNCHANGED Calls!vars
<1>1. /\ UNCHANGED <<caller, answer, received, emitted>> /\ handler[c] = "finished"
      /\ handler' = [handler EXCEPT ![c] = "closed"]
  BY DEF CloseStream, callerVars
<1>2. handler'[c] = "closed" /\ \A e \in Call : e # c => handler'[e] = handler[e]
  BY <1>1 DEF IInv, TypeOK
<1>3. \A d \in Call : Execution(d)' = Execution(d)
  BY <1>1, <1>2 DEF Execution
<1>4. QED
  BY <1>1, <1>3, SamePhases, Stutter

\* Each step of the system is a step of CallService, or one it does not see.
LEMMA CallsStep == IInv /\ IInv' /\ [Next]_vars => [Calls!Next]_(Calls!vars)
<1> SUFFICES ASSUME IInv, IInv', [Next]_vars
             PROVE  [Calls!Next]_(Calls!vars)
  OBVIOUS
<1>1. TypeOK'
  BY DEF IInv
<1>2. CASE UNCHANGED <<caller, answer, received, handler, emitted>>
  BY <1>2, UnnoticedStep
<1>3. ASSUME NEW c \in Call, NEW i \in Id, NEW state \in {"waiting", "open", "sent"},
             Begin(c, i, state)
      PROVE  Calls!Next
  <2>1. Calls!Make(c) \/ Calls!Lose(c)
    BY <1>3, CallerCalls DEF Begin
  <2>2. QED
    BY <2>1 DEF Calls!Next
<1>4. ASSUME NEW c \in Call,
             CancelCall(c) \/ DropStream(c) \/ CallPanics(c) \/ StreamCut(c)
      PROVE  Calls!Next
  <2>1. /\ UNCHANGED <<answer, received, handler, emitted>>
        /\ caller[c] \in {"waiting", "open"}
        /\ \E state \in {"cancelled", "panicked", "dropped", "cut"} :
             caller' = [caller EXCEPT ![c] = state]
    BY <1>4 DEF CancelCall, DropStream, CallPanics, StreamCut
  <2>2. Calls!Make(c) \/ Calls!Lose(c)
    BY <2>1, CallerCalls
  <2>3. QED
    BY <2>2 DEF Calls!Next
<1>5. CASE Application
  <2>1. ASSUME NEW c \in Call, NEW i \in Id, send_request(c, i) \/ send_stream(c, i)
        PROVE  Calls!Next
    BY <1>3, <2>1 DEF send_request, send_stream
  <2>2. ASSUME NEW c \in Call, send_oneshot(c)
        PROVE  Calls!Next
    <3>1. call_id[c] \in Id
      BY Types DEF IInv
    <3>2. QED
      BY <1>3, <2>2, <3>1 DEF send_oneshot
  <2>3. ASSUME NEW p \in Peer, DropHandle(p)
        PROVE  UNCHANGED Calls!vars
    BY <2>3, UnnoticedStep DEF DropHandle, callerVars
  <2>4. QED
    BY <1>4, <1>5, <2>1, <2>2, <2>3, StopCalls DEF Application
<1>6. ASSUME NEW p \in Peer, Receive(p)
      PROVE  [Calls!Next]_(Calls!vars)
  BY <1>1, <1>6, ResponseCalls, StreamMessageCalls, CloseCalls, ServeCalls DEF Receive
<1>7. ASSUME NEW p \in Peer, EndSend(p) \/ Service(TakeEnd(p)) \/ Service(SendInteraction(p))
      PROVE  UNCHANGED Calls!vars
  BY <1>7, UnnoticedStep
     DEF EndSend, Service, FinishSend, FailSend, TakeEnd, SendInteraction, callerVars
<1>8. ASSUME NEW p \in Peer, NEW c \in Call,
             Service(SendItem(p, c)) \/ Service(SendResponse(p, c)) \/ CloseStream(p, c)
      PROVE  UNCHANGED Calls!vars
  BY <1>8, UnnoticedStep, CloseSendCalls DEF Service, SendItem, SendResponse, callerVars
<1>9. CASE UNCHANGED vars
  BY <1>2, <1>9 DEF vars, serviceVars, callerVars
<1>10. QED
  BY <1>4, <1>5, <1>6, <1>7, <1>8, <1>9, HandlerCalls DEF Next

(***************************************************************************)
(* The two services keep the promise of CallService: a call is handled at  *)
(* most once, answered at most once and by its own handler, and a stream   *)
(* arrives as it was emitted.                                              *)
(***************************************************************************)
THEOREM Implementation == SafeSpec => ImplementsCallService
<1>1. SafeSpec => []IInv
  BY Invariance
<1>2. QED
  BY <1>1, CallsInit, CallsStep, PTL DEF SafeSpec, ImplementsCallService, Calls!Spec

-----------------------------------------------------------------------------
(* Nobody who waits is stuck.                                              *)

\* A message that a live service finds first can be taken: the stream an item
\* belongs to is not one that ended.
LEMMA FrontCanBeTaken ==
  ASSUME IInv, EndedOK, NEW p \in Peer, Alive(p), inbox[p] # <<>>
  PROVE  CanTake(p)
<1>1. inbox[p] \in Seq(Message)
  BY DEF IInv, TypeOK, ServiceTypeOK
<1>2. PICK m \in Message : m = Head(inbox[p])
  BY <1>1
<1>3. m.id \in Id
  BY DEF Message
<1>4. PICK c \in Call \union {NoCall} : c = incoming_streams[p][m.id]
  BY <1>3 DEF IInv, TypeOK, ServiceTypeOK
<1>5. ASSUME c # NoCall
      PROVE  caller[c] \in {"open", "dropped"}
  <2>1. /\ c \in Call /\ Owner[c] = p /\ Kind[c] = "stream" /\ call_id[c] = m.id
        /\ caller[c] # "idle"
    BY <1>3, <1>4, <1>5 DEF IInv, TablesOK, EntryOK
  <2>2. caller[c] \in {"idle", "open", "ended", "cut", "dropped"}
    BY <2>1 DEF IInv, CallsOK, CallerOK
  <2>3. caller[c] # "cut"
    BY <2>1 DEF IInv, GoneOK
  <2>4. caller[c] # "ended"
    BY <1>4, <2>1 DEF EndedOK, Entered
  <2>5. QED
    BY <2>1, <2>2, <2>3, <2>4
<1>6. QED
  BY <1>2, <1>4, <1>5 DEF CanTake

\* A service that awaits a handler is not all there is.
LEMMA HandlerCanReturn ==
  ASSUME HandleOK, NEW p \in Peer, loop[p] = "handle"
  PROVE  CanGoOn
BY DEF HandleOK, CanGoOn

\* A service that sends and cannot go on finds the connection full, and the
\* other service neither reads nor awaits a handler.
LEMMA SenderNotStuck ==
  ASSUME IInv, ProgressInv, NEW p \in Peer, loop[p] = "send", ~ CanGoOn
  PROVE  MutualWait \/ Starved(Other(p))
<1>1. /\ Other(p) \in Peer /\ Other(Other(p)) = p /\ \A q \in Peer : q = p \/ q = Other(p)
      /\ ~ CanEndSend(p) /\ ~ CanEndSend(Other(p)) /\ ~ CanSelect(Other(p))
  BY PeerFact DEF CanGoOn
<1>2. \A q \in Peer : Len(inbox[q]) \in Nat /\ Len(inbox[q]) <= ChannelSize
  BY DEF IInv, TypeOK, ServiceTypeOK
<1>3. Alive(Other(p)) /\ Len(inbox[Other(p)]) = ChannelSize
  BY <1>1, <1>2, ServiceAssumption DEF CanEndSend
<1>4. loop[Other(p)] # "handle"
  BY <1>1, HandlerCanReturn DEF ProgressInv
<1>5. CASE loop[Other(p)] = "send"
  <2>1. Len(inbox[p]) = ChannelSize
    BY <1>1, <1>2, <1>5, ServiceAssumption DEF CanEndSend
  <2>2. QED
    BY <1>1, <1>3, <1>5, <2>1 DEF MutualWait
<1>6. CASE loop[Other(p)] = "select"
  <2>1. inbox[Other(p)] # <<>>
    BY <1>3, ServiceAssumption
  <2>2. CanTake(Other(p))
    BY <1>1, <1>3, <2>1, FrontCanBeTaken DEF ProgressInv
  <2>3. QED
    BY <1>1, <1>6, <2>2 DEF CanSelect
<1>7. QED
  BY <1>3, <1>4, <1>5, <1>6 DEF Alive

\* A service that selects, cannot go on and does not spin has nothing to do: the
\* other lives, sent it nothing, and neither its application nor a handler did.
LEMMA IdleSelect ==
  ASSUME IInv, ProgressInv, NEW p \in Peer, loop[p] = "select", ~ Starved(p), ~ CanGoOn
  PROVE  /\ inbox[p] = <<>> /\ interaction[p] = <<>> /\ Alive(Other(p))
         /\ \A c \in Call : Owner[c] # p =>
              /\ outgoing_stream[c] = <<>>
              /\ outgoing_responses[c] \notin {"ready", "cancelled"}
<1>1. ~ CanSelect(p) /\ Alive(p)
  BY DEF CanGoOn, Alive
<1>2. ~ CanTake(p)
  BY <1>1 DEF CanSelect
<1>3. inbox[p] = <<>>
  BY <1>1, <1>2, FrontCanBeTaken DEF ProgressInv
<1>4. QED
  BY <1>1, <1>3 DEF CanSelect

\* When the service of a caller selects and cannot go on, the one that is to
\* answer does too, and nothing is on the way between them.
LEMMA BothIdle ==
  ASSUME IInv, ProgressInv, NEW p \in Peer, loop[p] = "select", ~ Starved(p),
         ~ Starved(Other(p)), ~ CanGoOn
  PROVE  /\ \A q \in Peer : /\ loop[q] = "select" /\ Alive(q)
                            /\ interaction[q] = <<>> /\ Sent(q) = <<>>
         /\ \A c \in Call : /\ outgoing_stream[c] = <<>>
                            /\ outgoing_responses[c] \notin {"ready", "cancelled"}
<1>1. /\ Other(p) \in Peer /\ Other(Other(p)) = p /\ \A q \in Peer : q = p \/ q = Other(p)
      /\ Other(p) # p
  BY PeerFact
<1>2. /\ inbox[p] = <<>> /\ interaction[p] = <<>> /\ Alive(Other(p))
      /\ \A c \in Call : Owner[c] # p =>
           /\ outgoing_stream[c] = <<>>
           /\ outgoing_responses[c] \notin {"ready", "cancelled"}
  BY IdleSelect
<1>3. loop[Other(p)] = "select"
  <2>1. loop[Other(p)] # "handle"
    BY <1>1, HandlerCanReturn DEF ProgressInv
  <2>2. ASSUME loop[Other(p)] = "send" PROVE FALSE
    <3>1. Len(inbox[p]) < ChannelSize
      BY <1>2, ServiceAssumption
    <3>2. CanEndSend(Other(p))
      BY <1>1, <2>2, <3>1 DEF CanEndSend
    <3>3. QED
      BY <1>1, <3>2 DEF CanGoOn
  <2>3. QED
    BY <1>2, <2>1, <2>2 DEF Alive
<1>4. /\ inbox[Other(p)] = <<>> /\ interaction[Other(p)] = <<>>
      /\ \A c \in Call : Owner[c] # Other(p) =>
           /\ outgoing_stream[c] = <<>>
           /\ outgoing_responses[c] \notin {"ready", "cancelled"}
  <2>1. Other(p) \in Peer /\ ~ Starved(Other(p))
    BY <1>1
  <2>2. QED
    BY <1>3, <2>1, IdleSelect
<1>5. \A q \in Peer : sending[q] = <<>> /\ inbox[q] = <<>> /\ loop[q] = "select"
  BY <1>1, <1>2, <1>3, <1>4, Zenon DEF IInv, TypeOK, ServiceTypeOK
<1>6. \A q \in Peer : Sent(q) = <<>> /\ Alive(q) /\ interaction[q] = <<>>
  <2>1. <<>> \o <<>> = <<>>
    OBVIOUS
  <2>2. QED
    BY <1>1, <1>2, <1>4, <1>5, <2>1, Zenon DEF Sent, Alive
<1>7. QED
  BY <1>1, <1>2, <1>4, <1>5, <1>6

\* Nothing is among no messages.
LEMMA NothingCarried ==
  ASSUME NEW p \in Peer, Sent(p) = <<>>
  PROVE  Range(Sent(p)) = {}
BY DEF Range

\* What a call that waits waits for can happen.
LEMMA WaiterNotStuck ==
  ASSUME IInv, ProgressInv, NEW c \in Call, caller[c] = "waiting", ~ CanGoOn
  PROVE  MutualWait \/ Starved(Server(c))
<1>1. /\ Owner[c] \in Peer /\ Server(c) \in Peer /\ Owner[c] # Server(c)
      /\ Server(c) = Other(Owner[c])
  BY ServerFact DEF Server
<1>2. SenderExists(c)
  BY DEF CanGoOn
<1>3. loop[Owner[c]] \in {"select", "send"}
  BY <1>1, <1>2, HandlerCanReturn DEF SenderExists, Alive, ProgressInv
<1>4. CASE loop[Owner[c]] = "send"
  BY <1>1, <1>4, SenderNotStuck
<1>5. ASSUME loop[Owner[c]] = "select", ~ Starved(Server(c))
      PROVE  FALSE
  <2>1. ~ Starved(Owner[c])
    BY DEF Starved, Spinning, ProgressInv, HeldOK
  <2>2. /\ \A q \in Peer : /\ loop[q] = "select" /\ Alive(q)
                           /\ interaction[q] = <<>> /\ Sent(q) = <<>>
        /\ outgoing_responses[c] \notin {"ready", "cancelled"}
    BY <1>1, <1>5, <2>1, BothIdle
  <2>3. NotLost(c)
    BY <2>2 DEF ProgressInv, NoCallLost
  <2>4. \A kind : \A q \in Peer : ~ Carries(q, kind, c)
    BY <2>2, NothingCarried, Zenon DEF Carries
  <2>5. ~ InQueue(c)
    BY <1>1, <2>2 DEF InQueue
  <2>6. handler[c] \notin {"none", "finished", "failed", "panicked"}
    BY <1>1, <2>2, <2>3, <2>4, <2>5 DEF NotLost, OnTheWay
  <2>7. handler[c] # "called"
    BY <1>1, <2>2 DEF IInv, CalledOK
  <2>8. handler[c] # "running"
    BY <1>5 DEF CanGoOn
  <2>9. handler[c] # "closed"
    BY DEF IInv, CallsOK, CallerOK, HandlerOK
  <2>10. QED
    BY <2>6, <2>7, <2>8, <2>9 DEF IInv, TypeOK
<1>6. QED
  BY <1>3, <1>4, <1>5

\* An item that a stream which is read lacks can arrive.
LEMMA ReaderNotStuck ==
  ASSUME IInv, ProgressInv, NEW c \in Call, caller[c] = "open",
         Len(received[c]) < emitted[c], ~ CanGoOn
  PROVE  MutualWait \/ \E p \in Peer : Starved(p)
<1>1. /\ Owner[c] \in Peer /\ Server(c) \in Peer /\ Server(c) = Other(Owner[c])
  BY ServerFact DEF Server
<1>2. SenderExists(c)
  BY DEF CanGoOn
<1>3. loop[Owner[c]] \in {"select", "send"} /\ Alive(Owner[c])
  BY <1>1, <1>2, HandlerCanReturn DEF SenderExists, Alive, ProgressInv
<1>4. CASE loop[Owner[c]] = "send"
  BY <1>1, <1>4, SenderNotStuck
<1>5. ASSUME loop[Owner[c]] = "select", \A p \in Peer : ~ Starved(p)
      PROVE  FALSE
  <2>1. /\ Sent(Server(c)) = <<>> /\ Alive(Server(c)) /\ outgoing_stream[c] = <<>>
    BY <1>1, <1>5, BothIdle
  <2>2. AllOnTheWay(c)
    BY <1>3, <2>1 DEF IInv, ItemsOK
  <2>3. Len(received[c]) = ItemsSent(c)
    BY <1>1, <2>1, <2>2, NothingCarried DEF AllOnTheWay
  <2>4. emitted[c] \in Nat /\ Len(received[c]) \in Nat
    BY Types DEF IInv
  <2>5. ItemsSent(c) = emitted[c]
    BY <2>1, <2>4 DEF ItemsSent
  <2>6. QED
    BY <2>3, <2>4, <2>5
<1>6. QED
  BY <1>3, <1>4, <1>5

-----------------------------------------------------------------------------
(* The invariant of progress is inductive, given IInv.                     *)

\* Every loop that awaits a handler did, and its handler is still called.
LEMMA FrameHandle ==
  ASSUME HandleOK, \A p \in Peer : loop'[p] = "handle" => loop[p] = "handle",
         \A c \in Call : handler[c] = "called" => handler'[c] = "called"
  PROVE  HandleOK'
<1> SUFFICES ASSUME NEW p \in Peer, loop'[p] = "handle"
             PROVE  \E c \in Call : handler'[c] = "called" /\ Server(c) = p
  BY DEF HandleOK, Server
<1>1. QED
  BY DEF HandleOK

\* No stream ends, and none is entered that ended.
LEMMA FrameEnded ==
  ASSUME EndedOK,
         \A c \in Call : caller'[c] = "ended" =>
           caller[c] = "ended" /\ (Entered(c)' => Entered(c))
  PROVE  EndedOK'
BY DEF EndedOK

\* No call starts to wait, and no handle is dropped.
LEMMA FrameHeld ==
  ASSUME HeldOK, UNCHANGED handle,
         \A c \in Call : caller'[c] = "waiting" => caller[c] = "waiting"
  PROVE  HeldOK'
BY DEF HeldOK

\* A call is as it was, and what carries it is still there.
LEMMA FrameLost ==
  ASSUME NoCallLost, \A p \in Peer : Alive(p), NEW c \in Call, caller[c] # "idle",
         handler'[c] = handler[c], outgoing_responses'[c] = outgoing_responses[c],
         caller'[c] = "waiting" => caller[c] = "waiting",
         InQueue(c) => InQueue(c)',
         \A kind \in {"Request", "OpenStream", "Oneshot"} :
           Carries(Owner[c], kind, c) => Carries(Owner[c], kind, c)',
         Carries(Server(c), "Response", c) => Carries(Server(c), "Response", c)'
  PROVE  NotLost(c)'
<1>1. NotLost(c)
  BY DEF NoCallLost
<1>2. handler'[c] = "none" => OnTheWay(c)'
  BY <1>1 DEF NotLost, OnTheWay
<1>3. caller'[c] = "waiting" /\ handler'[c] = "finished" =>
        outgoing_responses'[c] = "ready" \/ Carries(Server(c), "Response", c)'
  BY <1>1 DEF NotLost
<1>4. caller'[c] = "waiting" /\ handler'[c] = "failed" => outgoing_responses'[c] = "cancelled"
  BY <1>1 DEF NotLost
<1>5. handler'[c] # "panicked"
  BY <1>1 DEF NotLost
<1>6. QED
  BY <1>2, <1>3, <1>4, <1>5 DEF NotLost

\* What is in flight carries what it carried.
LEMMA CarriesMore ==
  ASSUME NEW p \in Peer, NEW kind, NEW c, Carries(p, kind, c),
         \A n \in Range(Sent(p)) : n \in Range(Sent(p))'
  PROVE  Carries(p, kind, c)'
BY DEF Carries

\* All that is in flight stays, but for the message that is taken.
LEMMA TakenRange ==
  ASSUME SentOK, SentOK', NEW p \in Peer, NEW m \in Message, Taken(p, m), NEW q \in Peer,
         NEW n \in Range(Sent(q)), n # m \/ q = p
  PROVE  n \in Range(Sent(q))'
<1>1. CASE q = p
  BY <1>1 DEF Taken
<1>2. CASE q = Other(p) /\ n # m
  <2>1. Sent(q) \in Seq(Message) /\ Sent(q)' \in Seq(Message)
    BY DEF SentOK
  <2>2. PICK j \in 1 .. Len(Sent(q)) : Sent(q)[j] = n
    BY <2>1, SeqRange
  <2>3. j # 1 /\ Len(Sent(q)') = Len(Sent(q)) - 1
    BY <1>2, <2>2 DEF Taken
  <2>4. j - 1 \in 1 .. Len(Sent(q)') /\ j - 1 + 1 = j
    BY <2>1, <2>2, <2>3
  <2>5. Sent(q)'[j - 1] = n
    BY <1>2, <2>2, <2>4 DEF Taken
  <2>6. QED
    BY <2>1, <2>4, <2>5, SeqRange
<1>3. QED
  BY <1>1, <1>2, PeerFact

\* A step that moves no call leaves what is to come as it was.
LEMMA QuietProgress ==
  ASSUME ProgressInv, HeldOK', EmittedOK', FewerAlive,
         UNCHANGED <<interaction, incoming_streams, call_id, outgoing_responses, handler>>,
         \A c \in Call :
           /\ caller'[c] \in {"waiting", "ended"} => caller'[c] = caller[c]
           /\ caller'[c] # "idle" => caller[c] # "idle",
         \A p \in Peer : loop'[p] = "handle" => loop[p] = "handle",
         (\A p \in Peer : Alive(p)') =>
            \A p \in Peer : \A n \in Range(Sent(p)) :
               n.kind \in {"Request", "OpenStream", "Oneshot", "Response"} =>
                 n \in Range(Sent(p))'
  PROVE  ProgressInv'
<1>1. HandleOK'
  BY FrameHandle DEF ProgressInv
<1>2. EndedOK'
  BY FrameEnded DEF ProgressInv, Entered
<1>3. NoCallLost'
  <2> SUFFICES ASSUME NEW c \in Call, caller'[c] # "idle", \A p \in Peer : Alive(p)'
               PROVE  NotLost(c)'
    BY DEF NoCallLost
  <2>1. ASSUME NEW p \in Peer, NEW kind \in {"Request", "OpenStream", "Oneshot", "Response"},
               Carries(p, kind, c)
        PROVE  Carries(p, kind, c)'
    BY <2>1 DEF Carries
  <2>2. QED
    BY <2>1, FrameLost, ServerFact DEF ProgressInv, FewerAlive, InQueue
<1>4. QED
  BY <1>1, <1>2, <1>3 DEF ProgressInv

\* The handle goes only while no request borrows it.
LEMMA DropHandleProgress ==
  ASSUME IInv, ProgressInv,
         UNCHANGED vars \/ \E p \in Peer : DropHandle(p)
  PROVE  ProgressInv'
<1>1. UNCHANGED <<inbox, loop, sending, interaction, incoming_streams, outgoing_responses,
                  caller, call_id, handler, emitted>>
  BY DEF vars, serviceVars, loopVars, handleVars, tableVars, outVars, callerVars, DropHandle
<1>2. HeldOK'
  <2>1. CASE UNCHANGED handle
    BY <1>1, <2>1, FrameHeld DEF ProgressInv
  <2>2. CASE \E p \in Peer : DropHandle(p)
    BY <1>1, <2>2 DEF DropHandle, HandleFree, ProgressInv, HeldOK, IInv, TypeOK,
                      ServiceTypeOK
  <2>3. QED
    BY <2>1, <2>2 DEF vars, serviceVars, handleVars
<1>3. EmittedOK'
  BY <1>1 DEF ProgressInv, EmittedOK
<1>4. FewerAlive /\ \A p \in Peer : Sent(p)' = Sent(p)
  BY <1>1, SentSame DEF FewerAlive, Alive
<1>5. QED
  BY <1>1, <1>2, <1>3, <1>4, QuietProgress

\* A caller gives up, or notices that its service is gone.
LEMMA CallerProgress ==
  ASSUME IInv, ProgressInv, NEW c \in Call,
         CancelCall(c) \/ DropStream(c) \/ CallPanics(c) \/ StreamCut(c)
  PROVE  ProgressInv'
<1>1. /\ UNCHANGED <<inbox, loop, sending, interaction, handle, incoming_streams,
                     outgoing_responses, call_id, handler, emitted>>
      /\ caller[c] # "idle"
      /\ \E state \in {"cancelled", "dropped", "panicked", "cut"} :
           caller' = [caller EXCEPT ![c] = state]
  BY DEF CancelCall, DropStream, CallPanics, StreamCut, loopVars, handleVars, tableVars,
         outVars
<1>2. \A d \in Call :
        /\ caller'[d] \in {"waiting", "ended"} => caller'[d] = caller[d]
        /\ caller'[d] # "idle" => caller[d] # "idle"
  BY <1>1 DEF IInv, TypeOK, ServiceTypeOK
<1>3. HeldOK' /\ EmittedOK'
  BY <1>1, <1>2, FrameHeld DEF ProgressInv, EmittedOK
<1>4. FewerAlive /\ \A p \in Peer : Sent(p)' = Sent(p)
  BY <1>1, SentSame DEF FewerAlive, Alive
<1>5. QED
  BY <1>1, <1>2, <1>3, <1>4, QuietProgress

\* A call that is made is in the handle's channel.
LEMMA BeginProgress ==
  ASSUME IInv, ProgressInv, NEW c \in Call, NEW i \in Id,
         NEW state \in {"waiting", "open", "sent"}, Begin(c, i, state)
  PROVE  ProgressInv'
<1>1. /\ UNCHANGED <<inbox, loop, sending, handle, incoming_streams, outgoing_responses,
                     handler, emitted>>
      /\ caller[c] = "idle" /\ handle[Owner[c]] = "held"
  BY DEF Begin, loopVars, tableVars, outVars
<1>2. /\ caller'[c] = state
      /\ \A d \in Call : d # c => caller'[d] = caller[d] /\ call_id'[d] = call_id[d]
  BY DEF Begin, IInv, TypeOK, ServiceTypeOK
<1>3. /\ \A p \in Peer : interaction[p] \in Seq(Call)
      /\ Owner[c] \in Peer
      /\ \A p \in Peer : interaction'[p] \in {interaction[p], Append(interaction[p], c)}
      /\ Alive(Owner[c]) => interaction'[Owner[c]] = Append(interaction[Owner[c]], c)
  BY Types, ServerFact DEF Begin, Interact, IInv, TypeOK, ServiceTypeOK
<1>4. HandleOK' /\ HeldOK' /\ EmittedOK'
  BY <1>1, <1>2, FrameHandle DEF ProgressInv, HeldOK, EmittedOK
<1>5. EndedOK'
  BY <1>1, <1>2, FrameEnded DEF ProgressInv, Entered
<1>6. NoCallLost'
  <2> SUFFICES ASSUME NEW d \in Call, caller'[d] # "idle", \A p \in Peer : Alive(p)'
               PROVE  NotLost(d)'
    BY DEF NoCallLost
  <2>1. \A p \in Peer : Alive(p) /\ Sent(p)' = Sent(p)
    BY <1>1, SentSame DEF Alive
  <2>2. CASE d = c
    <3>1. /\ interaction'[Owner[c]] = Append(interaction[Owner[c]], c)
          /\ interaction[Owner[c]] \in Seq(Call)
      BY <1>3, <2>1
    <3>2. /\ Len(interaction[Owner[c]]) + 1 \in DOMAIN Append(interaction[Owner[c]], c)
          /\ Append(interaction[Owner[c]], c)[Len(interaction[Owner[c]]) + 1] = c
      BY <3>1
    <3>3. InQueue(c)'
      BY <3>1, <3>2 DEF InQueue
    <3>4. handler'[c] = "none"
      BY <1>1, IdleFact
    <3>5. QED
      BY <2>2, <3>3, <3>4 DEF NotLost, OnTheWay
  <2>3. CASE d # c
    <3>1. InQueue(d) => InQueue(d)'
      <4>1. /\ Owner[d] \in Peer /\ interaction[Owner[d]] \in Seq(Call)
            /\ interaction'[Owner[d]] \in
                 {interaction[Owner[d]], Append(interaction[Owner[d]], c)}
        BY <1>3, ServerFact
      <4>2. \A k \in DOMAIN interaction[Owner[d]] :
              /\ k \in DOMAIN Append(interaction[Owner[d]], c)
              /\ Append(interaction[Owner[d]], c)[k] = interaction[Owner[d]][k]
        BY <4>1
      <4>3. QED
        BY <4>1, <4>2 DEF InQueue
    <3>2. \A kind : \A p \in Peer : Carries(p, kind, d) => Carries(p, kind, d)'
      BY <2>1 DEF Carries
    <3>3. QED
      BY <1>1, <1>2, <2>1, <2>3, <3>1, <3>2, FrameLost, ServerFact DEF ProgressInv
  <2>4. QED
    BY <2>2, <2>3
<1>7. QED
  BY <1>4, <1>5, <1>6 DEF ProgressInv

\* A service that is gone takes the handler it awaits with it.
LEMMA GoneProgress ==
  ASSUME IInv, ProgressInv, NEW p \in Peer,
         UNCHANGED <<handle, incoming_streams, caller, call_id, emitted>>,
         NEW how \in {"ended", "panicked"}, loop' = [loop EXCEPT ![p] = how],
         \A c \in Call : handler[c] = "called" /\ Server(c) # p => handler'[c] = "called"
  PROVE  ProgressInv'
<1>1. loop'[p] = how /\ \A q \in Peer : q # p => loop'[q] = loop[q]
  BY LoopType DEF IInv
<1>2. HandleOK'
  <2> SUFFICES ASSUME NEW q \in Peer, loop'[q] = "handle"
               PROVE  \E c \in Call : handler'[c] = "called" /\ Server(c) = q
    BY DEF HandleOK, Server
  <2>1. q # p /\ loop[q] = "handle"
    BY <1>1
  <2>2. QED
    BY <1>1, <2>1 DEF ProgressInv, HandleOK
<1>3. EndedOK' /\ HeldOK' /\ EmittedOK'
  BY <1>1, FrameEnded, FrameHeld DEF ProgressInv, Entered, EmittedOK
<1>4. NoCallLost'
  BY <1>1 DEF NoCallLost, Alive
<1>5. QED
  BY <1>2, <1>3, <1>4 DEF ProgressInv

\* The service is stopped.
LEMMA StopProgress ==
  ASSUME IInv, ProgressInv, NEW p \in Peer, StopService(p)
  PROVE  ProgressInv'
<1>1. \A c \in Call : handler[c] = "called" /\ Server(c) # p => handler'[c] = "called"
  BY DEF StopService
<1>2. QED
  BY <1>1, GoneProgress DEF StopService, handleVars, tableVars, callerVars

\* The handler it awaits panics.
LEMMA FailInlineProgress ==
  ASSUME IInv, ProgressInv, NEW c \in Call, FailInline(c)
  PROVE  ProgressInv'
<1>1. \A d \in Call : handler[d] = "called" /\ Server(d) # Server(c) => handler'[d] = "called"
  BY DEF FailInline, IInv, TypeOK
<1>2. QED
  BY <1>1, GoneProgress, ServerFact
     DEF FailInline, handleVars, tableVars, callerVars

\* A handler's end leaves the oneshot of a request with a response or dropped.
LEMMA EndHandlerProgress ==
  ASSUME IInv, ProgressInv, NEW c \in Call,
         FinishHandler(c) \/ FailHandler(c) \/ ReturnInline(c)
  PROVE  ProgressInv'
<1>1. /\ UNCHANGED <<inbox, sending, interaction, handle, incoming_streams, caller, call_id,
                     emitted>>
      /\ handler[c] \in {"running", "called"}
  BY DEF FinishHandler, FailHandler, ReturnInline, loopVars, handleVars, tableVars, callerVars
<1>2. \A d \in Call : d # c => handler'[d] = handler[d]
  BY DEF FinishHandler, FailHandler, ReturnInline, IInv, TypeOK
<1>3. \A d \in Call : d # c => outgoing_responses'[d] = outgoing_responses[d]
  BY DEF FinishHandler, FailHandler, ReturnInline, Resolve, IInv, TypeOK, ServiceTypeOK
<1>4. \/ UNCHANGED loop /\ handler[c] = "running"
      \/ /\ loop[Server(c)] = "handle" /\ loop' = [loop EXCEPT ![Server(c)] = "select"]
  BY DEF FinishHandler, FailHandler, ReturnInline, loopVars
<1>5. /\ \A p \in Peer : loop'[p] = loop[p] \/ (p = Server(c) /\ loop'[p] = "select")
      /\ handler[c] = "called" => loop'[Server(c)] = "select"
      /\ \A p \in Peer : Alive(p)' => Alive(p)
  BY <1>4, ServerFact DEF IInv, TypeOK, ServiceTypeOK, Alive
<1>6. HandleOK'
  <2> SUFFICES ASSUME NEW p \in Peer, loop'[p] = "handle"
               PROVE  \E d \in Call : handler'[d] = "called" /\ Server(d) = p
    BY DEF HandleOK, Server
  <2>1. PICK d \in Call : handler[d] = "called" /\ Server(d) = p
    BY <1>5 DEF ProgressInv, HandleOK
  <2>2. d # c
    BY <1>5, <2>1
  <2>3. QED
    BY <1>2, <2>1, <2>2
<1>7. EndedOK' /\ HeldOK' /\ EmittedOK'
  BY <1>1, FrameEnded, FrameHeld DEF ProgressInv, Entered, EmittedOK
<1>8. NoCallLost'
  <2> SUFFICES ASSUME NEW d \in Call, caller'[d] # "idle", \A p \in Peer : Alive(p)'
               PROVE  NotLost(d)'
    BY DEF NoCallLost
  <2>1. \A p \in Peer : Alive(p) /\ Sent(p)' = Sent(p)
    BY <1>1, <1>5, SentSame
  <2>2. CASE d # c
    <3>1. InQueue(d)' = InQueue(d)
      BY <1>1 DEF InQueue
    <3>2. \A kind : \A p \in Peer : Carries(p, kind, d) => Carries(p, kind, d)'
      BY <2>1 DEF Carries
    <3>3. QED
      BY <1>1, <1>2, <1>3, <2>1, <2>2, <3>1, <3>2, FrameLost, ServerFact DEF ProgressInv
  <2>3. CASE d = c
    <3>1. handler'[c] \notin {"none", "panicked"}
      BY DEF FinishHandler, FailHandler, ReturnInline, IInv, TypeOK
    <3>2. ASSUME caller'[c] = "waiting"
          PROVE  /\ handler'[c] = "finished" => outgoing_responses'[c] = "ready"
                 /\ handler'[c] = "failed" => outgoing_responses'[c] = "cancelled"
      <4>1. Kind[c] = "request" /\ Alive(Server(c))
        BY <1>1, <2>1, <3>2, ServerFact, ServiceAssumption DEF IInv, CallsOK, CallerOK
      <4>2. QED
        BY <4>1 DEF FinishHandler, FailHandler, ReturnInline, Resolve, IInv, TypeOK,
                    ServiceTypeOK
    <3>3. QED
      BY <2>3, <3>1, <3>2 DEF NotLost
  <2>4. QED
    BY <2>2, <2>3
<1>9. QED
  BY <1>6, <1>7, <1>8 DEF ProgressInv

\* An item more, or a handler that finds its service gone.
LEMMA EmitProgress ==
  ASSUME IInv, ProgressInv, NEW c \in Call, EmitItem(c)
  PROVE  ProgressInv'
<1>1. /\ UNCHANGED <<inbox, loop, sending, interaction, handle, incoming_streams,
                     outgoing_responses, caller, call_id>>
      /\ handler[c] = "running" /\ emitted[c] < MaxItems
  BY DEF EmitItem, loopVars, handleVars, tableVars, callerVars
<1>2. HeldOK' /\ FewerAlive /\ \A p \in Peer : Sent(p)' = Sent(p)
  BY <1>1, FrameHeld, SentSame DEF ProgressInv, FewerAlive, Alive
<1>3. EmittedOK'
  <2>1. emitted' = [emitted EXCEPT ![c] = @ + 1] \/ UNCHANGED emitted
    BY DEF EmitItem
  <2>2. emitted \in [Call -> Nat]
    BY DEF IInv, TypeOK
  <2>3. QED
    BY <1>1, <2>1, <2>2, RpcAssumption DEF ProgressInv, EmittedOK
<1>4. CASE Alive(Server(c))
  <2>1. UNCHANGED handler
    BY <1>4 DEF EmitItem
  <2>2. QED
    BY <1>1, <1>2, <1>3, <2>1, QuietProgress
<1>5. CASE ~ Alive(Server(c))
  <2>1. HandleOK'
    <3>1. \A d \in Call : handler[d] = "called" => handler'[d] = "called"
      BY <1>1, <1>5 DEF EmitItem, IInv, TypeOK
    <3>2. QED
      BY <1>1, <3>1, FrameHandle DEF ProgressInv
  <2>2. EndedOK'
    BY <1>1, FrameEnded DEF ProgressInv, Entered
  <2>3. NoCallLost'
    BY <1>1, <1>5, ServerFact DEF NoCallLost, Alive
  <2>4. QED
    BY <1>2, <1>3, <2>1, <2>2, <2>3 DEF ProgressInv
<1>6. QED
  BY <1>4, <1>5

\* The response of a call that waits is not ignored: the call is in the table.
LEMMA ResponseProgress ==
  ASSUME IInv, ProgressInv, TypeOK', NEW p \in Peer, Service(TakeResponse(p))
  PROVE  ProgressInv'
<1>1. PICK m \in Message :
           /\ m = Head(inbox[p]) /\ m.kind = "Response" /\ Taken(p, m)
           /\ m \in Range(Sent(Other(p))) /\ MessageOK(Other(p), m)
           /\ m.data \in Call /\ m.id \in Id
  BY TakeFacts, TakeResponseEffect
<1>d. PICK d \in Call \union {NoCall} : d = incoming_responses[p][m.id]
  BY <1>1, EntryType DEF IInv
<1>2. /\ UNCHANGED <<loop, sending, interaction, handle, incoming_streams,
                     outgoing_responses, call_id, handler, emitted>>
      /\ SentOK /\ SentOK'
      /\ \A q \in Peer : Alive(q)' = Alive(q)
  BY Types, SentTypedNext, TakeResponseEffect DEF IInv, Alive
<1>3. caller' = IF d = NoCall THEN caller
                ELSE [caller EXCEPT ![d] = IF @ = "waiting" THEN "answered" ELSE @]
  BY <1>1, <1>d, TakeResponseEffect
<1>4. /\ \A e \in Call : caller'[e] \in {caller[e], "answered"}
      /\ \A e \in Call : caller'[e] = "answered" => caller[e] \in {"waiting", "answered"}
      /\ d \in Call => caller'[d] # "waiting"
  BY <1>3, ServiceAssumption, CallerType DEF IInv
<1>5. HandleOK' /\ EndedOK' /\ HeldOK' /\ EmittedOK'
  <2>1. \A e \in Call : caller'[e] = "waiting" => caller[e] = "waiting"
    BY <1>4
  <2>2. \A e \in Call : caller'[e] = "ended" => caller[e] = "ended"
    BY <1>4
  <2>3. QED
    BY <1>2, <2>1, <2>2, FrameHandle, FrameEnded, FrameHeld DEF ProgressInv, Entered,
       EmittedOK
<1>6. NoCallLost'
  <2> SUFFICES ASSUME NEW e \in Call, caller'[e] # "idle", \A q \in Peer : Alive(q)'
               PROVE  NotLost(e)'
    BY DEF NoCallLost
  <2>1. /\ caller[e] # "idle" /\ (\A q \in Peer : Alive(q)) /\ InQueue(e)' = InQueue(e)
        /\ Owner[e] \in Peer /\ Server(e) \in Peer
    BY <1>2, <1>4, ServerFact DEF InQueue
  <2>2. ASSUME NEW q \in Peer, NEW kind, kind # "Response" \/ m.data # e, Carries(q, kind, e)
        PROVE  Carries(q, kind, e)'
    <3>1. PICK n \in Range(Sent(q)) : n.kind = kind /\ n.data = e
      BY <2>2 DEF Carries
    <3>2. n # m
      BY <1>1, <2>2, <3>1
    <3>3. n \in Range(Sent(q))'
      BY <1>1, <1>2, <3>2, TakenRange
    <3>4. QED
      BY <3>1, <3>3 DEF Carries
  <2>3. CASE m.data # e
    BY <1>2, <1>4, <2>1, <2>2, <2>3, FrameLost DEF ProgressInv
  <2>4. CASE m.data = e
    <3>1. /\ handler[e] = "finished" /\ m.id = call_id[e] /\ Owner[e] = p
      BY <1>1, <2>1, <2>4, PeerFact DEF MessageOK
    <3>2. caller'[e] # "waiting"
      <4> SUFFICES ASSUME caller[e] = "waiting"
                   PROVE  e = d
        BY <1>4
      <4>1. interaction[p] \in Seq(Call)
        BY Types DEF IInv
      <4>2. ASSUME interaction[p] # <<>>, interaction[p][Len(interaction[p])] = e
            PROVE  FALSE
        <5>1. e \in Range(interaction[p])
          BY <4>1, <4>2 DEF Range
        <5>2. QED
          BY <3>1, <5>1 DEF IInv, QueueOK, QueuedOK
      <4>3. incoming_responses[p][call_id[e]] = e
        BY <2>1, <3>1, <4>2 DEF IInv, WaitingOK
      <4>4. QED
        BY <1>d, <3>1, <4>3
    <3>3. QED
      BY <1>2, <3>1, <3>2 DEF NotLost
  <2>5. QED
    BY <2>3, <2>4
<1>7. QED
  BY <1>5, <1>6, Zenon DEF ProgressInv

\* An item taken is no call and no response.
LEMMA StreamMessageProgress ==
  ASSUME IInv, ProgressInv, TypeOK', NEW p \in Peer, Service(TakeStreamMessage(p))
  PROVE  ProgressInv'
<1>1. PICK m \in Message : m.kind = "StreamMessage" /\ Taken(p, m)
  BY TakeFacts, Zenon DEF Service, TakeStreamMessage
<1>2. /\ UNCHANGED <<sending, interaction, handle, incoming_streams, outgoing_responses,
                     caller, call_id, handler, emitted>>
      /\ SentOK /\ SentOK' /\ loop[p] = "select"
      /\ UNCHANGED loop \/ loop' = [loop EXCEPT ![p] = "panicked"]
  BY Types, SentTypedNext, Zenon DEF Service, TakeStreamMessage, Take, handleVars, tableVars,
     outVars, IInv
<1>3. \A q \in Peer : loop'[q] = loop[q] \/ (q = p /\ loop'[q] = "panicked")
  BY <1>2, LoopType DEF IInv
<1>4. FewerAlive /\ \A q \in Peer : loop'[q] = "handle" => loop[q] = "handle"
  BY <1>3 DEF FewerAlive, Alive
<1>5. HeldOK' /\ EmittedOK'
  BY <1>2, FrameHeld DEF ProgressInv, EmittedOK
<1>6. ASSUME NEW q \in Peer, NEW n \in Range(Sent(q)),
             n.kind \in {"Request", "OpenStream", "Oneshot", "Response"}
      PROVE  n \in Range(Sent(q))'
  BY <1>1, <1>2, <1>6, TakenRange
<1>7. QED
  BY <1>2, <1>4, <1>5, <1>6, QuietProgress, Zenon

\* A stream that ends leaves the table.
LEMMA CloseProgress ==
  ASSUME IInv, ProgressInv, TypeOK', NEW p \in Peer, Service(TakeClose(p))
  PROVE  ProgressInv'
<1>1. PICK m \in Message :
           /\ m = Head(inbox[p]) /\ m.kind = "CloseStream" /\ Taken(p, m) /\ m.id \in Id
  BY TakeFacts, TakeCloseEffect
<1>d. PICK d \in Call \union {NoCall} : d = incoming_streams[p][m.id]
  BY <1>1, EntryType DEF IInv
<1>2. /\ UNCHANGED <<sending, interaction, handle, outgoing_responses, call_id, handler,
                     emitted>>
      /\ SentOK /\ SentOK' /\ loop[p] = "select"
      /\ UNCHANGED loop \/ loop' = [loop EXCEPT ![p] = "panicked"]
  <2>1. d # NoCall => UNCHANGED loop
    BY <1>1, <1>d, TakeCloseEffect
  <2>2. d = NoCall => loop' = [loop EXCEPT ![p] = "panicked"]
    BY <1>1, <1>d, TakeCloseEffect
  <2>3. QED
    BY <2>1, <2>2, Types, SentTypedNext, TakeCloseEffect DEF Take, IInv
<1>3. \A q \in Peer : loop'[q] = loop[q] \/ (q = p /\ loop'[q] = "panicked")
  BY <1>2, LoopType DEF IInv
<1>4. FewerAlive /\ \A q \in Peer : loop'[q] = "handle" => loop[q] = "handle"
  BY <1>3 DEF FewerAlive, Alive
<1>5. \/ UNCHANGED <<incoming_streams, caller>>
      \/ /\ d # NoCall
         /\ incoming_streams' = [incoming_streams EXCEPT ![p][m.id] = NoCall]
         /\ caller' = [caller EXCEPT ![d] = IF @ = "open" THEN "ended" ELSE @]
  BY <1>1, <1>d, TakeCloseEffect
<1>6. /\ \A e \in Call : caller'[e] = caller[e] \/
                         (e = d /\ caller[e] = "open" /\ caller'[e] = "ended"
                            /\ incoming_streams'[p][m.id] = NoCall)
      /\ \A q \in Peer, i \in Id :
           incoming_streams'[q][i] \in {incoming_streams[q][i], NoCall}
  <2>1. /\ caller \in [Call -> {"idle", "waiting", "answered", "cancelled", "panicked",
                          "open", "ended", "cut", "dropped", "sent"}]
        /\ incoming_streams \in [Peer -> [Id -> Call \union {NoCall}]]
    BY TableTypes, CallerType DEF IInv
  <2>2. QED
    BY <1>1, <1>5, <2>1
<1>7. EndedOK'
  <2> SUFFICES ASSUME NEW e \in Call, caller'[e] = "ended", Entered(e)'
               PROVE  FALSE
    BY DEF EndedOK
  <2>1. Owner[e] \in Peer /\ call_id[e] \in Id /\ e # NoCall
    BY ServerFact, Types, ServiceAssumption DEF IInv
  <2>2. incoming_streams[Owner[e]][call_id[e]] = e
    BY <1>2, <1>6, <2>1 DEF Entered
  <2>3. caller[e] # "ended"
    BY <2>2 DEF ProgressInv, EndedOK, Entered
  <2>4. e = d /\ incoming_streams'[p][m.id] = NoCall
    BY <1>6, <2>3, ZenonT(60)
  <2>5. Owner[e] = p /\ call_id[e] = m.id
    BY <1>1, <1>d, <2>1, <2>4 DEF IInv, TablesOK, EntryOK
  <2>6. QED
    BY <1>2, <2>1, <2>4, <2>5 DEF Entered
<1>8. HandleOK' /\ HeldOK' /\ EmittedOK'
  BY <1>2, <1>4, <1>6, FrameHandle, FrameHeld DEF ProgressInv, EmittedOK
<1>9. NoCallLost'
  <2> SUFFICES ASSUME NEW e \in Call, caller'[e] # "idle", \A q \in Peer : Alive(q)'
               PROVE  NotLost(e)'
    BY DEF NoCallLost
  <2>1. /\ caller[e] # "idle" /\ (\A q \in Peer : Alive(q)) /\ InQueue(e)' = InQueue(e)
        /\ Owner[e] \in Peer /\ Server(e) \in Peer
        /\ caller'[e] = "waiting" => caller[e] = "waiting"
    BY <1>2, <1>4, <1>6, ServerFact DEF InQueue, FewerAlive
  <2>2. ASSUME NEW q \in Peer, NEW kind, kind # "CloseStream", Carries(q, kind, e)
        PROVE  Carries(q, kind, e)'
    <3>1. PICK n \in Range(Sent(q)) : n.kind = kind /\ n.data = e
      BY <2>2 DEF Carries
    <3>2. n \in Range(Sent(q))'
      BY <1>1, <1>2, <2>2, <3>1, TakenRange
    <3>3. QED
      BY <3>1, <3>2 DEF Carries
  <2>3. QED
    BY <1>2, <2>1, <2>2, FrameLost DEF ProgressInv
<1>10. QED
  BY <1>7, <1>8, <1>9, Zenon DEF ProgressInv

\* A call that is taken is handled.
LEMMA ServeProgress ==
  ASSUME IInv, ProgressInv, TypeOK', NEW p \in Peer,
         ServeRequest(p) \/ ServeStream(p) \/ ServeOneshot(p) \/ HandleInline(p)
  PROVE  ProgressInv'
<1>1. PICK m \in Message :
           /\ m = Head(inbox[p]) /\ m.kind \in {"Request", "OpenStream", "Oneshot"}
           /\ Taken(p, m) /\ MessageOK(Other(p), m) /\ m.data \in Call
  <2>1. PICK kind \in {"Request", "OpenStream", "Oneshot"} :
          Take(p, kind) /\ UNCHANGED sending
    BY DEF ServeRequest, ServeStream, ServeOneshot, HandleInline
  <2>2. QED
    BY <2>1, TakeFacts
<1>c. PICK c \in Call : c = m.data
  BY <1>1
<1>2. /\ UNCHANGED <<sending, interaction, handle, incoming_streams, caller, call_id,
                     emitted>>
      /\ SentOK /\ SentOK'
  BY Types, SentTypedNext
     DEF ServeRequest, ServeStream, ServeOneshot, HandleInline, handleVars, tableVars,
         callerVars, IInv
<1>3. /\ handler[c] = "none" /\ Server(c) = p
  BY <1>1, <1>c, PeerFact, ServerFact DEF MessageOK
<1>4. /\ handler'[c] \in {"running", "called"}
      /\ \A e \in Call : e # c => handler'[e] = handler[e]
  BY <1>1, <1>c DEF ServeRequest, ServeStream, ServeOneshot, HandleInline, IInv, TypeOK
<1>5. \A e \in Call : e # c => outgoing_responses'[e] = outgoing_responses[e]
  <2>1. \/ UNCHANGED outgoing_responses
        \/ outgoing_responses' = [outgoing_responses EXCEPT ![c] = "pending"]
    BY <1>1, <1>c DEF ServeRequest, ServeStream, ServeOneshot, HandleInline, recv_request,
                      outVars
  <2>2. QED
    BY <2>1, TableTypes DEF IInv
<1>6. /\ \A q \in Peer : q # p => loop'[q] = loop[q]
      /\ loop[p] = "select"
      /\ loop'[p] = "select" \/ (loop'[p] = "handle" /\ handler'[c] = "called")
  <2>1. /\ loop[p] = "select"
        /\ \/ UNCHANGED loop
           \/ /\ loop' = [loop EXCEPT ![p] = "handle"]
              /\ handler' = [handler EXCEPT ![c] = "called"]
    BY <1>1, <1>c DEF ServeRequest, ServeStream, ServeOneshot, HandleInline, Take
  <2>2. \A q \in Peer : q # p => loop'[q] = loop[q]
    BY <2>1, LoopType DEF IInv
  <2>3. UNCHANGED loop \/ (loop'[p] = "handle" /\ handler'[c] = "called")
    <3>1. handler = [e \in Call |-> handler[e]]
      BY Zenon DEF IInv, TypeOK
    <3>2. QED
      BY <2>1, <3>1, LoopType DEF IInv
  <2>4. QED
    BY <2>1, <2>2, <2>3
<1>7. HandleOK'
  <2> SUFFICES ASSUME NEW q \in Peer, loop'[q] = "handle"
               PROVE  \E e \in Call : handler'[e] = "called" /\ Server(e) = q
    BY DEF HandleOK, Server
  <2>1. CASE q = p
    BY <1>3, <1>6, <2>1
  <2>2. CASE q # p
    <3>1. PICK e \in Call : handler[e] = "called" /\ Server(e) = q
      BY <1>6, <2>2 DEF ProgressInv, HandleOK
    <3>2. QED
      BY <1>3, <1>4, <3>1
  <2>3. QED
    BY <2>1, <2>2
<1>8. EndedOK' /\ HeldOK' /\ EmittedOK'
  BY <1>2, FrameEnded, FrameHeld DEF ProgressInv, Entered, EmittedOK
<1>9. NoCallLost'
  <2> SUFFICES ASSUME NEW e \in Call, caller'[e] # "idle", \A q \in Peer : Alive(q)'
               PROVE  NotLost(e)'
    BY DEF NoCallLost
  <2>1. CASE e = c
    BY <1>4, <2>1 DEF NotLost
  <2>2. CASE e # c
    <3>1. (\A q \in Peer : Alive(q)) /\ InQueue(e)' = InQueue(e)
      BY <1>2, <1>6 DEF InQueue, Alive
    <3>2. ASSUME NEW q \in Peer, NEW kind, Carries(q, kind, e)
          PROVE  Carries(q, kind, e)'
      <4>1. PICK n \in Range(Sent(q)) : n.kind = kind /\ n.data = e
        BY <3>2 DEF Carries
      <4>2. n # m
        BY <1>c, <2>2, <4>1
      <4>3. n \in Range(Sent(q))'
        BY <1>1, <1>2, <4>2, TakenRange
      <4>4. QED
        BY <4>1, <4>3 DEF Carries
    <3>3. QED
      BY <1>2, <1>4, <1>5, <2>2, <3>1, <3>2, FrameLost, ServerFact DEF ProgressInv
  <2>3. QED
    BY <2>1, <2>2
<1>10. QED
  BY <1>7, <1>8, <1>9 DEF ProgressInv

\* writer.send returns, or the loop ends.
LEMMA EndSendProgress ==
  ASSUME IInv, ProgressInv, NEW p \in Peer, EndSend(p) \/ Service(TakeEnd(p))
  PROVE  ProgressInv'
<1>1. UNCHANGED <<interaction, handle, incoming_streams, outgoing_responses, caller, call_id,
                  handler, emitted>>
  BY DEF EndSend, Service, FinishSend, FailSend, TakeEnd, handleVars, tableVars, outVars,
         callerVars
<1>2. /\ \A q \in Peer : q # p => loop'[q] = loop[q]
      /\ \/ loop'[p] \in {"ended", "failed", "panicked"}
         \/ loop[p] = "send" /\ loop'[p] = "select" /\ FinishSend(p)
  BY Z3 DEF EndSend, Service, FinishSend, FailSend, TakeEnd, IInv, TypeOK, ServiceTypeOK
<1>3. FewerAlive /\ \A q \in Peer : loop'[q] = "handle" => loop[q] = "handle"
  BY <1>2 DEF FewerAlive, Alive
<1>4. HeldOK' /\ EmittedOK'
  BY <1>1, FrameHeld DEF ProgressInv, EmittedOK
<1>5. ASSUME \A q \in Peer : Alive(q)', NEW q \in Peer
      PROVE  Sent(q)' = Sent(q)
  BY <1>2, <1>5, SentFinish DEF IInv, Alive
<1>6. QED
  BY <1>1, <1>3, <1>4, <1>5, QuietProgress

\* An item is sent.
LEMMA SendItemProgress ==
  ASSUME IInv, ProgressInv, TypeOK', NEW p \in Peer, NEW c \in Call, Service(SendItem(p, c))
  PROVE  ProgressInv'
<1>1. /\ UNCHANGED <<inbox, interaction, handle, incoming_streams, outgoing_responses,
                     caller, call_id, handler, emitted>>
      /\ loop[p] = "select" /\ outgoing_stream[c] # <<>>
  BY DEF Service, SendItem, handleVars, tableVars, callerVars
<1>2. outgoing_stream[c] \in Seq(Nat)
  BY Types DEF IInv
<1>3. PICK m \in Message : Send(p, m)
  <2>1. Head(outgoing_stream[c]) \in Nat
    BY <1>1, <1>2
  <2>2. Msg("StreamMessage", c, Head(outgoing_stream[c])) \in Message
    BY <2>1, MsgType DEF IInv
  <2>3. QED
    BY <2>2 DEF Service, SendItem
<1>4. Added(p, m) /\ SentOK /\ SentOK'
  BY <1>1, <1>3, SentSend, Types, SentTypedNext DEF Added, IInv
<1>5. \A q \in Peer : \A n \in Range(Sent(q)) : n \in Range(Sent(q))'
  BY <1>4, AddedRange, PeerFact
<1>6. \A q \in Peer : loop'[q] = loop[q] \/ (loop'[q] = "send" /\ loop[q] = "select")
  BY <1>1, <1>3 DEF Send, IInv, TypeOK, ServiceTypeOK
<1>7. FewerAlive /\ HeldOK' /\ EmittedOK' /\ \A q \in Peer : loop'[q] = "handle" => loop[q] = "handle"
  BY <1>1, <1>6, FrameHeld DEF FewerAlive, Alive, ProgressInv, EmittedOK
<1>8. QED
  BY <1>1, <1>5, <1>7, QuietProgress

\* The response is on its way, or the service is not.
LEMMA SendResponseProgress ==
  ASSUME IInv, ProgressInv, TypeOK', NEW p \in Peer, NEW c \in Call,
         Service(SendResponse(p, c))
  PROVE  ProgressInv'
<1>1. /\ UNCHANGED <<inbox, interaction, handle, incoming_streams, caller, call_id, handler,
                     emitted>>
      /\ loop[p] = "select" /\ Server(c) = p
      /\ outgoing_responses' = [outgoing_responses EXCEPT ![c] = "none"]
  BY ServerFact DEF Service, SendResponse, handleVars, tableVars, callerVars
<1>2. PICK m \in Message : m.kind = "Response" /\ m.data = c /\ m = Msg("Response", c, 0)
  BY MsgType DEF IInv
<1>3. \/ Send(p, m) /\ outgoing_responses[c] = "ready"
      \/ loop' = [loop EXCEPT ![p] = "panicked"]
  BY <1>2 DEF Service, SendResponse
<1>4. \A q \in Peer : q # p => loop'[q] = loop[q]
  BY <1>3, LoopType DEF Send, IInv
<1>5. loop'[p] # "handle"
  BY <1>3, LoopType DEF Send, IInv
<1>6. HandleOK' /\ EndedOK' /\ HeldOK' /\ EmittedOK'
  BY <1>1, <1>4, <1>5, FrameHandle, FrameEnded, FrameHeld DEF ProgressInv, Entered, EmittedOK
<1>7. NoCallLost'
  <2> SUFFICES ASSUME NEW e \in Call, caller'[e] # "idle", \A q \in Peer : Alive(q)'
               PROVE  NotLost(e)'
    BY DEF NoCallLost
  <2>1. Send(p, m) /\ outgoing_responses[c] = "ready"
    <3>1. ~ Alive(p)' \/ loop' # [loop EXCEPT ![p] = "panicked"]
      BY LoopType DEF Alive, IInv
    <3>2. QED
      BY <1>3, <3>1
  <2>2. Added(p, m) /\ SentOK /\ SentOK'
    BY <1>1, <2>1, SentSend, Types, SentTypedNext DEF Added, IInv
  <2>3. /\ \A q \in Peer : \A n \in Range(Sent(q)) : n \in Range(Sent(q))'
        /\ m \in Range(Sent(p))'
    BY <2>2, AddedRange, PeerFact
  <2>4. /\ \A kind : \A q \in Peer : Carries(q, kind, e) => Carries(q, kind, e)'
        /\ Carries(p, "Response", c)'
    <3>1. ASSUME NEW q \in Peer, NEW kind, Carries(q, kind, e)
          PROVE  Carries(q, kind, e)'
      BY <2>3, <3>1, CarriesMore
    <3>2. Carries(p, "Response", c)'
      BY <1>2, <2>3 DEF Carries
    <3>3. QED
      BY <3>1, <3>2
  <2>5. (\A q \in Peer : Alive(q)) /\ InQueue(e)' = InQueue(e)
    BY <1>1, <1>4 DEF Alive, InQueue
  <2>6. CASE e # c
    <3>1. outgoing_responses'[e] = outgoing_responses[e]
      BY <1>1, <2>6 DEF IInv, TypeOK, ServiceTypeOK
    <3>2. QED
      BY <1>1, <2>4, <2>5, <3>1, FrameLost, ServerFact DEF ProgressInv
  <2>7. CASE e = c
    <3>1. handler[c] = "finished"
      BY <2>1 DEF IInv, CallsOK, OutgoingOK
    <3>2. QED
      BY <1>1, <2>4, <2>7, <3>1 DEF NotLost
  <2>8. QED
    BY <2>6, <2>7
<1>8. QED
  BY <1>6, <1>7 DEF ProgressInv

\* A stream is closed by its server.
LEMMA CloseSendProgress ==
  ASSUME IInv, ProgressInv, TypeOK', NEW p \in Peer, NEW c \in Call, CloseStream(p, c)
  PROVE  ProgressInv'
<1>1. /\ UNCHANGED <<inbox, interaction, handle, incoming_streams, outgoing_responses, caller,
                     call_id, emitted>>
      /\ loop[p] = "select" /\ handler[c] = "finished"
      /\ handler' = [handler EXCEPT ![c] = "closed"]
  BY DEF CloseStream, handleVars, tableVars, outVars, callerVars
<1>2. PICK m \in Message : Send(p, m)
  BY MsgType DEF CloseStream, IInv
<1>3. /\ handler'[c] = "closed"
      /\ \A e \in Call : e # c => handler'[e] = handler[e]
  BY <1>1 DEF IInv, TypeOK
<1>4. \A q \in Peer : loop'[q] = loop[q] \/ (loop'[q] = "send" /\ loop[q] = "select")
  BY <1>1, <1>2 DEF Send, IInv, TypeOK, ServiceTypeOK
<1>5. HandleOK' /\ EndedOK' /\ HeldOK' /\ EmittedOK'
  BY <1>1, <1>3, <1>4, FrameHandle, FrameEnded, FrameHeld DEF ProgressInv, Entered, EmittedOK
<1>6. NoCallLost'
  <2> SUFFICES ASSUME NEW e \in Call, caller'[e] # "idle", \A q \in Peer : Alive(q)'
               PROVE  NotLost(e)'
    BY DEF NoCallLost
  <2>1. CASE e = c
    BY <1>3, <2>1 DEF NotLost
  <2>2. CASE e # c
    <3>1. Added(p, m) /\ SentOK /\ SentOK'
      BY <1>1, <1>2, SentSend, Types, SentTypedNext DEF Added, IInv
    <3>2. \A q \in Peer : \A n \in Range(Sent(q)) : n \in Range(Sent(q))'
      BY <3>1, AddedRange, PeerFact
    <3>3. ASSUME NEW q \in Peer, NEW kind, Carries(q, kind, e)
          PROVE  Carries(q, kind, e)'
      BY <3>2, <3>3, CarriesMore
    <3>4. (\A q \in Peer : Alive(q)) /\ InQueue(e)' = InQueue(e)
      BY <1>1, <1>4 DEF Alive, InQueue
    <3>5. QED
      BY <1>1, <1>3, <2>2, <3>3, <3>4, FrameLost, ServerFact DEF ProgressInv
  <2>3. QED
    BY <2>1, <2>2
<1>7. QED
  BY <1>5, <1>6 DEF ProgressInv

\* A call leaves the handle's channel for the connection.
LEMMA InteractionProgress ==
  ASSUME IInv, ProgressInv, TypeOK', NEW p \in Peer, Service(SendInteraction(p))
  PROVE  ProgressInv'
<1>1. /\ UNCHANGED <<inbox, handle, outgoing_responses, caller, call_id, handler, emitted>>
      /\ loop[p] = "select" /\ interaction[p] # <<>>
      /\ interaction' = [interaction EXCEPT ![p] = Tail(@)]
      /\ interaction[p] \in Seq(Call)
  BY Types DEF Service, SendInteraction, outVars, callerVars, IInv
<1>2. PICK c \in Call : c = Head(interaction[p])
  BY <1>1
<1>3. QueuedOK(p, c)
  <2>1. c \in Range(interaction[p])
    BY <1>1, <1>2, TailFacts
  <2>2. QED
    BY <2>1 DEF IInv, QueueOK
<1>4. PICK m \in Message :
        /\ Send(p, m) /\ m.data = c
        /\ m.kind \in {"Request", "OpenStream", "Oneshot"}
  <2>1. \E kind \in {"Request", "OpenStream", "Oneshot"} : Send(p, Msg(kind, c, 0))
    BY <1>2 DEF Service, SendInteraction
  <2>2. QED
    BY <2>1, MsgType DEF IInv
<1>5. \/ UNCHANGED incoming_streams
      \/ incoming_streams' = [incoming_streams EXCEPT ![p][call_id[c]] = c]
  BY <1>2 DEF Service, SendInteraction, tableVars
<1>6. \A q \in Peer : loop'[q] = loop[q] \/ (loop'[q] = "send" /\ loop[q] = "select")
  BY <1>1, <1>4 DEF Send, IInv, TypeOK, ServiceTypeOK
<1>7. HandleOK' /\ HeldOK' /\ EmittedOK'
  BY <1>1, <1>6, FrameHandle, FrameHeld DEF ProgressInv, EmittedOK
<1>8. EndedOK'
  <2> SUFFICES ASSUME NEW e \in Call, caller[e] = "ended", Entered(e)'
               PROVE  FALSE
    BY <1>1 DEF EndedOK
  <2>1. e # c
    BY <1>3 DEF QueuedOK, Pending
  <2>2. Owner[e] \in Peer /\ call_id[e] \in Id /\ call_id[c] \in Id
    BY ServerFact, Types DEF IInv
  <2>3. incoming_streams \in [Peer -> [Id -> Call \union {NoCall}]]
    BY DEF IInv, TypeOK, ServiceTypeOK
  <2>4. incoming_streams[Owner[e]][call_id[e]] = e
    BY <1>1, <1>5, <2>1, <2>2, <2>3 DEF Entered
  <2>5. QED
    BY <2>4 DEF ProgressInv, EndedOK, Entered
<1>9. NoCallLost'
  <2> SUFFICES ASSUME NEW e \in Call, caller'[e] # "idle", \A q \in Peer : Alive(q)'
               PROVE  NotLost(e)'
    BY DEF NoCallLost
  <2>1. Added(p, m) /\ SentOK /\ SentOK'
    BY <1>1, <1>4, SentSend, Types, SentTypedNext DEF Added, IInv
  <2>2. /\ \A q \in Peer : \A n \in Range(Sent(q)) : n \in Range(Sent(q))'
        /\ m \in Range(Sent(p))'
    BY <2>1, AddedRange, PeerFact
  <2>3. CASE e = c
    <3>1. Owner[c] = p /\ handler'[c] = "none"
      BY <1>1, <1>3 DEF QueuedOK
    <3>2. \E kind \in {"Request", "OpenStream", "Oneshot"} : Carries(p, kind, c)'
      BY <1>4, <2>2 DEF Carries
    <3>3. QED
      BY <2>3, <3>1, <3>2 DEF NotLost, OnTheWay
  <2>4. CASE e # c
    <3>1. ASSUME NEW q \in Peer, NEW kind, Carries(q, kind, e)
          PROVE  Carries(q, kind, e)'
      BY <2>2, <3>1, CarriesMore
    <3>2. \A q \in Peer : Alive(q)
      BY <1>1, <1>6 DEF Alive
    <3>3. ASSUME InQueue(e)
          PROVE  InQueue(e)'
      <4>1. CASE Owner[e] = p
        <5>1. PICK k \in DOMAIN interaction[p] : interaction[p][k] = e
          BY <3>3, <4>1 DEF InQueue
        <5>2. k # 1
          BY <1>1, <1>2, <2>4, <5>1
        <5>3. k - 1 \in DOMAIN Tail(interaction[p]) /\ Tail(interaction[p])[k - 1] = e
          BY <1>1, <5>1, <5>2
        <5>4. interaction'[p] = Tail(interaction[p])
          BY <1>1 DEF IInv, TypeOK, ServiceTypeOK
        <5>5. QED
          BY <4>1, <5>3, <5>4 DEF InQueue
      <4>2. CASE Owner[e] # p
        <5>1. interaction'[Owner[e]] = interaction[Owner[e]]
          BY <1>1, <4>2, ServerFact DEF IInv, TypeOK, ServiceTypeOK
        <5>2. QED
          BY <3>3, <5>1 DEF InQueue
      <4>3. QED
        BY <4>1, <4>2
    <3>4. QED
      BY <1>1, <2>4, <3>1, <3>2, <3>3, FrameLost, ServerFact DEF ProgressInv
  <2>5. QED
    BY <2>3, <2>4
<1>10. QED
  BY <1>7, <1>8, <1>9 DEF ProgressInv

\* In the beginning nobody waits.
LEMMA InitProgress == Init => ProgressInv
<1> SUFFICES ASSUME Init
             PROVE  ProgressInv
  OBVIOUS
<1>1. /\ \A p \in Peer : loop[p] = "select"
      /\ \A c \in Call : caller[c] = "idle" /\ emitted[c] = 0
  BY DEF Init, ServiceInit
<1>2. QED
  BY <1>1, RpcAssumption DEF ProgressInv, HandleOK, EndedOK, HeldOK, EmittedOK, NoCallLost

\* Each step keeps the invariant of progress.
LEMMA NextProgress == IInv /\ ProgressInv /\ [Next]_vars => ProgressInv'
<1> SUFFICES ASSUME IInv, ProgressInv, [Next]_vars
             PROVE  ProgressInv'
  OBVIOUS
<1>1. TypeOK'
  BY NextTypeOK DEF IInv
<1>2. CASE UNCHANGED vars
  BY <1>2, DropHandleProgress
<1>3. CASE Application
  <2>1. ASSUME NEW c \in Call, NEW i \in Id, send_request(c, i) \/ send_stream(c, i)
        PROVE  ProgressInv'
    BY <2>1, BeginProgress DEF send_request, send_stream
  <2>2. ASSUME NEW c \in Call, send_oneshot(c)
        PROVE  ProgressInv'
    <3>1. PICK i \in Id : i = call_id[c]
      BY Types DEF IInv
    <3>2. Begin(c, i, "sent")
      BY <2>2, <3>1 DEF send_oneshot
    <3>3. QED
      BY <3>2, BeginProgress
  <2>3. ASSUME NEW c \in Call, CancelCall(c) \/ DropStream(c)
        PROVE  ProgressInv'
    BY <2>3, CallerProgress
  <2>4. ASSUME NEW p \in Peer, DropHandle(p) \/ StopService(p)
        PROVE  ProgressInv'
    BY <2>4, DropHandleProgress, StopProgress
  <2>5. QED
    BY <1>3, <2>1, <2>2, <2>3, <2>4 DEF Application
<1>4. ASSUME NEW c \in Call, CallPanics(c) \/ StreamCut(c) \/ EndHandler(c) \/ EmitItem(c)
      PROVE  ProgressInv'
  BY <1>4, CallerProgress, EndHandlerProgress, FailInlineProgress, EmitProgress
     DEF EndHandler
<1>5. ASSUME NEW p \in Peer, Receive(p)
      PROVE  ProgressInv'
  BY <1>1, <1>5, ResponseProgress, StreamMessageProgress, CloseProgress, ServeProgress
     DEF Receive
<1>6. ASSUME NEW p \in Peer, EndSend(p) \/ Service(TakeEnd(p)) \/ Service(SendInteraction(p))
      PROVE  ProgressInv'
  BY <1>1, <1>6, EndSendProgress, InteractionProgress
<1>7. ASSUME NEW p \in Peer, NEW c \in Call,
             Service(SendItem(p, c)) \/ Service(SendResponse(p, c)) \/ CloseStream(p, c)
      PROVE  ProgressInv'
  BY <1>1, <1>7, SendItemProgress, SendResponseProgress, CloseSendProgress
<1>8. QED
  BY <1>2, <1>3, <1>4, <1>5, <1>6, <1>7 DEF Next

(***************************************************************************)
(* While both services run no call is lost between the handle's channel,   *)
(* the connection, the handler and the answer.                             *)
(***************************************************************************)
THEOREM CallsAreCarried == SafeSpec => []NoCallLost
<1>1. SafeSpec => []IInv
  BY Invariance
<1>2. SafeSpec => []ProgressInv
  BY <1>1, InitProgress, NextProgress, PTL DEF SafeSpec
<1>3. ProgressInv => NoCallLost
  BY DEF ProgressInv
<1>4. QED
  BY <1>2, <1>3, PTL

(***************************************************************************)
(* Nobody who waits is stuck but in the two exceptions: both services send *)
(* to a full connection, or the other loop spins and starves its thread.   *)
(***************************************************************************)
THEOREM WaitersGoOn == SafeSpec => []NobodyIsStuck
<1>1. SafeSpec => []IInv
  BY Invariance
<1>2. SafeSpec => []ProgressInv
  BY <1>1, InitProgress, NextProgress, PTL DEF SafeSpec
<1>3. ASSUME IInv, ProgressInv
      PROVE  NobodyIsStuck
  <2>1. \A c \in Call :
          caller[c] = "waiting" => CanGoOn \/ MutualWait \/ Starved(Server(c))
    BY <1>3, WaiterNotStuck
  <2>2. \A p \in Peer :
          loop[p] = "send" => CanGoOn \/ MutualWait \/ Starved(Other(p))
    BY <1>3, SenderNotStuck
  <2>3. \A c \in Call : caller[c] = "open" /\ Len(received[c]) < emitted[c] =>
          CanGoOn \/ MutualWait \/ \E p \in Peer : Starved(p)
    BY <1>3, ReaderNotStuck
  <2>4. QED
    BY <2>1, <2>2, <2>3 DEF NobodyIsStuck
<1>4. QED
  BY <1>1, <1>2, <1>3, PTL

-----------------------------------------------------------------------------
(* No step can be repeated for ever.                                       *)

\* A function is below another that is nowhere less and somewhere greater.
LEMMA BelowAt ==
  ASSUME NEW S, NEW f, NEW g, DOMAIN g = S, NEW x \in S, f[x] # g[x],
         \A y \in S : f[y] \in Nat /\ f[y] <= g[y]
  PROVE  Below(f, g)
BY DEF Below

\* A step advances that lowers a part of the rank and keeps those before it.
LEMMA AdvanceAt ==
  ASSUME NEW n \in 1 .. 9, \A k \in 1 .. n - 1 : Rank[k]' = Rank[k],
         Below(Rank[n]', Rank[n])
  PROVE  Advance
<1>1. DOMAIN Rank = 1 .. 9
  BY DEF Rank
<1>2. QED
  BY <1>1 DEF Advance

\* What keeps a part of the rank.
LEMMA RankSame ==
  /\ (\A c \in Call : CallerRank(c)' = CallerRank(c)) => Rank[1]' = Rank[1]
  /\ handle' = handle => Rank[2]' = Rank[2]
  /\ (\A p \in Peer : Alive(p)' = Alive(p)) => Rank[3]' = Rank[3]
  /\ (\A c \in Call : HandlerRank(c)' = HandlerRank(c)) => Rank[4]' = Rank[4]
  /\ emitted' = emitted => Rank[5]' = Rank[5]
  /\ interaction' = interaction => Rank[6]' = Rank[6]
  /\ (\A c \in Call : OutgoingRank(c)' = OutgoingRank(c)) => Rank[7]' = Rank[7]
  /\ sending' = sending => Rank[8]' = Rank[8]
<1>1. ASSUME \A c \in Call : CallerRank(c)' = CallerRank(c)
      PROVE  Rank[1]' = Rank[1]
  BY <1>1 DEF Rank
<1>2. ASSUME handle' = handle
      PROVE  Rank[2]' = Rank[2]
  BY <1>2 DEF Rank
<1>3. ASSUME \A p \in Peer : Alive(p)' = Alive(p)
      PROVE  Rank[3]' = Rank[3]
  BY <1>3 DEF Rank
<1>4. ASSUME \A c \in Call : HandlerRank(c)' = HandlerRank(c)
      PROVE  Rank[4]' = Rank[4]
  BY <1>4 DEF Rank
<1>5. ASSUME emitted' = emitted
      PROVE  Rank[5]' = Rank[5]
  BY <1>5 DEF Rank
<1>6. ASSUME interaction' = interaction
      PROVE  Rank[6]' = Rank[6]
  BY <1>6 DEF Rank
<1>7. ASSUME \A c \in Call : OutgoingRank(c)' = OutgoingRank(c)
      PROVE  Rank[7]' = Rank[7]
  BY <1>7 DEF Rank
<1>8. ASSUME sending' = sending
      PROVE  Rank[8]' = Rank[8]
  BY <1>8 DEF Rank
<1>9. QED
  BY <1>1, <1>2, <1>3, <1>4, <1>5, <1>6, <1>7, <1>8

\* The values of the ranks.
RankOK ==
  /\ \A c \in Call : /\ CallerRank(c) \in 0 .. 2 /\ HandlerRank(c) \in 0 .. 4
                     /\ OutgoingRank(c) \in Nat
  /\ \A p \in Peer : /\ Len(interaction[p]) \in Nat /\ Len(sending[p]) \in Nat
                     /\ Len(inbox[p]) \in Nat

\* The parts of the rank are natural numbers.
LEMMA RankTypes == TypeOK => RankOK
<1> SUFFICES ASSUME TypeOK
             PROVE  RankOK
  OBVIOUS
<1>1. ASSUME NEW c \in Call
      PROVE  OutgoingRank(c) \in Nat
  <2>1. Len(outgoing_stream[c]) \in Nat
    BY Types
  <2>2. CASE outgoing_responses[c] = "none"
    BY <2>1, <2>2 DEF OutgoingRank
  <2>3. CASE outgoing_responses[c] # "none"
    BY <2>1, <2>3 DEF OutgoingRank
  <2>4. QED
    BY <2>2, <2>3
<1>2. ASSUME NEW p \in Peer
      PROVE  /\ Len(interaction[p]) \in Nat /\ Len(sending[p]) \in Nat
             /\ Len(inbox[p]) \in Nat
  BY DEF TypeOK, ServiceTypeOK
<1>3. QED
  BY <1>1, <1>2 DEF CallerRank, HandlerRank, RankOK

\* So are those after a step.
LEMMA RankTypesNext == TypeOK' => RankOK'
BY RankTypes, PTL

\* A caller goes on, and none goes back.
LEMMA LowerCaller ==
  ASSUME NEW c \in Call, CallerRank(c)' < CallerRank(c),
         \A d \in Call : d # c => CallerRank(d)' = CallerRank(d)
  PROVE  Advance
<1> DEFINE f == [d \in Call |-> CallerRank(d)]
<1>1. \A d \in Call : CallerRank(d) \in 0 .. 2 /\ CallerRank(d)' \in 0 .. 2
  BY DEF CallerRank
<1>2. \A d \in Call : f[d] = CallerRank(d) /\ f'[d] = CallerRank(d)'
  OBVIOUS
<1>3. Below(f', f)
  BY <1>1, <1>2, BelowAt
<1>4. Below(Rank[1]', Rank[1])
  BY <1>3 DEF Rank
<1>5. QED
  BY <1>4, AdvanceAt

\* A service ends, and none comes back.
LEMMA LowerAlive ==
  ASSUME NEW p \in Peer, Alive(p), ~ Alive(p)', \A q \in Peer : q # p => Alive(q)' = Alive(q),
         \A c \in Call : CallerRank(c)' = CallerRank(c), UNCHANGED handle
  PROVE  Advance
<1> DEFINE f == [q \in Peer |-> IF Alive(q) THEN 1 ELSE 0]
<1>1. /\ f[p] = 1 /\ f'[p] = 0
      /\ \A q \in Peer : f[q] \in {0, 1} /\ (q # p => f'[q] = f[q])
  OBVIOUS
<1>2. Below(f', f)
  BY <1>1, BelowAt
<1>3. Below(Rank[3]', Rank[3])
  BY <1>2 DEF Rank
<1>4. Rank[1]' = Rank[1] /\ Rank[2]' = Rank[2]
  BY RankSame
<1>5. QED
  BY <1>3, <1>4, AdvanceAt

\* A handler goes on, and none goes back.
LEMMA LowerHandler ==
  ASSUME NEW c \in Call, HandlerRank(c)' < HandlerRank(c),
         \A d \in Call : d # c => HandlerRank(d)' = HandlerRank(d),
         \A d \in Call : CallerRank(d)' = CallerRank(d), UNCHANGED handle,
         \A p \in Peer : Alive(p)' = Alive(p)
  PROVE  Advance
<1> DEFINE f == [d \in Call |-> HandlerRank(d)]
<1>1. \A d \in Call : HandlerRank(d) \in 0 .. 4 /\ HandlerRank(d)' \in 0 .. 4
  BY DEF HandlerRank
<1>2. \A d \in Call : f[d] = HandlerRank(d) /\ f'[d] = HandlerRank(d)'
  OBVIOUS
<1>3. Below(f', f)
  BY <1>1, <1>2, BelowAt
<1>4. Below(Rank[4]', Rank[4])
  BY <1>3 DEF Rank
<1>5. Rank[1]' = Rank[1] /\ Rank[2]' = Rank[2] /\ Rank[3]' = Rank[3]
  BY RankSame
<1>6. QED
  BY <1>4, <1>5, AdvanceAt

\* What a step keeps that only moves messages.
SameCalls ==
  /\ \A c \in Call : CallerRank(c)' = CallerRank(c) /\ HandlerRank(c)' = HandlerRank(c)
  /\ UNCHANGED <<handle, emitted>>
  /\ \A p \in Peer : Alive(p)' = Alive(p)

\* It leaves the first five components of the rank alone.
LEMMA SameCallsRank ==
  ASSUME SameCalls
  PROVE  \A k \in 1 .. 5 : Rank[k]' = Rank[k]
<1>1. /\ Rank[1]' = Rank[1] /\ Rank[2]' = Rank[2] /\ Rank[3]' = Rank[3]
      /\ Rank[4]' = Rank[4] /\ Rank[5]' = Rank[5]
  BY RankSame DEF SameCalls
<1>2. \A k \in 1 .. 5 : k = 1 \/ k = 2 \/ k = 3 \/ k = 4 \/ k = 5
  OBVIOUS
<1>3. QED
  BY <1>1, <1>2

\* A call leaves the handle's channel.
LEMMA LowerInteraction ==
  ASSUME SameCalls, NEW p \in Peer, TypeOK, TypeOK',
         Len(interaction'[p]) < Len(interaction[p]),
         \A q \in Peer : q # p => interaction'[q] = interaction[q]
  PROVE  Advance
<1> DEFINE f == [q \in Peer |-> Len(interaction[q])]
<1>1. \A q \in Peer : /\ Len(interaction[q]) \in Nat /\ Len(interaction'[q]) \in Nat
                      /\ f[q] = Len(interaction[q]) /\ f'[q] = Len(interaction'[q])
  BY RankTypes, RankTypesNext DEF RankOK
<1>2. Below(f', f)
  <2>1. DOMAIN f = Peer
    OBVIOUS
  <2> HIDE DEF f
  <2>2. /\ f'[p] # f[p]
        /\ \A q \in Peer : f'[q] \in Nat /\ f'[q] <= f[q]
    BY <1>1
  <2>3. QED
    BY <2>1, <2>2, BelowAt
<1>3. Below(Rank[6]', Rank[6])
  BY <1>2 DEF Rank
<1>4. QED
  BY <1>3, SameCallsRank, AdvanceAt

\* What a handler left is sent.
LEMMA LowerOutgoing ==
  ASSUME SameCalls, UNCHANGED interaction, NEW c \in Call, TypeOK, TypeOK',
         OutgoingRank(c)' < OutgoingRank(c),
         \A d \in Call : d # c => OutgoingRank(d)' = OutgoingRank(d)
  PROVE  Advance
<1> DEFINE f == [d \in Call |-> OutgoingRank(d)]
<1>1. /\ \A d \in Call : OutgoingRank(d) \in Nat
      /\ \A d \in Call : OutgoingRank(d)' \in Nat
  BY RankTypes, RankTypesNext DEF RankOK
<1>2. \A d \in Call : f[d] = OutgoingRank(d) /\ f'[d] = OutgoingRank(d)'
  OBVIOUS
<1>3. Below(f', f)
  BY <1>1, <1>2, BelowAt
<1>4. Below(Rank[7]', Rank[7])
  BY <1>3 DEF Rank
<1>5. Rank[6]' = Rank[6]
  BY RankSame
<1>6. QED
  BY <1>4, <1>5, SameCallsRank, AdvanceAt

\* What a service was sending is on the connection.
LEMMA LowerSending ==
  ASSUME SameCalls, UNCHANGED <<interaction, outVars>>, NEW p \in Peer, TypeOK, TypeOK',
         Len(sending'[p]) < Len(sending[p]),
         \A q \in Peer : q # p => sending'[q] = sending[q]
  PROVE  Advance
<1> DEFINE f == [q \in Peer |-> Len(sending[q])]
<1>1. \A q \in Peer : /\ Len(sending[q]) \in Nat /\ Len(sending'[q]) \in Nat
                      /\ f[q] = Len(sending[q]) /\ f'[q] = Len(sending'[q])
  BY RankTypes, RankTypesNext DEF RankOK
<1>2. Below(f', f)
  <2>1. DOMAIN f = Peer
    OBVIOUS
  <2> HIDE DEF f
  <2>2. /\ f'[p] # f[p]
        /\ \A q \in Peer : f'[q] \in Nat /\ f'[q] <= f[q]
    BY <1>1
  <2>3. QED
    BY <2>1, <2>2, BelowAt
<1>3. Below(Rank[8]', Rank[8])
  BY <1>2 DEF Rank
<1>4. Rank[6]' = Rank[6] /\ Rank[7]' = Rank[7]
  BY RankSame DEF outVars, OutgoingRank
<1>5. QED
  BY <1>3, <1>4, SameCallsRank, AdvanceAt

\* A message is taken.
LEMMA LowerInbox ==
  ASSUME SameCalls, UNCHANGED <<interaction, outVars, sending>>, NEW p \in Peer, TypeOK, TypeOK',
         Len(inbox'[p]) < Len(inbox[p]),
         \A q \in Peer : q # p => inbox'[q] = inbox[q]
  PROVE  Advance
<1> DEFINE f == [q \in Peer |-> Len(inbox[q])]
<1>1. \A q \in Peer : /\ Len(inbox[q]) \in Nat /\ Len(inbox'[q]) \in Nat
                      /\ f[q] = Len(inbox[q]) /\ f'[q] = Len(inbox'[q])
  BY RankTypes, RankTypesNext DEF RankOK
<1>2. Below(f', f)
  <2>1. DOMAIN f = Peer
    OBVIOUS
  <2> HIDE DEF f
  <2>2. /\ f'[p] # f[p]
        /\ \A q \in Peer : f'[q] \in Nat /\ f'[q] <= f[q]
    BY <1>1
  <2>3. QED
    BY <2>1, <2>2, BelowAt
<1>3. Below(Rank[9]', Rank[9])
  BY <1>2 DEF Rank
<1>4. Rank[6]' = Rank[6] /\ Rank[7]' = Rank[7] /\ Rank[8]' = Rank[8]
  BY RankSame DEF outVars, OutgoingRank
<1>5. QED
  BY <1>3, <1>4, SameCallsRank, AdvanceAt

\* A message that is taken leaves its place on the connection.
LEMMA TakeLess ==
  ASSUME TypeOK, NEW p \in Peer, NEW kind, Take(p, kind)
  PROVE  /\ Len(inbox'[p]) < Len(inbox[p])
         /\ \A q \in Peer : q # p => inbox'[q] = inbox[q]
         /\ loop[p] = "select"
<1>1. inbox[p] \in Seq(Message) /\ inbox[p] # <<>> /\ inbox'[p] = Tail(inbox[p])
  BY DEF Take, TypeOK, ServiceTypeOK
<1>2. Len(Tail(inbox[p])) < Len(inbox[p])
  BY <1>1
<1>3. QED
  BY <1>1, <1>2 DEF Take, TypeOK, ServiceTypeOK

\* The application's steps: a call is made or given up, a handle or a service goes.
LEMMA ApplicationAdvances ==
  ASSUME TypeOK, Application \/ \E c \in Call : CallPanics(c) \/ StreamCut(c)
  PROVE  Advance
<1>1. ASSUME NEW c \in Call, NEW i \in Id, NEW state \in {"waiting", "open", "sent"},
             Begin(c, i, state)
      PROVE  Advance
  <2>1. /\ caller[c] = "idle" /\ caller'[c] = state
        /\ \A d \in Call : d # c => caller'[d] = caller[d]
    BY <1>1 DEF Begin, TypeOK, ServiceTypeOK
  <2>2. QED
    BY <2>1, LowerCaller DEF CallerRank
<1>2. ASSUME NEW c \in Call,
             CancelCall(c) \/ DropStream(c) \/ CallPanics(c) \/ StreamCut(c)
      PROVE  Advance
  <2>1. /\ caller[c] \in {"waiting", "open"}
        /\ caller'[c] \in {"cancelled", "dropped", "panicked", "cut"}
        /\ \A d \in Call : d # c => caller'[d] = caller[d]
    BY <1>2 DEF CancelCall, DropStream, CallPanics, StreamCut, TypeOK, ServiceTypeOK
  <2>2. QED
    BY <2>1, LowerCaller DEF CallerRank
<1>3. ASSUME NEW p \in Peer, DropHandle(p)
      PROVE  Advance
  <2>1. /\ handle[p] = "held" /\ handle'[p] = "dropped"
        /\ \A q \in Peer : q # p => handle'[q] = handle[q]
        /\ UNCHANGED caller
    BY <1>3 DEF DropHandle, callerVars, TypeOK, ServiceTypeOK
  <2> DEFINE f == [q \in Peer |-> IF handle[q] = "held" THEN 1 ELSE 0]
  <2>2. /\ f[p] = 1 /\ f'[p] = 0
        /\ \A q \in Peer : f[q] \in {0, 1} /\ (q # p => f'[q] = f[q])
    BY <2>1
  <2>3. Below(f', f)
    BY <2>2, BelowAt
  <2>4. Below(Rank[2]', Rank[2])
    BY <2>3 DEF Rank
  <2>5. Rank[1]' = Rank[1]
    BY <2>1, RankSame DEF CallerRank
  <2>6. QED
    BY <2>4, <2>5, AdvanceAt
<1>4. ASSUME NEW p \in Peer, StopService(p)
      PROVE  Advance
  <2>1. /\ Alive(p) /\ ~ Alive(p)' /\ UNCHANGED <<caller, handle>>
        /\ \A q \in Peer : q # p => Alive(q)' = Alive(q)
    BY <1>4 DEF StopService, Alive, handleVars, callerVars, TypeOK, ServiceTypeOK
  <2>2. QED
    BY <2>1, LowerAlive DEF CallerRank
<1>5. ASSUME NEW c \in Call, NEW i \in Id, send_request(c, i) \/ send_stream(c, i)
      PROVE  Advance
  BY <1>1, <1>5 DEF send_request, send_stream
<1>6. ASSUME NEW c \in Call, send_oneshot(c)
      PROVE  Advance
  <2>1. call_id[c] \in Id
    BY Types
  <2>2. QED
    BY <1>1, <1>6, <2>1 DEF send_oneshot
<1>7. QED
  BY <1>2, <1>3, <1>4, <1>5, <1>6 DEF Application

\* A handler's step: it ends, or emits one of finitely many items.
LEMMA HandlerAdvances ==
  ASSUME TypeOK, EmittedOK, NEW c \in Call,
         FinishHandler(c) \/ FailHandler(c) \/ ReturnInline(c) \/ EmitItem(c)
  PROVE  Advance
<1>1. UNCHANGED <<caller, handle>>
  BY DEF FinishHandler, FailHandler, ReturnInline, EmitItem, handleVars, callerVars
<1>2. \A p \in Peer : Alive(p)' = Alive(p)
  <2>1. \/ UNCHANGED loop
        \/ /\ loop[Server(c)] = "handle" /\ loop' = [loop EXCEPT ![Server(c)] = "select"]
    BY DEF FinishHandler, FailHandler, ReturnInline, EmitItem, loopVars
  <2>2. QED
    BY <2>1, ServerFact DEF Alive, TypeOK, ServiceTypeOK
<1>3. \A d \in Call : CallerRank(d)' = CallerRank(d)
  BY <1>1 DEF CallerRank
<1>4. ASSUME handler[c] \in {"running", "called"}, handler' # handler,
             \E state \in {"finished", "failed", "running"} :
               /\ handler' = [handler EXCEPT ![c] = state]
               /\ state = "running" => handler[c] = "called"
      PROVE  Advance
  <2>1. /\ HandlerRank(c)' < HandlerRank(c)
        /\ \A d \in Call : d # c => HandlerRank(d)' = HandlerRank(d)
    BY <1>4 DEF HandlerRank, TypeOK
  <2>2. QED
    BY <1>1, <1>2, <1>3, <2>1, LowerHandler
<1>5. ASSUME UNCHANGED handler, emitted[c] < MaxItems, emitted' = [emitted EXCEPT ![c] = @ + 1]
      PROVE  Advance
  <2> DEFINE f == [d \in Call |-> MaxItems - emitted[d]]
  <2>1. /\ emitted \in [Call -> Nat] /\ MaxItems \in Nat
        /\ \A d \in Call : emitted[d] <= MaxItems
    BY RpcAssumption DEF TypeOK, EmittedOK
  <2>2. /\ emitted'[c] = emitted[c] + 1
        /\ \A d \in Call : d # c => emitted'[d] = emitted[d]
    BY <1>5, <2>1
  <2>3. /\ f[c] # f'[c]
        /\ \A d \in Call : f'[d] \in Nat /\ f'[d] <= f[d]
    BY <1>5, <2>1, <2>2
  <2>4. Below(f', f)
    BY <2>3, BelowAt
  <2>5. Below(Rank[5]', Rank[5])
    BY <2>4 DEF Rank
  <2>6. \A d \in Call : HandlerRank(d)' = HandlerRank(d)
    BY <1>5 DEF HandlerRank
  <2>7. Rank[1]' = Rank[1] /\ Rank[2]' = Rank[2] /\ Rank[3]' = Rank[3] /\ Rank[4]' = Rank[4]
    BY <1>1, <1>2, <1>3, <2>6, RankSame
  <2>8. QED
    BY <2>5, <2>7, AdvanceAt
<1>6. CASE FinishHandler(c) \/ FailHandler(c) \/ ReturnInline(c)
  <2>1. /\ handler[c] \in {"running", "called"}
        /\ \E state \in {"finished", "failed", "running"} :
               /\ handler' = [handler EXCEPT ![c] = state]
               /\ state = "running" => handler[c] = "called"
        /\ handler'[c] # handler[c]
    BY <1>6 DEF FinishHandler, FailHandler, ReturnInline, TypeOK
  <2>2. QED
    BY <1>4, <2>1
<1>7. CASE EmitItem(c)
  <2>1. CASE Alive(Server(c))
    BY <1>5, <1>7, <2>1 DEF EmitItem
  <2>2. CASE ~ Alive(Server(c))
    <3>1. handler[c] = "running" /\ handler' = [handler EXCEPT ![c] = "failed"]
      BY <1>7, <2>2 DEF EmitItem
    <3>2. handler' # handler
      BY <3>1 DEF TypeOK
    <3>3. QED
      BY <1>4, <3>1, <3>2
  <2>3. QED
    BY <2>1, <2>2
<1>8. QED
  BY <1>6, <1>7

\* The service goes with the handler that panics in it.
LEMMA FailInlineAdvances ==
  ASSUME TypeOK, NEW c \in Call, FailInline(c)
  PROVE  Advance
<1>1. /\ Alive(Server(c)) /\ ~ Alive(Server(c))' /\ UNCHANGED <<caller, handle>>
      /\ \A q \in Peer : q # Server(c) => Alive(q)' = Alive(q)
  BY LoopType, ServerFact DEF FailInline, Alive, handleVars, callerVars
<1>2. QED
  BY <1>1, ServerFact, LowerAlive DEF CallerRank

\* A message taken: its call goes on, or the service ends, or the message is gone.
LEMMA ReceiveAdvances ==
  ASSUME IInv, TypeOK', NEW p \in Peer, Receive(p)
  PROVE  Advance
<1>0. TypeOK
  BY DEF IInv
<1>1. CASE Service(TakeResponse(p))
  <2>1. PICK m \in Message : m = Head(inbox[p]) /\ m.id \in Id
    BY <1>1, TakeFacts, TakeResponseEffect
  <2>2. PICK d \in Call \union {NoCall} : d = incoming_responses[p][m.id]
    BY <1>0, <2>1, EntryType
  <2>3. /\ UNCHANGED <<loop, sending, interaction, handle, outVars, handler, emitted>>
        /\ Take(p, "Response")
    BY <1>1, TakeResponseEffect DEF outVars
  <2>4. caller' = IF d = NoCall THEN caller
                  ELSE [caller EXCEPT ![d] = IF @ = "waiting" THEN "answered" ELSE @]
    BY <1>1, <2>1, <2>2, TakeResponseEffect
  <2>5. CASE d # NoCall /\ caller[d] = "waiting"
    <3>1. /\ d \in Call /\ caller'[d] = "answered"
          /\ \A e \in Call : e # d => caller'[e] = caller[e]
      BY <1>0, <2>4, <2>5, CallerType
    <3>2. QED
      BY <2>5, <3>1, LowerCaller DEF CallerRank
  <2>6. CASE ~ (d # NoCall /\ caller[d] = "waiting")
    <3>1. \A e \in Call : caller'[e] = caller[e]
      BY <1>0, <2>4, <2>6, CallerType
    <3>2. SameCalls
      BY <2>3, <3>1 DEF SameCalls, CallerRank, HandlerRank, Alive
    <3>3. QED
      BY <1>0, <2>3, <3>2, TakeLess, LowerInbox
  <2>7. QED
    BY <2>5, <2>6, Zenon
<1>2. CASE Service(TakeStreamMessage(p))
  <2>1. /\ UNCHANGED <<sending, interaction, handle, outVars, caller, handler, emitted>>
        /\ Take(p, "StreamMessage")
        /\ UNCHANGED loop \/ loop' = [loop EXCEPT ![p] = "panicked"]
    BY <1>2, Zenon DEF Service, TakeStreamMessage, handleVars
  <2>2. CASE UNCHANGED loop
    <3>1. SameCalls
      BY <2>1, <2>2 DEF SameCalls, CallerRank, HandlerRank, Alive
    <3>2. QED
      BY <1>0, <2>1, <3>1, TakeLess, LowerInbox
  <2>3. CASE loop' = [loop EXCEPT ![p] = "panicked"]
    <3>1. /\ Alive(p) /\ ~ Alive(p)'
          /\ \A q \in Peer : q # p => Alive(q)' = Alive(q)
      BY <1>0, <2>1, <2>3, LoopType DEF Take, Alive
    <3>2. QED
      BY <2>1, <3>1, LowerAlive DEF CallerRank
  <2>4. QED
    BY <2>1, <2>2, <2>3, Zenon
<1>3. CASE Service(TakeClose(p))
  <2>1. PICK m \in Message : m = Head(inbox[p]) /\ m.id \in Id
    BY <1>3, TakeFacts, TakeCloseEffect
  <2>2. PICK d \in Call \union {NoCall} : d = incoming_streams[p][m.id]
    BY <1>0, <2>1, EntryType
  <2>3. /\ UNCHANGED <<sending, interaction, handle, outVars, handler, emitted>>
        /\ Take(p, "CloseStream")
        /\ \/ /\ d # NoCall /\ UNCHANGED loop
              /\ caller' = [caller EXCEPT ![d] = IF @ = "open" THEN "ended" ELSE @]
           \/ /\ UNCHANGED caller
              /\ loop' = [loop EXCEPT ![p] = "panicked"]
    BY <1>3, <2>1, <2>2, TakeCloseEffect DEF outVars
  <2>4. CASE UNCHANGED caller /\ loop' = [loop EXCEPT ![p] = "panicked"]
    <3>1. /\ Alive(p) /\ ~ Alive(p)'
          /\ \A q \in Peer : q # p => Alive(q)' = Alive(q)
      BY <1>0, <2>3, <2>4, LoopType DEF Take, Alive
    <3>2. QED
      BY <2>3, <2>4, <3>1, LowerAlive DEF CallerRank
  <2>5. CASE /\ d # NoCall /\ UNCHANGED loop /\ caller[d] = "open"
             /\ caller' = [caller EXCEPT ![d] = IF @ = "open" THEN "ended" ELSE @]
    <3>1. /\ d \in Call /\ caller'[d] = "ended"
          /\ \A e \in Call : e # d => caller'[e] = caller[e]
      BY <1>0, <2>5, CallerType
    <3>2. QED
      BY <2>5, <3>1, LowerCaller DEF CallerRank
  <2>6. CASE /\ d # NoCall /\ UNCHANGED loop /\ caller[d] # "open"
             /\ caller' = [caller EXCEPT ![d] = IF @ = "open" THEN "ended" ELSE @]
    <3>1. \A e \in Call : caller'[e] = caller[e]
      BY <1>0, <2>6, CallerType
    <3>2. SameCalls
      BY <2>3, <2>6, <3>1 DEF SameCalls, CallerRank, HandlerRank, Alive
    <3>3. QED
      BY <1>0, <2>3, <3>2, TakeLess, LowerInbox
  <2>7. QED
    BY <2>3, <2>4, <2>5, <2>6, Zenon
<1>4. CASE ServeRequest(p) \/ ServeStream(p) \/ ServeOneshot(p) \/ HandleInline(p)
  <2>1. PICK kind \in {"Request", "OpenStream", "Oneshot"} :
          Take(p, kind) /\ UNCHANGED sending
    BY <1>4 DEF ServeRequest, ServeStream, ServeOneshot, HandleInline
  <2>2. PICK m \in Message :
          /\ m = Head(inbox[p]) /\ m.kind = kind /\ MessageOK(Other(p), m) /\ m.data \in Call
    BY <2>1, TakeFacts
  <2>3. handler[m.data] = "none"
    BY <2>2 DEF MessageOK
  <2>4. /\ UNCHANGED <<caller, handle>>
        /\ \E state \in {"running", "called"} : handler' = [handler EXCEPT ![m.data] = state]
        /\ UNCHANGED loop \/ loop' = [loop EXCEPT ![p] = "handle"]
    BY <1>4, <2>2 DEF ServeRequest, ServeStream, ServeOneshot, HandleInline, handleVars,
                      callerVars
  <2>5. \A q \in Peer : Alive(q)' = Alive(q)
    BY <1>0, <2>1, <2>4, LoopType DEF Take, Alive
  <2>6. /\ HandlerRank(m.data)' < HandlerRank(m.data)
        /\ \A d \in Call : d # m.data => HandlerRank(d)' = HandlerRank(d)
    BY <1>0, <2>2, <2>3, <2>4 DEF HandlerRank, TypeOK
  <2>7. \A d \in Call : CallerRank(d)' = CallerRank(d)
    BY <2>4 DEF CallerRank
  <2>8. QED
    BY <2>2, <2>4, <2>5, <2>6, <2>7, LowerHandler
<1>5. QED
  BY <1>1, <1>2, <1>3, <1>4 DEF Receive

\* What is sent was taken from a channel; what is no longer sent is lost or there.
LEMMA SendAdvances ==
  ASSUME TypeOK, TypeOK', NEW p \in Peer,
         \/ EndSend(p) \/ Service(TakeEnd(p)) \/ Service(SendInteraction(p))
         \/ \E c \in Call :
              Service(SendItem(p, c)) \/ Service(SendResponse(p, c)) \/ CloseStream(p, c)
  PROVE  Advance
<1>1. UNCHANGED <<caller, handle, emitted>> /\ loop[p] \in {"select", "send"}
  BY DEF EndSend, Service, FinishSend, FailSend, TakeEnd, SendInteraction, SendItem,
         SendResponse, CloseStream, handleVars, callerVars
<1>2. ASSUME UNCHANGED handler,
             \/ loop' = [loop EXCEPT ![p] = "select"]
             \/ \E m : Send(p, m)
      PROVE  SameCalls
  <2>1. \A q \in Peer : Alive(q)' = Alive(q)
    BY <1>1, <1>2, LoopType DEF Send, Alive
  <2>2. QED
    BY <1>1, <1>2, <2>1 DEF SameCalls, CallerRank, HandlerRank
<1>3. ASSUME \E how \in {"ended", "failed", "panicked"} : loop' = [loop EXCEPT ![p] = how]
      PROVE  Advance
  <2>1. /\ Alive(p) /\ ~ Alive(p)'
        /\ \A q \in Peer : q # p => Alive(q)' = Alive(q)
    BY <1>1, <1>3, Z3 DEF Alive, TypeOK, ServiceTypeOK
  <2>2. QED
    BY <1>1, <2>1, LowerAlive DEF CallerRank
<1>4. CASE Service(FinishSend(p))
  <2>1. SameCalls /\ UNCHANGED <<interaction, outVars>>
    BY <1>2, <1>4 DEF Service, FinishSend, handleVars
  <2>2. /\ Len(sending[p]) = 1 /\ sending'[p] = <<>>
        /\ \A q \in Peer : q # p => sending'[q] = sending[q]
    BY <1>4 DEF Service, FinishSend, TypeOK, ServiceTypeOK
  <2>3. Len(sending'[p]) < Len(sending[p])
    BY <2>2
  <2>4. QED
    BY <2>1, <2>2, <2>3, LowerSending
<1>5. CASE Service(FailSend(p)) \/ Service(TakeEnd(p))
  BY <1>3, <1>5 DEF Service, FailSend, TakeEnd
<1>6. CASE Service(SendInteraction(p))
  <2>1. SameCalls
    BY <1>2, <1>6 DEF Service, SendInteraction
  <2>2. /\ interaction[p] \in Seq(Call) /\ interaction[p] # <<>>
        /\ interaction'[p] = Tail(interaction[p])
        /\ \A q \in Peer : q # p => interaction'[q] = interaction[q]
    BY <1>6 DEF Service, SendInteraction, TypeOK, ServiceTypeOK
  <2>3. Len(interaction'[p]) < Len(interaction[p])
    BY <2>2
  <2>4. QED
    BY <2>1, <2>2, <2>3, LowerInteraction
<1>7. ASSUME NEW c \in Call, Service(SendItem(p, c))
      PROVE  Advance
  <2>1. SameCalls /\ UNCHANGED <<interaction, outgoing_responses>>
    BY <1>2, <1>7 DEF Service, SendItem, handleVars
  <2>2. /\ outgoing_stream[c] \in Seq(Nat) /\ outgoing_stream[c] # <<>>
        /\ outgoing_stream'[c] = Tail(outgoing_stream[c])
        /\ \A d \in Call : d # c => outgoing_stream'[d] = outgoing_stream[d]
    BY <1>7 DEF Service, SendItem, TypeOK, ServiceTypeOK
  <2>3. /\ Len(outgoing_stream'[c]) \in Nat /\ Len(outgoing_stream[c]) \in Nat
        /\ Len(outgoing_stream'[c]) < Len(outgoing_stream[c])
    BY <2>2
  <2>4. OutgoingRank(c)' < OutgoingRank(c)
    <3>1. CASE outgoing_responses[c] = "none"
      BY <2>1, <2>3, <3>1 DEF OutgoingRank
    <3>2. CASE outgoing_responses[c] # "none"
      BY <2>1, <2>3, <3>2 DEF OutgoingRank
    <3>3. QED
      BY <3>1, <3>2
  <2>5. \A d \in Call : d # c => OutgoingRank(d)' = OutgoingRank(d)
    BY <2>1, <2>2 DEF OutgoingRank
  <2>6. QED
    BY <2>1, <2>4, <2>5, LowerOutgoing
<1>8. ASSUME NEW c \in Call, Service(SendResponse(p, c))
      PROVE  Advance
  <2>1. CASE loop' = [loop EXCEPT ![p] = "panicked"]
    BY <1>3, <2>1
  <2>2. CASE loop' # [loop EXCEPT ![p] = "panicked"]
    <3>1. /\ \E m : Send(p, m)
          /\ UNCHANGED <<interaction, outgoing_stream, handler>>
          /\ outgoing_responses[c] = "ready"
          /\ outgoing_responses' = [outgoing_responses EXCEPT ![c] = "none"]
      BY <1>8, <2>2 DEF Service, SendResponse, handleVars
    <3>2. SameCalls
      BY <1>2, <3>1
    <3>3. /\ outgoing_responses'[c] = "none"
          /\ \A d \in Call : d # c => outgoing_responses'[d] = outgoing_responses[d]
      BY <3>1 DEF TypeOK, ServiceTypeOK
    <3>4. Len(outgoing_stream[c]) \in Nat
      BY Types
    <3>5. /\ OutgoingRank(c)' < OutgoingRank(c)
          /\ \A d \in Call : d # c => OutgoingRank(d)' = OutgoingRank(d)
      BY <3>1, <3>3, <3>4 DEF OutgoingRank
    <3>6. QED
      BY <3>1, <3>2, <3>5, LowerOutgoing
  <2>3. QED
    BY <2>1, <2>2
<1>9. ASSUME NEW c \in Call, CloseStream(p, c)
      PROVE  Advance
  <2>1. /\ HandlerRank(c)' < HandlerRank(c)
        /\ \A d \in Call : d # c => HandlerRank(d)' = HandlerRank(d)
    BY <1>9 DEF CloseStream, HandlerRank, TypeOK
  <2>2. \A q \in Peer : Alive(q)' = Alive(q)
    BY <1>9 DEF CloseStream, Send, Alive, TypeOK, ServiceTypeOK
  <2>3. \A d \in Call : CallerRank(d)' = CallerRank(d)
    BY <1>1 DEF CallerRank
  <2>4. QED
    BY <1>1, <2>1, <2>2, <2>3, LowerHandler
<1>10. QED
  BY <1>4, <1>5, <1>6, <1>7, <1>8, <1>9 DEF EndSend

(***************************************************************************)
(* Every step lowers what is left to happen: with finitely many calls the  *)
(* two services come to rest, whatever the order of the steps, and no      *)
(* fairness is needed for that.                                            *)
(***************************************************************************)
THEOREM StepsComeToAnEnd == SafeSpec => StepsAdvance
<1>1. SafeSpec => []IInv
  BY Invariance
<1>2. SafeSpec => []ProgressInv
  BY <1>1, InitProgress, NextProgress, PTL DEF SafeSpec
<1>3. ASSUME IInv, IInv', ProgressInv, Next
      PROVE  Advance
  <2>1. TypeOK /\ TypeOK' /\ EmittedOK
    BY <1>3 DEF IInv, ProgressInv
  <2>2. QED
    BY <1>3, <2>1, ApplicationAdvances, HandlerAdvances, FailInlineAdvances, ReceiveAdvances,
           SendAdvances
       DEF Next, EndHandler
<1>4. IInv /\ IInv' /\ ProgressInv /\ [Next]_vars => [Advance]_vars
  BY <1>3
<1>5. QED
  BY <1>1, <1>2, <1>4, PTL DEF SafeSpec, StepsAdvance

=============================================================================
