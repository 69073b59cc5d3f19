------------------------------ MODULE RpcSystem ------------------------------
(***************************************************************************)
(* Two peers with their SansServices, the applications that make calls     *)
(* through the handles (handle.rs), and the loops that hand what           *)
(* next_message returns to handlers: ServiceInner (service.rs) spawns a    *)
(* task for each, the service of the facade crate (sansrpc/src/lib.rs)     *)
(* awaits them in the loop and spawns only what emits a stream's items.    *)
(* The connection is a message channel each way, as FramedLink and         *)
(* TokioConnection implement it, that holds ChannelSize messages.          *)
(***************************************************************************)
EXTENDS SansService, Functions

CONSTANTS
  Inline,          \* the peers that await their handlers in the loop
  OneThread,       \* the peers whose tasks and I/O share the loop's thread
  Reused,          \* the ids the application uses again for a request when
                   \* it gave up the request that had them
  MaxItems         \* bound on the items a handler emits on a stream

ASSUME RpcAssumption ==
  /\ Inline \subseteq Peer
  /\ OneThread \subseteq Peer
  /\ Reused \subseteq Id
  /\ MaxItems \in Nat

VARIABLES
  handler,         \* call -> state of the task that handles it
  emitted          \* history: call -> items its handler emitted

vars == <<serviceVars, handler, emitted>>

TypeOK ==
  /\ ServiceTypeOK
  /\ handler \in [Call -> {"none", "called", "running", "finished", "failed",
                           "panicked", "closed"}]
  /\ emitted \in [Call -> Nat]

Init ==
  /\ ServiceInit
  /\ handler = [c \in Call |-> "none"]
  /\ emitted = [c \in Call |-> 0]

-----------------------------------------------------------------------------
(***************************************************************************)
(* A loop that spins never returns to its executor: on one thread no other *)
(* task runs and no I/O completes.                                         *)
(***************************************************************************)
Starved(p) == p \in OneThread /\ Spinning(p)

-----------------------------------------------------------------------------
(* The application: ServiceHandle.                                         *)

\* The handle is borrowed exclusively while a send_request is under way.
HandleFree(p) == \A c \in Call : Owner[c] = p => caller[c] # "waiting"

\* The id is not that of a call of the same kind that may still be answered,
\* unless the application thinks no more of a request it gave up.
IdFree(c, i) ==
  \A d \in Call : /\ Owner[d] = Owner[c] /\ Kind[d] = Kind[c]
                  /\ \/ caller[d] \in {"waiting", "open", "dropped"}
                     \/ caller[d] = "cancelled" /\ i \notin Reused
                  => call_id[d] # i

\* unbounded_send fails when the service is gone, and drops what it was given.
Interact(c) ==
  interaction' = IF Alive(Owner[c])
                 THEN [interaction EXCEPT ![Owner[c]] = Append(@, c)]
                 ELSE interaction

Begin(c, i, state) ==
  /\ caller[c] = "idle"
  /\ handle[Owner[c]] = "held"
  /\ HandleFree(Owner[c])
  /\ caller' = [caller EXCEPT ![c] = state]
  /\ call_id' = [call_id EXCEPT ![c] = i]
  /\ Interact(c)
  /\ UNCHANGED <<loopVars, handle, tableVars, outVars, answer, received, handler,
                 emitted>>

send_request(c, i) == Kind[c] = "request" /\ IdFree(c, i) /\ Begin(c, i, "waiting")
send_stream(c, i)  == Kind[c] = "stream" /\ IdFree(c, i) /\ Begin(c, i, "open")
send_oneshot(c)    == Kind[c] = "oneshot" /\ Begin(c, call_id[c], "sent")

\* The messages p has sent and the other has not taken, in order.
Sent(p) == inbox[Other(p)] \o sending[p]

\* Whether the sender that answers a request, or carries a stream, still exists.
InQueue(c) == \E k \in DOMAIN interaction[Owner[c]] : interaction[Owner[c]][k] = c
SenderExists(c) ==
  /\ Alive(Owner[c])
  /\ \/ InQueue(c)
     \/ \E i \in Id : c \in {incoming_responses[Owner[c]][i], incoming_streams[Owner[c]][i]}

\* rx.await.unwrap() when the sender was dropped.
CallPanics(c) ==
  /\ caller[c] = "waiting"
  /\ ~ SenderExists(c)
  /\ caller' = [caller EXCEPT ![c] = "panicked"]
  /\ UNCHANGED <<loopVars, handleVars, tableVars, outVars, call_id, answer, received,
                 handler, emitted>>

\* A stream whose sender was dropped ends, like one that the peer closed.
StreamCut(c) ==
  /\ caller[c] = "open"
  /\ ~ SenderExists(c)
  /\ caller' = [caller EXCEPT ![c] = "cut"]
  /\ UNCHANGED <<loopVars, handleVars, tableVars, outVars, call_id, answer, received,
                 handler, emitted>>

\* The application drops the future of send_request.
CancelCall(c) ==
  /\ "cancel" \in Faults
  /\ caller[c] = "waiting"
  /\ caller' = [caller EXCEPT ![c] = "cancelled"]
  /\ UNCHANGED <<loopVars, handleVars, tableVars, outVars, call_id, answer, received,
                 handler, emitted>>

\* The application drops the receiver send_stream returned.
DropStream(c) ==
  /\ "drop_stream" \in Faults
  /\ caller[c] = "open"
  /\ ~ Starved(Owner[c])
  /\ caller' = [caller EXCEPT ![c] = "dropped"]
  /\ UNCHANGED <<loopVars, handleVars, tableVars, outVars, call_id, answer, received,
                 handler, emitted>>

\* The application drops the handle, which no call borrows.
DropHandle(p) ==
  /\ "drop_handle" \in Faults
  /\ handle[p] = "held"
  /\ HandleFree(p)
  /\ handle' = [handle EXCEPT ![p] = "dropped"]
  /\ UNCHANGED <<loopVars, interaction, tableVars, outVars, callerVars, handler, emitted>>

Server(c) == Other(Owner[c])

\* The application drops the service, and with it the handler the loop awaits.
StopService(p) ==
  /\ "stop" \in Faults
  /\ Alive(p)
  /\ ~ Starved(p)
  /\ loop' = [loop EXCEPT ![p] = "ended"]
  /\ sending' = [sending EXCEPT ![p] = <<>>]
  /\ handler' = [c \in Call |-> IF Server(c) = p /\ handler[c] = "called"
                                THEN "failed" ELSE handler[c]]
  /\ UNCHANGED <<inbox, handleVars, tableVars, outVars, callerVars, emitted>>

-----------------------------------------------------------------------------
(* ServiceInner::run and the handlers it spawns.                           *)

ServeRequest(p) ==
  /\ p \notin Inline
  /\ Take(p, "Request")
  /\ LET c == Head(inbox[p]).data IN
       recv_request(c) /\ handler' = [handler EXCEPT ![c] = "running"]
  /\ UNCHANGED <<loop, sending, handleVars, tableVars, outgoing_stream, callerVars,
                 emitted>>

ServeStream(p) ==
  /\ p \notin Inline
  /\ Take(p, "OpenStream")
  /\ LET c == Head(inbox[p]).data IN
       recv_stream(c) /\ handler' = [handler EXCEPT ![c] = "running"]
  /\ UNCHANGED <<loop, sending, handleVars, tableVars, outgoing_responses, callerVars,
                 emitted>>

ServeOneshot(p) ==
  /\ p \notin Inline
  /\ Take(p, "Oneshot")
  /\ LET c == Head(inbox[p]).data IN handler' = [handler EXCEPT ![c] = "running"]
  /\ UNCHANGED <<loop, sending, handleVars, tableVars, outVars, callerVars, emitted>>

\* A handler's error is answered like a result.
Resolve_mutant(c, state) ==
  outgoing_responses' = IF Kind[c] = "request" /\ Alive(Server(c))
                        THEN [outgoing_responses EXCEPT ![c] = "ready"]
                        ELSE outgoing_responses

\* The sender of the oneshot outlives a handler that fails.
Resolve_pending_mutant(c, state) ==
  outgoing_responses' = IF Kind[c] = "request" /\ Alive(Server(c)) /\ state = "ready"
                        THEN [outgoing_responses EXCEPT ![c] = state]
                        ELSE outgoing_responses

\* What the oneshot of a request comes to when its handler ends.
Resolve(c, state) ==
  outgoing_responses' = IF Kind[c] = "request" /\ Alive(Server(c))
                        THEN [outgoing_responses EXCEPT ![c] = state]
                        ELSE outgoing_responses

\* The handler returns; the oneshot of a request gets the response.
FinishHandler(c) ==
  /\ handler[c] = "running"
  /\ ~ Starved(Server(c))
  /\ handler' = [handler EXCEPT ![c] = "finished"]
  /\ Resolve(c, "ready")
  /\ UNCHANGED <<loopVars, handleVars, tableVars, outgoing_stream, callerVars, emitted>>

\* The handler returns an error: the oneshot of a request is dropped.
FailHandler(c) ==
  /\ "fail" \in Faults
  /\ Server(c) \notin Inline
  /\ handler[c] = "running"
  /\ Kind[c] # "oneshot"
  /\ ~ Starved(Server(c))
  /\ handler' = [handler EXCEPT ![c] = "failed"]
  /\ Resolve(c, "cancelled")
  /\ UNCHANGED <<loopVars, handleVars, tableVars, outgoing_stream, callerVars, emitted>>

\* forward moves an item into the stream's channel; it fails without a service.
EmitItem(c) ==
  /\ handler[c] = "running"
  /\ Kind[c] = "stream"
  /\ emitted[c] < MaxItems
  /\ ~ Starved(Server(c))
  /\ IF Alive(Server(c))
     THEN /\ emitted' = [emitted EXCEPT ![c] = @ + 1]
          /\ outgoing_stream' = [outgoing_stream EXCEPT ![c] = Append(@, emitted[c] + 1)]
          /\ UNCHANGED handler
     ELSE /\ handler' = [handler EXCEPT ![c] = "failed"]
          /\ UNCHANGED <<emitted, outgoing_stream>>
  /\ UNCHANGED <<loopVars, handleVars, tableVars, outgoing_responses, callerVars>>

-----------------------------------------------------------------------------
(* MyServiceImpl::run: the loop awaits the handler and takes no message.   *)

\* A request's oneshot is made before its handler is awaited.
HandleInline(p) ==
  /\ p \in Inline
  /\ \E kind \in {"Request", "OpenStream", "Oneshot"} : Take(p, kind)
  /\ loop' = [loop EXCEPT ![p] = "handle"]
  /\ LET c == Head(inbox[p]).data IN
       /\ handler' = [handler EXCEPT ![c] = "called"]
       /\ IF Kind[c] = "request" THEN recv_request(c) ELSE UNCHANGED outgoing_responses
  /\ UNCHANGED <<sending, handleVars, tableVars, outgoing_stream, callerVars, emitted>>

\* A stream's channel is made after it; the dispatcher that is to run the task
\* that emits its items may refuse it, and nobody looks at the result.
ReturnInline(c) ==
  /\ handler[c] = "called"
  /\ loop[Server(c)] = "handle"
  /\ loop' = [loop EXCEPT ![Server(c)] = "select"]
  /\ Resolve(c, "ready")
  /\ IF Kind[c] = "stream"
     THEN /\ recv_stream(c)
          /\ \E state \in {"running"} \union (IF "spawn" \in Faults THEN {"failed"} ELSE {}) :
               handler' = [handler EXCEPT ![c] = state]
     ELSE /\ handler' = [handler EXCEPT ![c] = "finished"]
          /\ UNCHANGED outgoing_stream
  /\ UNCHANGED <<inbox, sending, handleVars, tableVars, callerVars, emitted>>

\* The handler panics in the loop, or the message holds data of another kind.
FailInline(c) ==
  /\ "fail" \in Faults
  /\ handler[c] = "called"
  /\ loop[Server(c)] = "handle"
  /\ loop' = [loop EXCEPT ![Server(c)] = "panicked"]
  /\ handler' = [handler EXCEPT ![c] = "panicked"]
  /\ UNCHANGED <<inbox, sending, handleVars, tableVars, outVars, callerVars, emitted>>

-----------------------------------------------------------------------------
\* A peer that ends a stream it has sent everything of.  sansrpc-service has
\* no code for it: the peer sends the message itself.
CloseStream(p, c) ==
  /\ "close" \in Faults
  /\ loop[p] = "select"
  /\ Owner[c] # p
  /\ Kind[c] = "stream"
  /\ handler[c] = "finished"
  /\ outgoing_stream[c] = <<>>
  /\ Send(p, Msg("CloseStream", c, 0))
  /\ handler' = [handler EXCEPT ![c] = "closed"]
  /\ UNCHANGED <<inbox, handleVars, tableVars, outVars, callerVars, emitted>>

-----------------------------------------------------------------------------
\* The steps of SansService leave the handlers alone.
Service(A) == A /\ UNCHANGED <<handler, emitted>>

Receive(p) ==
  \/ Service(TakeResponse(p)) \/ Service(TakeStreamMessage(p)) \/ Service(TakeClose(p))
  \/ ServeRequest(p) \/ ServeStream(p) \/ ServeOneshot(p) \/ HandleInline(p)

EndSend(p) == Service(FinishSend(p)) \/ Service(FailSend(p))

EndHandler(c) ==
  FinishHandler(c) \/ FailHandler(c) \/ ReturnInline(c) \/ FailInline(c)

Application ==
  \/ \E c \in Call, i \in Id : send_request(c, i) \/ send_stream(c, i)
  \/ \E c \in Call : send_oneshot(c) \/ CancelCall(c) \/ DropStream(c)
  \/ \E p \in Peer : DropHandle(p) \/ StopService(p)

Next ==
  \/ Application
  \/ \E c \in Call : CallPanics(c) \/ StreamCut(c) \/ EndHandler(c) \/ EmitItem(c)
  \/ \E p \in Peer :
       \/ Receive(p) \/ EndSend(p)
       \/ Service(TakeEnd(p)) \/ Service(SendInteraction(p))
       \/ \E c \in Call :
            Service(SendItem(p, c)) \/ Service(SendResponse(p, c)) \/ CloseStream(p, c)

SafeSpec == Init /\ [][Next]_vars

(***************************************************************************)
(* What the executor and the kernel go on with.  While a loop is starved   *)
(* nothing makes what is on the socket ready.  That the connection fails   *)
(* while both services run is nothing to count on.                         *)
(***************************************************************************)
Progress ==
  \/ \E p \in Peer :
       \/ ~ Starved(p) /\ Receive(p)
       \/ ~ Starved(p) /\ ~ Alive(Other(p)) /\ Service(TakeEnd(p))
       \/ Service(SendInteraction(p)) \/ Service(FinishSend(p))
       \/ ~ Alive(Other(p)) /\ Service(FailSend(p))
       \/ \E c \in Call : Service(SendItem(p, c)) \/ Service(SendResponse(p, c))
  \/ \E c \in Call : CallPanics(c) \/ StreamCut(c) \/ EndHandler(c)

(***************************************************************************)
(* Some step is taken while one can be.  Of finitely many calls no step    *)
(* repeats for ever, so this is as much as fairness of each arm of select! *)
(* and of each task.                                                       *)
(***************************************************************************)
Spec == SafeSpec /\ WF_vars(Progress)

-----------------------------------------------------------------------------
(* Properties.                                                             *)

(***************************************************************************)
(* A request gets the response to itself, also when earlier requests were  *)
(* cancelled and their responses arrive late, and ids of answered requests *)
(* are used again.  Only where the id of a cancelled request is used again *)
(* may its response go to the new request, and the response of that one to *)
(* a third: never to a call with another id or of the other peer, and      *)
(* never is that of a call lost which still waits.                         *)
(***************************************************************************)
Misled(c) == caller[c] = "answered" /\ answer[c] # c
AnswersOwnCall ==
  \A c \in Call : Misled(c) =>
    /\ call_id[c] \in Reused
    /\ Owner[answer[c]] = Owner[c] /\ call_id[answer[c]] = call_id[c]
    /\ caller[answer[c]] = "cancelled" \/ Misled(answer[c])

(***************************************************************************)
(* A stream's receiver gets the items of its own handler, in the order     *)
(* they were emitted, none missing: a prefix of what was emitted, however  *)
(* streams and responses interleave on the connection.  It sees the end of *)
(* the stream after all of them, or when its own service is gone, which it *)
(* cannot tell apart.                                                      *)
(***************************************************************************)
StreamsInOrder ==
  \A c \in Call :
    /\ Len(received[c]) <= emitted[c]
    /\ \A k \in DOMAIN received[c] : received[c][k] = [data |-> c, item |-> k]
    /\ caller[c] = "ended" => Len(received[c]) = emitted[c]
    /\ caller[c] = "cut" => ~ Alive(Owner[c])

(***************************************************************************)
(* send_request panics only when its service is gone: while the service    *)
(* runs, the sender that answers the call is in the handle's channel or in *)
(* incoming_responses.                                                     *)
(***************************************************************************)
CallPanicsOnlyWithoutService ==
  \A c \in Call :
    /\ caller[c] = "waiting" /\ Alive(Owner[c]) => SenderExists(c)
    /\ caller[c] = "panicked" => ~ Alive(Owner[c])

(***************************************************************************)
(* The calls of the two peers are those of CallService: whatever fails, a  *)
(* call is handled at most once, and answered only by its own handler.  A  *)
(* call that got another's answer has lost its own.                        *)
(***************************************************************************)
Phase(c) ==
  CASE caller[c] \in {"waiting", "open", "sent"} -> "made"
    [] caller[c] \in {"cancelled", "panicked", "dropped", "cut"} \/ Misled(c) -> "lost"
    [] OTHER -> caller[c]

Execution(c) ==
  CASE handler[c] = "called" -> "running"
    [] handler[c] = "closed" -> "finished"
    [] handler[c] = "panicked" -> "failed"
    [] OTHER                 -> handler[c]

Calls == INSTANCE CallService WITH
  phase <- [c \in Call |-> Phase(c)],
  execution <- [c \in Call |-> Execution(c)]

ImplementsCallService == Calls!Spec

(***************************************************************************)
(* Two services that each wait for room on the connection, and do not read *)
(* meanwhile, wait for ever.                                               *)
(***************************************************************************)
MutualWait == \A p \in Peer : loop[p] = "send" /\ Len(inbox[p]) = ChannelSize

(***************************************************************************)
(* While both services run no call is lost: one that is made is in the     *)
(* handle's channel or on its way until its handler has it, and once the   *)
(* handler of a request that is awaited has ended, its response is with    *)
(* the service or on its way.  A handler that panics in the loop ends the  *)
(* service with it.  A connection that is reset loses what is on it; a     *)
(* service runs until it meets that in a read or a send.                   *)
(***************************************************************************)
Carries(p, kind, c) ==
  \E m \in Range(Sent(p)) : m.kind = kind /\ m.data = c

OnTheWay(c) ==
  \/ InQueue(c)
  \/ \E kind \in {"Request", "OpenStream", "Oneshot"} : Carries(Owner[c], kind, c)

NotLost(c) ==
  /\ handler[c] = "none" => OnTheWay(c)
  /\ caller[c] = "waiting" /\ handler[c] = "finished" =>
       outgoing_responses[c] = "ready" \/ Carries(Server(c), "Response", c)
  /\ caller[c] = "waiting" /\ handler[c] = "failed" => outgoing_responses[c] = "cancelled"
  /\ handler[c] # "panicked"

\* No call that was made, and no outcome of one, is lost between its stations.
NoCallLost ==
  \A c \in Call : caller[c] # "idle" /\ (\A p \in Peer : Alive(p)) => NotLost(c)

(***************************************************************************)
(* A service panics only for three reasons: a handler failed to answer, or *)
(* panicked in the loop; its application dropped the receiver of a stream  *)
(* it had opened; or a call of its application could not be sent, and that *)
(* call is lost with it.  A response or an item that cannot be sent, a     *)
(* cancelled request, a dropped handle, a message that cannot be read and  *)
(* a stream that the peer closes once are not among them.                  *)
(***************************************************************************)
Unsent(c) == caller[c] # "idle" /\ handler[c] = "none" /\ ~ OnTheWay(c)

NoAnswer(c) == handler[c] = "panicked" \/ (handler[c] = "failed" /\ Kind[c] = "request")

ServicePanicsOnlyFor ==
  \A p \in Peer : loop[p] = "panicked" =>
    \E c \in Call : IF Owner[c] = p THEN caller[c] = "dropped" \/ Unsent(c)
                                    ELSE NoAnswer(c)

(***************************************************************************)
(* Whether a step of Progress can be taken.                                *)
(***************************************************************************)
CanTake(p) ==
  /\ inbox[p] # <<>>
  /\ LET m == Head(inbox[p])
         c == incoming_streams[p][m.id]
     IN m.kind = "StreamMessage" => c = NoCall \/ caller[c] \in {"open", "dropped"}

CanSelect(p) ==
  /\ loop[p] = "select"
  /\ \/ ~ Starved(p) /\ (CanTake(p) \/ ~ Alive(Other(p)))
     \/ interaction[p] # <<>>
     \/ \E c \in Call : /\ Owner[c] # p
                        /\ \/ outgoing_stream[c] # <<>>
                           \/ outgoing_responses[c] \in {"ready", "cancelled"}

CanEndSend(p) ==
  /\ loop[p] = "send"
  /\ ~ Alive(Other(p)) \/ Len(inbox[Other(p)]) < ChannelSize

CanGoOn ==
  \/ \E p \in Peer : CanSelect(p) \/ CanEndSend(p)
  \/ \E c \in Call :
       \/ caller[c] \in {"waiting", "open"} /\ ~ SenderExists(c)
       \/ handler[c] = "running" /\ ~ Starved(Server(c))
       \/ handler[c] = "called" /\ loop[Server(c)] = "handle"

(***************************************************************************)
(* Nobody who waits is stuck: while a request waits, a service sends or an *)
(* item is missing, some step can be taken, but for the two exceptions.    *)
(* This and StepsAdvance are what the liveness properties below rest on.   *)
(***************************************************************************)
NobodyIsStuck ==
  /\ \A c \in Call :
       caller[c] = "waiting" => CanGoOn \/ MutualWait \/ Starved(Server(c))
  /\ \A p \in Peer :
       loop[p] = "send" => CanGoOn \/ MutualWait \/ Starved(Other(p))
  /\ \A c \in Call : caller[c] = "open" /\ Len(received[c]) < emitted[c] =>
       CanGoOn \/ MutualWait \/ \E p \in Peer : Starved(p)

(***************************************************************************)
(* No step can be repeated for ever: each lowers what is left to happen,   *)
(* and raises at most what is less significant in this list: calls to be   *)
(* made and to be answered, handles and services that may go, handlers to  *)
(* be run, items to be emitted, and what is in the channels from the one   *)
(* of the handle to the connection.                                        *)
(***************************************************************************)
CallerRank(c) ==
  CASE caller[c] = "idle"                -> 2
    [] caller[c] \in {"waiting", "open"} -> 1
    [] OTHER                             -> 0

HandlerRank(c) ==
  CASE handler[c] = "none"    -> 4
    [] handler[c] = "called"  -> 3
    [] handler[c] = "running" -> 2
    [] handler[c] = "closed"  -> 0
    [] OTHER                  -> 1

OutgoingRank(c) ==
  Len(outgoing_stream[c]) + IF outgoing_responses[c] = "none" THEN 0 ELSE 1

Rank ==
  << [c \in Call |-> CallerRank(c)],
     [p \in Peer |-> IF handle[p] = "held" THEN 1 ELSE 0],
     [p \in Peer |-> IF Alive(p) THEN 1 ELSE 0],
     [c \in Call |-> HandlerRank(c)],
     [c \in Call |-> MaxItems - emitted[c]],
     [p \in Peer |-> Len(interaction[p])],
     [c \in Call |-> OutgoingRank(c)],
     [p \in Peer |-> Len(sending[p])],
     [p \in Peer |-> Len(inbox[p])] >>

Below(f, g) == f # g /\ \A x \in DOMAIN g : f[x] \in Nat /\ f[x] <= g[x]

Advance ==
  \E n \in DOMAIN Rank :
    /\ \A k \in 1 .. n - 1 : Rank[k]' = Rank[k]
    /\ Below(Rank[n]', Rank[n])

\* Every step of the two peers lowers what is left to happen.
StepsAdvance == [][Advance]_vars

(***************************************************************************)
(* Every request returns, or panics because its service is gone, unless    *)
(* the two services wait for each other or the one that is to answer never *)
(* yields again, for which all handles of it must have been dropped.       *)
(***************************************************************************)
CallsReturn ==
  \A c \in Call :
    <>[](caller[c] = "waiting") => <>[](MutualWait \/ Starved(Server(c)))

(***************************************************************************)
(* A service that sends gets its message out, or fails, unless the two     *)
(* wait for each other or the other never yields again: the oneshots and   *)
(* items of one peer alone do not block the connection.                    *)
(***************************************************************************)
SendsEnd ==
  \A p \in Peer : <>[](loop[p] = "send") => <>[](MutualWait \/ Starved(Other(p)))

(***************************************************************************)
(* When a service is gone, however it ended and whatever the other one is  *)
(* doing, the other does not outlive it, unless it never yields again.     *)
(***************************************************************************)
BothEnd ==
  \A p \in Peer : <>(~ Alive(Other(p))) => <>(~ Alive(p)) \/ <>[]Starved(p)

(***************************************************************************)
(* What a handler emits on a stream that is read arrives, unless the two   *)
(* services wait for each other or one of them never yields again: also    *)
(* when the application has dropped the handle and the loop spins on a     *)
(* thread of its own.  When the service that sends is gone the stream is   *)
(* not left open for ever.                                                 *)
(***************************************************************************)
ItemsArrive ==
  \A c \in Call :
    <>[](caller[c] = "open" /\ Len(received[c]) < emitted[c]) =>
      <>[](MutualWait \/ \E p \in Peer : Starved(p))

=============================================================================
