---------------------------- MODULE RpcInvariant ----------------------------
(***************************************************************************)
(* The inductive invariant of RpcSystem: where a call, its messages, its   *)
(* table entries and its handler can be at the same time.                  *)
(***************************************************************************)
EXTENDS RpcSystem

\* Its own answer, or the end of its stream, is still to come to the call.
Pending(c) ==
  /\ caller[c] \notin {"idle", "ended"}
  /\ caller[c] = "answered" => answer[c] # c

\* The items of a stream that have left its channel.
ItemsSent(c) == emitted[c] - Len(outgoing_stream[c])

CallerOK(c) ==
  /\ Kind[c] = "request" =>
       caller[c] \in {"idle", "waiting", "answered", "cancelled", "panicked"}
  /\ Kind[c] = "stream" => caller[c] \in {"idle", "open", "ended", "cut", "dropped"}
  /\ Kind[c] = "oneshot" => caller[c] \in {"idle", "sent"}
  /\ caller[c] = "answered" => answer[c] \in Call

HandlerOK(c) ==
  /\ handler[c] # "none" => caller[c] # "idle"
  /\ handler[c] \in {"called", "running"} => Pending(c)
  /\ handler[c] = "closed" => Kind[c] = "stream" /\ outgoing_stream[c] = <<>>
  /\ caller[c] = "ended" => handler[c] = "closed"

OutgoingOK(c) ==
  /\ handler[c] \in {"none", "called"} => emitted[c] = 0 /\ outgoing_stream[c] = <<>>
  /\ handler[c] = "none" => outgoing_responses[c] = "none"
  /\ outgoing_responses[c] # "none" => Pending(c) /\ Kind[c] = "request"
  /\ outgoing_responses[c] = "ready" => handler[c] = "finished"
  /\ outgoing_responses[c] = "cancelled" => handler[c] = "failed"
  /\ outgoing_stream[c] # <<>> => Kind[c] = "stream"
  /\ Len(outgoing_stream[c]) <= emitted[c]
  /\ \A k \in 1 .. Len(outgoing_stream[c]) : outgoing_stream[c][k] = ItemsSent(c) + k

\* The caller, the handler and what goes out fit together.
CallsOK == \A c \in Call : CallerOK(c) /\ HandlerOK(c) /\ OutgoingOK(c)

\* A loop awaits one handler, its own.
CalledOK ==
  \A c \in Call : handler[c] = "called" =>
    /\ loop[Server(c)] = "handle"
    /\ \A d \in Call : handler[d] = "called" /\ Server(d) = Server(c) => d = c

\* A message is where its call and its handler are.
MessageOK(p, m) ==
  LET c == m.data IN
  /\ m.id = call_id[c]
  /\ Pending(c)
  /\ m.kind \in {"Request", "OpenStream", "Oneshot"} =>
       Owner[c] = p /\ handler[c] = "none"
  /\ m.kind = "Request" => Kind[c] = "request"
  /\ m.kind = "OpenStream" => Kind[c] = "stream"
  /\ m.kind = "Oneshot" => Kind[c] = "oneshot"
  /\ m.kind = "Response" =>
       /\ Owner[c] # p /\ Kind[c] = "request"
       /\ handler[c] = "finished" /\ outgoing_responses[c] = "none"
  /\ m.kind = "StreamMessage" =>
       /\ Owner[c] # p /\ Kind[c] = "stream" /\ handler[c] \notin {"none", "called"}
       /\ m.item \in 1 .. ItemsSent(c)
  /\ m.kind = "CloseStream" =>
       Owner[c] # p /\ Kind[c] = "stream" /\ handler[c] = "closed"

MessagesOK == \A p \in Peer : \A m \in Range(Sent(p)) : MessageOK(p, m)

\* Of two messages of a call one way the first is an item of its stream, and
\* items are in order.
MessagesOrdered ==
  \A p \in Peer : \A j, k \in 1 .. Len(Sent(p)) :
    j < k /\ Sent(p)[j].data = Sent(p)[k].data =>
      /\ Sent(p)[j].kind = "StreamMessage"
      /\ Sent(p)[k].kind = "StreamMessage" => Sent(p)[j].item < Sent(p)[k].item

\* A call in the handle's channel is nowhere else.
QueuedOK(p, c) ==
  /\ Owner[c] = p /\ Pending(c) /\ handler[c] = "none"
  /\ \A m \in Range(Sent(p)) : m.data # c

QueueOK ==
  \A p \in Peer :
    /\ \A c \in Range(interaction[p]) : QueuedOK(p, c)
    /\ IsInjective(interaction[p])

\* While a call waits no other is made.
WaitingOK ==
  \A c \in Call : caller[c] = "waiting" /\ Alive(Owner[c]) =>
    LET q == interaction[Owner[c]] IN
    IF q = <<>> THEN incoming_responses[Owner[c]][call_id[c]] = c ELSE q[Len(q)] = c

\* A call is in the tables under its id, at its owner.
EntryOK(p, i, c, kind) ==
  c # NoCall =>
    Owner[c] = p /\ Kind[c] = kind /\ call_id[c] = i /\ caller[c] # "idle"

TablesOK ==
  \A p \in Peer, i \in Id :
    /\ EntryOK(p, i, incoming_responses[p][i], "request")
    /\ EntryOK(p, i, incoming_streams[p][i], "stream")

\* The id of the call is in use.
Occupied(c) ==
  \/ caller[c] \in {"waiting", "open", "dropped"}
  \/ caller[c] = "cancelled" /\ call_id[c] \notin Reused

IdsOK ==
  \A c, d \in Call :
    c # d /\ Owner[c] = Owner[d] /\ Kind[c] = Kind[d] /\ Occupied(c) /\ Occupied(d)
      => call_id[c] # call_id[d]

\* A stream that is not closed, or whose end is on its way, is in the table.
Unclosed(c) == caller[c] = "open" \/ (caller[c] = "dropped" /\ handler[c] # "closed")
Closing(c) ==
  \E m \in Range(Sent(Server(c))) : m.kind = "CloseStream" /\ m.data = c
Entered(c) == incoming_streams[Owner[c]][call_id[c]] = c

StreamTableOK ==
  \A c \in Call : Kind[c] = "stream" /\ Alive(Owner[c]) =>
    /\ Unclosed(c) => InQueue(c) \/ Entered(c)
    /\ Closing(c) => Entered(c)

GoneOK == \A c \in Call : caller[c] \in {"panicked", "cut"} => ~ Alive(Owner[c])

\* What a stream's receiver lacks is on its way, in order, up to the last item
\* that was sent.
IsItem(m, c, item) == m.kind = "StreamMessage" /\ m.data = c /\ m.item = item

ItemsFollow(c) ==
  LET s == Sent(Server(c)) IN
  \A j \in 1 .. Len(s) : s[j].kind = "StreamMessage" /\ s[j].data = c =>
    \/ s[j].item = Len(received[c]) + 1
    \/ \E k \in 1 .. j - 1 : IsItem(s[k], c, s[j].item - 1)

AllOnTheWay(c) ==
  \/ Len(received[c]) = ItemsSent(c)
  \/ \E m \in Range(Sent(Server(c))) : IsItem(m, c, ItemsSent(c))

ItemsOK ==
  \A c \in Call : caller[c] = "open" /\ Alive(Owner[c]) =>
    /\ ItemsFollow(c)
    /\ Alive(Server(c)) \/ Closing(c) => AllOnTheWay(c)

IInv ==
  /\ TypeOK /\ CallsOK /\ CalledOK /\ MessagesOK /\ MessagesOrdered /\ QueueOK
  /\ WaitingOK /\ TablesOK /\ IdsOK /\ StreamTableOK /\ GoneOK /\ ItemsOK
  /\ AnswersOwnCall /\ StreamsInOrder

-----------------------------------------------------------------------------
(***************************************************************************)
(* What it takes, beside IInv, for something to be able to go on.          *)
(***************************************************************************)
\* A loop that awaits a handler has one.
HandleOK ==
  \A p \in Peer : loop[p] = "handle" =>
    \E c \in Call : handler[c] = "called" /\ Server(c) = p

\* A stream that ended is not in the table.
EndedOK == \A c \in Call : caller[c] = "ended" => ~ Entered(c)

\* While a request waits the handle it borrows cannot be dropped.
HeldOK == \A c \in Call : caller[c] = "waiting" => handle[Owner[c]] = "held"

\* A stream has no more items than its handler emits.
EmittedOK == \A c \in Call : emitted[c] <= MaxItems

ProgressInv == HandleOK /\ EndedOK /\ HeldOK /\ EmittedOK /\ NoCallLost

=============================================================================
