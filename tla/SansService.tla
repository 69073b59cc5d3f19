----------------------------- MODULE SansService -----------------------------
(***************************************************************************)
(* The message loop of sansrpc-service (sans_service.rs), one instance per *)
(* peer.  next_message selects among four sources: the connection, the     *)
(* items of outgoing streams, the responses of handlers, and what the      *)
(* application asked for through its handle.  It answers from its tables   *)
(* what concerns this peer's own calls and returns the rest to the caller, *)
(* the loop that serves them (RpcSystem).                                  *)
(*                                                                         *)
(* A call is one use of the handle: a request, a stream or a oneshot.  Its *)
(* name is the data the messages carry, which the program never looks at;  *)
(* what the program looks at is the id the application chose for it.       *)
(*                                                                         *)
(* An operator whose name ends in _mutant is the definition it is named    *)
(* after with a plausible mistake; PROJECT.json says which property        *)
(* notices it.                                                             *)
(***************************************************************************)
EXTENDS Naturals, Sequences

CONSTANTS
  Peer,            \* the two ends of a connection
  Call,            \* the calls made through the handles
  Id,              \* request and stream ids
  NoCall,          \* an unused table entry
  Owner,           \* Owner[c]: the peer whose application makes call c
  Kind,            \* Kind[c]: "request", "stream" or "oneshot"
  ChannelSize,     \* messages a connection holds in one direction
  Faults           \* what may happen besides calls and answers

ASSUME ServiceAssumption ==
  /\ \E a, b \in Peer : a # b /\ Peer = {a, b}
  /\ Id # {}
  /\ NoCall \notin Call
  /\ Owner \in [Call -> Peer]
  /\ Kind \in [Call -> {"request", "stream", "oneshot"}]
  /\ ChannelSize \in Nat \ {0}
  /\ Faults \subseteq {"cancel", "drop_stream", "drop_handle", "fail", "spawn",
                      "close", "stop", "reset", "code"}

VARIABLES
  inbox,               \* messages on the connection, and in it, to a peer
  loop,                \* "select", "send", "handle" (its caller runs a handler
                       \* before it calls again), or how next_message ended
  sending,             \* the message writer.send is busy with, if any
  interaction,         \* the calls in the handle's channel
  handle,              \* whether the application has the handle, its sender
  incoming_responses,  \* request id -> call that waits for the response
  incoming_streams,    \* stream id -> call that receives the items
  outgoing_responses,  \* call -> state of the oneshot its handler answers with
  outgoing_stream,     \* call -> items its handler emitted, not yet sent
  caller,              \* call -> where the application is with it
  call_id,             \* call -> the id it was given
  answer,              \* call -> the data of the response it got
  received             \* call -> the data of the stream items it got

loopVars   == <<inbox, loop, sending>>
handleVars == <<interaction, handle>>
tableVars  == <<incoming_responses, incoming_streams>>
outVars    == <<outgoing_responses, outgoing_stream>>
callerVars == <<caller, call_id, answer, received>>
serviceVars == <<loopVars, handleVars, tableVars, outVars, callerVars>>

Other(p) == CHOOSE q \in Peer : q # p

\* data is the call a message belongs to, item its place in a stream.
Msg(kind, c, item) == [kind |-> kind, id |-> call_id[c], data |-> c, item |-> item]
Message ==
  [kind : {"Oneshot", "Request", "Response", "OpenStream", "StreamMessage",
           "CloseStream"},
   id : Id, data : Call, item : Nat]

\* A peer's SansService exists until next_message ends or the task is dropped.
Alive(p) == loop[p] \in {"select", "send", "handle"}

ServiceTypeOK ==
  /\ inbox \in [Peer -> Seq(Message)]
  /\ \A p \in Peer : Len(inbox[p]) <= ChannelSize
  /\ loop \in [Peer -> {"select", "send", "handle", "ended", "failed", "panicked"}]
  /\ sending \in [Peer -> Seq(Message)]
  /\ \A p \in Peer :
       IF loop[p] = "send" THEN Len(sending[p]) = 1 ELSE sending[p] = <<>>
  /\ interaction \in [Peer -> Seq(Call)]
  /\ handle \in [Peer -> {"held", "dropped"}]
  /\ incoming_responses \in [Peer -> [Id -> Call \union {NoCall}]]
  /\ incoming_streams \in [Peer -> [Id -> Call \union {NoCall}]]
  /\ outgoing_responses \in [Call -> {"none", "pending", "ready", "cancelled"}]
  /\ outgoing_stream \in [Call -> Seq(Nat)]
  /\ caller \in [Call -> {"idle", "waiting", "answered", "cancelled", "panicked",
                          "open", "ended", "cut", "dropped", "sent"}]
  /\ call_id \in [Call -> Id]
  /\ answer \in [Call -> Call \union {NoCall}]
  /\ received \in [Call -> Seq([data : Call, item : Nat])]

\* SansService::new: empty tables, nothing outgoing.
ServiceInit ==
  /\ inbox = [p \in Peer |-> <<>>]
  /\ loop = [p \in Peer |-> "select"]
  /\ sending = [p \in Peer |-> <<>>]
  /\ interaction = [p \in Peer |-> <<>>]
  /\ handle = [p \in Peer |-> "held"]
  /\ incoming_responses = [p \in Peer |-> [i \in Id |-> NoCall]]
  /\ incoming_streams = [p \in Peer |-> [i \in Id |-> NoCall]]
  /\ outgoing_responses = [c \in Call |-> "none"]
  /\ outgoing_stream = [c \in Call |-> <<>>]
  /\ caller = [c \in Call |-> "idle"]
  /\ call_id = [c \in Call |-> CHOOSE i \in Id : TRUE]
  /\ answer = [c \in Call |-> NoCall]
  /\ received = [c \in Call |-> <<>>]

-----------------------------------------------------------------------------
(* The arm of the connection.                                              *)

\* next_message takes a message of this kind off the connection.
Take(p, kind) ==
  /\ loop[p] = "select"
  /\ inbox[p] # <<>>
  /\ Head(inbox[p]).kind = kind
  /\ inbox' = [inbox EXCEPT ![p] = Tail(@)]

\* The response goes to the first call that waits for one.
TakeResponse_mutant(p) ==
  /\ Take(p, "Response")
  /\ \E i \in Id : LET c == incoming_responses[p][i] IN
       /\ c # NoCall
       /\ incoming_responses' = [incoming_responses EXCEPT ![p][i] = NoCall]
       /\ caller' = [caller EXCEPT ![c] = IF @ = "waiting" THEN "answered" ELSE @]
       /\ answer' = [answer EXCEPT ![c] = Head(inbox[p]).data]
  /\ UNCHANGED <<loop, sending, handleVars, incoming_streams, outVars, call_id,
                 received>>

\* The result of the oneshot's send is unwrapped.
TakeResponse_unwrap_mutant(p) ==
  /\ Take(p, "Response")
  /\ LET m == Head(inbox[p])
         c == incoming_responses[p][m.id]
     IN IF c = NoCall \/ caller[c] # "waiting"
        THEN /\ loop' = [loop EXCEPT ![p] = IF c = NoCall THEN @ ELSE "panicked"]
             /\ UNCHANGED <<incoming_responses, caller, answer>>
        ELSE /\ incoming_responses' = [incoming_responses EXCEPT ![p][m.id] = NoCall]
             /\ caller' = [caller EXCEPT ![c] = "answered"]
             /\ answer' = [answer EXCEPT ![c] = m.data]
             /\ UNCHANGED loop
  /\ UNCHANGED <<sending, handleVars, incoming_streams, outVars, call_id, received>>

\* A response to a call that gave up is dropped, one to no call ignored.
TakeResponse(p) ==
  /\ Take(p, "Response")
  /\ LET m == Head(inbox[p])
         c == incoming_responses[p][m.id]
     IN IF c = NoCall
        THEN UNCHANGED <<incoming_responses, caller, answer>>
        ELSE /\ incoming_responses' = [incoming_responses EXCEPT ![p][m.id] = NoCall]
             /\ caller' = [caller EXCEPT ![c] = IF @ = "waiting" THEN "answered" ELSE @]
             /\ answer' = [answer EXCEPT ![c] =
                             IF caller[c] = "waiting" THEN m.data ELSE @]
  /\ UNCHANGED <<loop, sending, handleVars, incoming_streams, outVars, call_id,
                 received>>

\* The unwrap of unbounded_send panics when the receiver was dropped.
TakeStreamMessage(p) ==
  /\ Take(p, "StreamMessage")
  /\ LET m == Head(inbox[p])
         c == incoming_streams[p][m.id]
     IN \/ /\ c = NoCall
           /\ UNCHANGED <<loop, received>>
        \/ /\ c # NoCall /\ caller[c] = "open"
           /\ received' = [received EXCEPT ![c] =
                             Append(@, [data |-> m.data, item |-> m.item])]
           /\ UNCHANGED loop
        \/ /\ c # NoCall /\ caller[c] = "dropped"
           /\ loop' = [loop EXCEPT ![p] = "panicked"]
           /\ UNCHANGED received
  /\ UNCHANGED <<sending, handleVars, tableVars, outVars, caller, call_id, answer>>

\* The receiver of a stream that is closed sees its end; the unwrap panics
\* when the table has no such stream.
TakeClose(p) ==
  /\ Take(p, "CloseStream")
  /\ LET i == Head(inbox[p]).id
         c == incoming_streams[p][i]
     IN \/ /\ c # NoCall
           /\ incoming_streams' = [incoming_streams EXCEPT ![p][i] = NoCall]
           /\ caller' = [caller EXCEPT ![c] = IF @ = "open" THEN "ended" ELSE @]
           /\ UNCHANGED loop
        \/ /\ c = NoCall
           /\ loop' = [loop EXCEPT ![p] = "panicked"]
           /\ UNCHANGED <<incoming_streams, caller>>
  /\ UNCHANGED <<sending, handleVars, incoming_responses, outVars, call_id, answer,
                 received>>

\* The end of the connection is continued over.
TakeEnd_mutant(p) ==
  /\ loop[p] = "select"
  /\ \/ ~ Alive(Other(p)) /\ inbox[p] # <<>>
     \/ Alive(Other(p)) /\ "reset" \in Faults
     \/ "code" \in Faults /\ inbox[p] # <<>>
  /\ loop' = [loop EXCEPT ![p] = "failed"]
  /\ UNCHANGED <<inbox, sending, handleVars, tableVars, outVars, callerVars>>

\* The peer closed the connection; or reading it fails: the peer went with
\* messages still on it, it is reset, or the message on it cannot be decoded.
TakeEnd(p) ==
  /\ loop[p] = "select"
  /\ \/ /\ ~ Alive(Other(p)) /\ inbox[p] = <<>>
        /\ loop' = [loop EXCEPT ![p] = "ended"]
     \/ /\ \/ ~ Alive(Other(p)) \/ "reset" \in Faults
           \/ "code" \in Faults /\ inbox[p] # <<>>
        /\ loop' = [loop EXCEPT ![p] = "failed"]
  /\ UNCHANGED <<inbox, sending, handleVars, tableVars, outVars, callerVars>>

-----------------------------------------------------------------------------
(* The arms that send.  writer.send is awaited in the arm: until it is     *)
(* done the loop does not read.                                            *)

Send(p, m) ==
  /\ loop' = [loop EXCEPT ![p] = "send"]
  /\ sending' = [sending EXCEPT ![p] = <<m>>]

\* The item is sent and stays in its channel.
SendItem_mutant(p, c) ==
  /\ loop[p] = "select"
  /\ Owner[c] # p
  /\ outgoing_stream[c] # <<>>
  /\ Send(p, Msg("StreamMessage", c, Head(outgoing_stream[c])))
  /\ UNCHANGED <<inbox, handleVars, tableVars, outVars, callerVars>>

\* An item of a stream this peer serves.
SendItem(p, c) ==
  /\ loop[p] = "select"
  /\ Owner[c] # p
  /\ outgoing_stream[c] # <<>>
  /\ Send(p, Msg("StreamMessage", c, Head(outgoing_stream[c])))
  /\ outgoing_stream' = [outgoing_stream EXCEPT ![c] = Tail(@)]
  /\ UNCHANGED <<inbox, handleVars, tableVars, outgoing_responses, callerVars>>

\* A handler that gave no response is ignored.
SendResponse_mutant(p, c) ==
  /\ loop[p] = "select"
  /\ Owner[c] # p
  /\ \/ /\ outgoing_responses[c] = "ready"
        /\ Send(p, Msg("Response", c, 0))
     \/ /\ outgoing_responses[c] = "cancelled"
        /\ UNCHANGED <<loop, sending>>
  /\ outgoing_responses' = [outgoing_responses EXCEPT ![c] = "none"]
  /\ UNCHANGED <<inbox, handleVars, tableVars, outgoing_stream, callerVars>>

\* The response of a handler; the unwrap panics when the handler gave none.
SendResponse(p, c) ==
  /\ loop[p] = "select"
  /\ Owner[c] # p
  /\ \/ /\ outgoing_responses[c] = "ready"
        /\ Send(p, Msg("Response", c, 0))
     \/ /\ outgoing_responses[c] = "cancelled"
        /\ loop' = [loop EXCEPT ![p] = "panicked"]
        /\ UNCHANGED sending
  /\ outgoing_responses' = [outgoing_responses EXCEPT ![c] = "none"]
  /\ UNCHANGED <<inbox, handleVars, tableVars, outgoing_stream, callerVars>>

\* The call is sent and its id not entered in the table.
SendInteraction_mutant(p) ==
  /\ loop[p] = "select"
  /\ interaction[p] # <<>>
  /\ LET c == Head(interaction[p]) IN
       Send(p, Msg(CASE Kind[c] = "request" -> "Request"
                     [] Kind[c] = "stream"  -> "OpenStream"
                     [] OTHER               -> "Oneshot", c, 0))
  /\ interaction' = [interaction EXCEPT ![p] = Tail(@)]
  /\ UNCHANGED <<inbox, handle, tableVars, outVars, callerVars>>

\* What the application asked for: its id is in the table before it is sent.
SendInteraction(p) ==
  /\ loop[p] = "select"
  /\ interaction[p] # <<>>
  /\ interaction' = [interaction EXCEPT ![p] = Tail(@)]
  /\ LET c == Head(interaction[p]) IN
       \/ /\ Kind[c] = "request"
          /\ incoming_responses' = [incoming_responses EXCEPT ![p][call_id[c]] = c]
          /\ Send(p, Msg("Request", c, 0))
          /\ UNCHANGED incoming_streams
       \/ /\ Kind[c] = "stream"
          /\ incoming_streams' = [incoming_streams EXCEPT ![p][call_id[c]] = c]
          /\ Send(p, Msg("OpenStream", c, 0))
          /\ UNCHANGED incoming_responses
       \/ /\ Kind[c] = "oneshot"
          /\ Send(p, Msg("Oneshot", c, 0))
          /\ UNCHANGED tableVars
  /\ UNCHANGED <<inbox, handle, outVars, callerVars>>

\* With the handle dropped and its channel empty this arm is always ready:
\* it continues, and next_message goes round without ever being pending.
Spinning(p) == loop[p] = "select" /\ handle[p] = "dropped" /\ interaction[p] = <<>>

\* The message is dropped when the connection is full.
FinishSend_drop_mutant(p) ==
  /\ loop[p] = "send"
  /\ inbox' = IF Len(inbox[Other(p)]) < ChannelSize
              THEN [inbox EXCEPT ![Other(p)] = Append(@, Head(sending[p]))]
              ELSE inbox
  /\ loop' = [loop EXCEPT ![p] = "select"]
  /\ sending' = [sending EXCEPT ![p] = <<>>]
  /\ UNCHANGED <<handleVars, tableVars, outVars, callerVars>>

\* The flush is not awaited.
FinishSend_mutant(p) ==
  /\ loop[p] = "send"
  /\ inbox' = [inbox EXCEPT ![Other(p)] = Append(@, Head(sending[p]))]
  /\ loop' = [loop EXCEPT ![p] = "select"]
  /\ sending' = [sending EXCEPT ![p] = <<>>]
  /\ UNCHANGED <<handleVars, tableVars, outVars, callerVars>>

\* writer.send returns: also when the peer is gone but the socket has room.
FinishSend(p) ==
  /\ loop[p] = "send"
  /\ Len(inbox[Other(p)]) < ChannelSize
  /\ inbox' = [inbox EXCEPT ![Other(p)] = Append(@, Head(sending[p]))]
  /\ loop' = [loop EXCEPT ![p] = "select"]
  /\ sending' = [sending EXCEPT ![p] = <<>>]
  /\ UNCHANGED <<handleVars, tableVars, outVars, callerVars>>

\* A call whose send fails is sent for ever.
FailSend_mutant(p) ==
  /\ loop[p] = "send"
  /\ ~ Alive(Other(p)) \/ Faults \cap {"reset", "code"} # {}
  /\ Head(sending[p]).kind \in {"Response", "StreamMessage"}
  /\ loop' = [loop EXCEPT ![p] = "failed"]
  /\ sending' = [sending EXCEPT ![p] = <<>>]
  /\ UNCHANGED <<inbox, handleVars, tableVars, outVars, callerVars>>

\* writer.send fails: the peer is gone, the connection is reset, or the message
\* cannot be encoded.  Responses and items return the error, calls unwrap it.
FailSend(p) ==
  /\ loop[p] = "send"
  /\ ~ Alive(Other(p)) \/ Faults \cap {"reset", "code"} # {}
  /\ loop' = [loop EXCEPT ![p] =
                IF Head(sending[p]).kind \in {"Request", "OpenStream", "Oneshot"}
                THEN "panicked" ELSE "failed"]
  /\ sending' = [sending EXCEPT ![p] = <<>>]
  /\ UNCHANGED <<inbox, handleVars, tableVars, outVars, callerVars>>

-----------------------------------------------------------------------------
(* What the loop that serves the calls asks for.                           *)

recv_request(c) ==
  outgoing_responses' = [outgoing_responses EXCEPT ![c] = "pending"]

\* The new stream takes the place of the ones before it.
recv_stream_mutant(c) == outgoing_stream' = [d \in Call |-> <<>>]

recv_stream(c) ==
  outgoing_stream' = [outgoing_stream EXCEPT ![c] = <<>>]

=============================================================================
