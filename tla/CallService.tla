------------------------------ MODULE CallService ------------------------------
(***************************************************************************)
(* What the two peers of a connection promise to the applications that     *)
(* make calls: a call is handled at most once, and only if it was made; a  *)
(* request is answered at most once, after its handler returned; the items *)
(* of a stream arrive as they were emitted, in order and without a gap,    *)
(* and the stream ends after the last of them.  Tables, ids, messages and  *)
(* the connection are not part of the promise.                             *)
(***************************************************************************)
EXTENDS Naturals, Sequences

CONSTANTS
  Call,            \* the calls made through the handles
  Kind             \* Kind[c]: "request", "stream" or "oneshot"

VARIABLES
  phase,           \* call -> what its caller knows of it
  execution,       \* call -> what became of its handler
  emitted,         \* call -> the items its handler emitted
  received         \* call -> the items its caller received

vars == <<phase, execution, emitted, received>>

Init ==
  /\ phase = [c \in Call |-> "idle"]
  /\ execution = [c \in Call |-> "none"]
  /\ emitted = [c \in Call |-> 0]
  /\ received = [c \in Call |-> <<>>]

\* The caller moves on, and nothing else changes.
Step(c, from, to) ==
  /\ phase[c] = from
  /\ phase' = [phase EXCEPT ![c] = to]
  /\ UNCHANGED <<execution, emitted, received>>

Make(c) == Step(c, "idle", "made")

\* The caller gives up, or loses its service.
Lose(c) == Step(c, "made", "lost")

Answer(c) ==
  /\ Kind[c] = "request"
  /\ execution[c] = "finished"
  /\ Step(c, "made", "answered")

End(c) ==
  /\ Kind[c] = "stream"
  /\ execution[c] = "finished"
  /\ Len(received[c]) = emitted[c]
  /\ Step(c, "made", "ended")

Execute(c) ==
  /\ phase[c] # "idle"
  /\ execution[c] = "none"
  /\ execution' = [execution EXCEPT ![c] = "running"]
  /\ UNCHANGED <<phase, emitted, received>>

Stop(c) ==
  /\ execution[c] = "running"
  /\ \E how \in {"finished", "failed"} : execution' = [execution EXCEPT ![c] = how]
  /\ UNCHANGED <<phase, emitted, received>>

Emit(c) ==
  /\ Kind[c] = "stream"
  /\ execution[c] = "running"
  /\ emitted' = [emitted EXCEPT ![c] = @ + 1]
  /\ UNCHANGED <<phase, execution, received>>

Deliver(c) ==
  /\ phase[c] = "made"
  /\ Len(received[c]) < emitted[c]
  /\ received' = [received EXCEPT ![c] =
                    Append(@, [data |-> c, item |-> Len(@) + 1])]
  /\ UNCHANGED <<phase, execution, emitted>>

Next ==
  \E c \in Call :
    Make(c) \/ Lose(c) \/ Answer(c) \/ End(c) \/ Execute(c) \/ Stop(c) \/ Emit(c)
      \/ Deliver(c)

Spec == Init /\ [][Next]_vars

=============================================================================
