--------------------------- MODULE MessageChannel ---------------------------
(***************************************************************************)
(* What one direction of a connection promises: messages come out in the   *)
(* order they went in, none skipped, none twice, up to the first one the   *)
(* receiver's coder rejects; and whatever is ahead of that one does come   *)
(* out.                                                                    *)
(***************************************************************************)
EXTENDS Naturals, Sequences

CONSTANTS Message, Undecodable

VARIABLES sent, received

channelVars == <<sent, received>>

Init == sent = <<>> /\ received = <<>>

Send(m) ==
  /\ sent' = Append(sent, m)
  /\ UNCHANGED received

\* The next message due, if the receiver can read it.
Receive ==
  /\ Len(received) < Len(sent)
  /\ sent[Len(received) + 1] \notin Undecodable
  /\ received' = Append(received, sent[Len(received) + 1])
  /\ UNCHANGED sent

Next == Receive \/ \E m \in Message : Send(m)

SafeSpec == Init /\ [][Next]_channelVars

Spec == SafeSpec /\ WF_channelVars(Receive)

=============================================================================
