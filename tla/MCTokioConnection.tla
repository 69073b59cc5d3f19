-------------------------- MODULE MCTokioConnection --------------------------
(***************************************************************************)
(* Instances of TokioConnection for TLC.  A message is the number of bytes *)
(* of its encoding.                                                        *)
(***************************************************************************)
EXTENDS TokioConnection

MCBodyLen == [m \in Message |-> m]

=============================================================================
