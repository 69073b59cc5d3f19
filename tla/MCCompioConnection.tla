-------------------------- MODULE MCCompioConnection --------------------------
(***************************************************************************)
(* Instances of CompioConnection for TLC.  A message is the number of      *)
(* bytes of its encoding.                                                  *)
(***************************************************************************)
EXTENDS CompioConnection

MCBodyLen == [m \in Message |-> m]

=============================================================================
