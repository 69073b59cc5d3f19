---------------------------- MODULE MCFramedLink ----------------------------
(***************************************************************************)
(* Instances of FramedLink for TLC.  A message is the number of bytes of   *)
(* its encoding, so that messages of one length are one value.             *)
(***************************************************************************)
EXTENDS FramedLink

MCBodyLen == [m \in Message |-> m]

=============================================================================
