----------------------------- MODULE MCRpcSystem -----------------------------
(***************************************************************************)
(* Instances of RpcSystem for TLC.                                         *)
(***************************************************************************)
EXTENDS RpcSystem

CONSTANTS client, server, r1, r2, r3, s1, s2, o1, o2, o3

MCOwner == [c \in Call |-> client]

\* Both peers make calls.
MCOwnerBoth == [c \in Call |-> IF c \in {r3, s2, o2} THEN server ELSE client]

MCKind ==
  [c \in Call |-> CASE c \in {r1, r2, r3} -> "request"
                    [] c \in {s1, s2}     -> "stream"
                    [] OTHER              -> "oneshot"]

=============================================================================
