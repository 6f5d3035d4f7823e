----------------------------- MODULE MCSessions -----------------------------
(***************************************************************************)
(* PeerSessions in three settings that share no behaviour, in one run: a   *)
(* path that keeps handshakes in order (the constants of the               *)
(* configuration), the same with the initiator's carrier moving, and a     *)
(* path that keeps no order with processes that restart.                   *)
(***************************************************************************)
EXTENDS PeerSessions

VARIABLE setting

Moving == INSTANCE PeerSessions WITH
  Keepalive <- {R}, MaxAttempts <- 2, MaxSessions <- 2, MaxMoves <- 1
Restarting == INSTANCE PeerSessions WITH
  Ordered <- {FALSE}, MaxAttempts <- 2, MaxSessions <- 2, MaxRestarts <- 1

MCInit ==
  \/ setting = "ordered" /\ Init
  \/ setting = "moving" /\ Moving!Init
  \/ setting = "restarting" /\ Restarting!Init

MCNext ==
  /\ UNCHANGED setting
  /\ \/ setting = "ordered" /\ Next
     \/ setting = "moving" /\ Moving!Next
     \/ setting = "restarting" /\ Restarting!Next

MCSpec == MCInit /\ [][MCNext]_<<setting, vars>>
==============================================================================
