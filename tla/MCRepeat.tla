------------------------------ MODULE MCRepeat ------------------------------
(***************************************************************************)
(* Repeat in two settings that share no behaviour, in one run: one session *)
(* with time passing (the constants of the configuration), and two         *)
(* sessions with a rekey between two of the wire thread's packets.         *)
(***************************************************************************)
EXTENDS Repeat

VARIABLE setting

Rekeying == INSTANCE Repeat WITH
  REORDER <- 1, ASK_SCAN <- 2, MaxSid <- 2, MaxCounter <- 4, MaxTime <- 0

MCInit == (setting = "one" /\ Init) \/ (setting = "rekey" /\ Rekeying!Init)

MCNext ==
  /\ UNCHANGED setting
  /\ (setting = "one" /\ Next) \/ (setting = "rekey" /\ Rekeying!Next)

MCSpec == MCInit /\ [][MCNext]_<<setting, vars>>

==============================================================================
