--------------------------- MODULE MCReplayWindow ---------------------------
(***************************************************************************)
(* Instances of ReplayWindow for TLC: a ring of three two-bit words, with  *)
(* counters that go more than twice round it.                              *)
(***************************************************************************)
EXTENDS ReplayWindow

CONSTANT MaxCounter
MCCounters == 0 .. MaxCounter
=============================================================================
