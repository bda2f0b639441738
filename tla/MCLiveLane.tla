----------------------------- MODULE MCLiveLane -----------------------------
(***************************************************************************)
(* An instance of LiveLane for TLC: two posts at once, three records, one  *)
(* row in the ring and in a queue, a reconnect and a restart.              *)
(***************************************************************************)
EXTENDS LiveLane
=============================================================================
