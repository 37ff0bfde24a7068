---------------------------- MODULE MCScheduler -----------------------------
(* Two threads, two timers and a stop: the constants are in the            *)
(* configurations.                                                         *)
EXTENDS Scheduler, TLC
=============================================================================
