---------------------------- MODULE MCEventRing ----------------------------
(* The event ring on a small volume.                                       *)
EXTENDS EventRing, TLC
=============================================================================
