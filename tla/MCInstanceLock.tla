--------------------------- MODULE MCInstanceLock ---------------------------
(* Three processes and every kind of lock and fault: the constants are in  *)
(* the configurations.                                                     *)
EXTENDS InstanceLock, TLC
=============================================================================
