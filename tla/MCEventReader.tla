--------------------------- MODULE MCEventReader ---------------------------
(* The event ring and its reader on a small volume.                        *)
EXTENDS EventReader

MCSteps == {-1, 0, 1}
=============================================================================
