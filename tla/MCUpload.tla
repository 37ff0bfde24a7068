------------------------------ MODULE MCUpload ------------------------------
(* The constants are in the configuration.                                 *)
EXTENDS Upload
=============================================================================
