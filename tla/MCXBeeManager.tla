--------------------------- MODULE MCXBeeManager ---------------------------
(* The constants are in the configurations.                                *)
EXTENDS XBeeManager, TLC

Interchangeable == Permutations(Workers) \cup Permutations(Slots)
=============================================================================
