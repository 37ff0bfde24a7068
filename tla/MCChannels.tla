----------------------------- MODULE MCChannels -----------------------------
(* Model values, bounds and symmetry for Channels.                         *)
EXTENDS Channels, TLC

Symmetry == Permutations(Threads) \cup Permutations(Objects)
                \cup Permutations(Loggers)
=============================================================================
