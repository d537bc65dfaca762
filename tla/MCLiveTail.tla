----------------------------- MODULE MCLiveTail -----------------------------
(* Model-checking instances of LiveTail. *)
EXTENDS LiveTail, TLC

Anonymous == Permutations(Channels)
=============================================================================
