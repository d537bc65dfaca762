---------------------------- MODULE MCTailReader ----------------------------
(* The instances of TailReader that TLC checks; the bounds are in the cfgs. *)
EXTENDS TailReader
=============================================================================
