----------------------------- MODULE MCEspWatch -----------------------------
(* An instance of EspWatch for TLC. *)
EXTENDS EspWatch
=============================================================================
