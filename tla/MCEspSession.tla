---------------------------- MODULE MCEspSession ----------------------------
(* An instance of EspSession for TLC. *)
EXTENDS EspSession
=============================================================================
