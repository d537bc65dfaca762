-------------------------- MODULE MCFirewallWatch --------------------------
(* Model-checking instances of FirewallWatch. *)
EXTENDS FirewallWatch

\* A log that only grows.
GrowingWriters == {"ascii"}
\* A log that grows and is replaced.
ReplacingWriters == {"ascii", "replace"}
============================================================================
