-------------------------- MODULE MCFirewallOwner --------------------------
(* Model-checking instances of FirewallOwner. *)
EXTENDS FirewallOwner

\* A rotating log: other programs append to it and replace it.
RotatingWriters == {"ascii", "high", "replace", "bom"}
\* A log that is emptied in place and refilled.
TruncatingWriters == {"ascii", "truncate"}
============================================================================
