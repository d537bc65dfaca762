---------------------------- MODULE AtomicExport ----------------------------
(***************************************************************************)
(* What the event-log export promises whoever watches the files and the    *)
(* messages of the export bar: the file of an export appears whole, at     *)
(* most once, and only while the export holds its destination alone; what  *)
(* the bar says of an export is settled once, says "saved" exactly when    *)
(* the file was put in place, and nothing is written after it.             *)
(***************************************************************************)
EXTENDS Naturals, FiniteSets

CONSTANTS Exports,      \* the exports the user asks for
          Destinations, \* the files they may replace
          DestOf,       \* the destination each export asks for
          MaxSessions   \* how many may hold a destination at a time

VARIABLES
  reserved,   \* the exports that hold their destination
  published,  \* the exports whose file was put in place
  outcome     \* what the export bar was told

avars == <<reserved, published, outcome>>

Outcome == {"none", "saved", "cancelled", "failed"}

AtomicInit ==
  /\ reserved = {}
  /\ published = {}
  /\ outcome = [e \in Exports |-> "none"]

\* Whether an export may join those that hold their destination.
Admits(holders, e) ==
  /\ Cardinality(holders) < MaxSessions
  /\ \A f \in holders : DestOf[f] # DestOf[e]

\* An export takes its destination, after others may have lost theirs.
Reserve(e) ==
  /\ outcome[e] = "none"
  /\ e \notin published
  /\ \E kept \in SUBSET reserved : Admits(kept, e) /\ reserved' = kept \cup {e}
  /\ UNCHANGED <<published, outcome>>

\* Exports lose their destinations.
Release ==
  /\ reserved' \in SUBSET reserved
  /\ UNCHANGED <<published, outcome>>

\* The file of an export replaces the destination.
Publish(e) ==
  /\ e \in reserved \ published
  /\ outcome[e] = "none"
  /\ published' = published \cup {e}
  /\ UNCHANGED <<reserved, outcome>>

\* The export bar is told how the export ended.
Report(e) ==
  /\ outcome[e] = "none"
  /\ \E o \in Outcome \ {"none"} :
       /\ (o = "saved") <=> (e \in published)
       /\ outcome' = [outcome EXCEPT ![e] = o]
  /\ UNCHANGED <<reserved, published>>

AtomicNext ==
  \/ Release
  \/ \E e \in Exports : Reserve(e) \/ Publish(e) \/ Report(e)

AtomicSpec == AtomicInit /\ [][AtomicNext]_avars
=============================================================================
