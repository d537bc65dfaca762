-------------------------- MODULE MCExportSession --------------------------
(* Instances of ExportSession for TLC. *)
EXTENDS ExportSession

\* Every export asks for the same file.
OneFile == [e \in Exports |-> "events.csv"]
=============================================================================
