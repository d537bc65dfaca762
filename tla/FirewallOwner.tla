--------------------------- MODULE FirewallOwner ---------------------------
(***************************************************************************)
(* The native side of live tailing of one Windows Firewall log: the        *)
(* FirewallOwner kept in AppState.open_files (src-tauri/src/watcher/       *)
(* firewall.rs), the commands that start, stop, pause and resume a watch   *)
(* (src-tauri/src/commands/parsing.rs), open_log_file, which replaces the  *)
(* owner, and the worker threads, one per admitted watch, that read the    *)
(* file outside the owner lock and commit under it.                        *)
(*                                                                         *)
(* One decoded unit of the file is one log line and one row.  A unit is    *)
(* "ascii" (the same in UTF-8 and in Windows-1252) or "high" (a byte that  *)
(* is definitively invalid UTF-8).  Rows record the content generation     *)
(* they were read from, which the program cannot see.                      *)
(***************************************************************************)
EXTENDS Integers, Sequences, FiniteSets

CONSTANTS MaxEpoch,        \* the largest watch epoch: 2^53 - 1 in the code
          MaxSession,      \* how many times the source is opened
          MaxLen,          \* units in one generation of the file
          MaxGen,          \* generations of the file
          Chunk,           \* units of one bounded read: 64 KiB in the code
          MaxFault,        \* how many reads, thread launches and emissions fail
          Writers,         \* what other programs do to the file
          IdentityMayFail, \* whether the platform may not know the identity
          LaunchMayFail    \* whether a worker thread may fail to start

ASSUME EpochAssumption == MaxEpoch \in Nat \ {0}
ASSUME SessionAssumption == MaxSession \in Nat \ {0}
ASSUME FileAssumption == MaxLen \in Nat /\ MaxGen \in Nat \ {0}
ASSUME ChunkAssumption == Chunk \in Nat \ {0}
ASSUME FaultAssumption == MaxFault \in Nat
ASSUME WritersAssumption == Writers \subseteq {"ascii", "high", "replace", "truncate", "bom"}
ASSUME IdentityAssumption == IdentityMayFail \in BOOLEAN
ASSUME LaunchAssumption == LaunchMayFail \in BOOLEAN

VARIABLES
  file,          \* the log on disk
  owner,         \* open_files[path].firewall
  opening,       \* the snapshot open_log_file has parsed and not yet installed
  tail_session,  \* tail_sessions[path]: the token of the registered worker
  stopped,       \* the workers whose stop flag is set
  worker,        \* the worker threads, by token
  emitted,       \* the "tail-new-entries" payloads the last step emitted
  faults,        \* failures left
  owed,          \* history: a committed read saw the generation end and no
                 \* reset has been committed since
  unsent         \* history: the payloads of this source that were committed and
                 \* could not be emitted, since a reset was last emitted

backend == <<file, owner, opening, tail_session, stopped, worker, emitted, faults, owed,
             unsent>>

----------------------------------------------------------------------------
(* Types *)

None == 0

Unit == {"ascii", "high"}
Encoding == {"undetermined", "utf8", "windows1252"}
Transition == {"none", "generation", "windows1252"}
Gap == {"read_failed", "invalid_encoding", "generation_unverifiable"}
Decoding == {"ready"} \cup Gap

\* FirewallControlToken.  Session identifiers are fresh: 1, 2, ...
Token == [session : 1..MaxSession, epoch : 1..MaxEpoch]

Row == [gen : 1..MaxGen, line : Nat, enc : Encoding, id : Nat]

\* FirewallCheckpoint: the decoder, the stream and the identity.  `rows' is
\* the history of the stream: every row it produced since its last reset.
Checkpoint == [raw_offset : Nat, enc : Encoding, explicit_bom : BOOLEAN,
               next_id : Nat, rows : Seq(Row), identity : Nat]

\* FirewallReadOutcome; `saw' records that the read found a new generation.
Outcome == [install : BOOLEAN, checkpoint : Checkpoint, pending : Transition,
            entries : Seq(Row), reset : BOOLEAN, changed : BOOLEAN,
            decoding : Decoding, saw : BOOLEAN]

\* A worker thread.  `fresh' stands for the equality of the revision held by
\* its request with the owner's: every revision += 1 of the owner clears it.
Worker == [pc : {"unborn", "loop", "read", "commit", "exited"}, fresh : BOOLEAN,
           checkpoint : Checkpoint, pending : Transition, outcome : Outcome]

Event == [token : Token, entries : Seq(Row), reset : BOOLEAN]

NoCheckpoint == [raw_offset |-> 0, enc |-> "undetermined", explicit_bom |-> FALSE,
                 next_id |-> 0, rows |-> <<>>, identity |-> None]
NoOutcome == [install |-> FALSE, checkpoint |-> NoCheckpoint, pending |-> "none",
              entries |-> <<>>, reset |-> FALSE, changed |-> FALSE,
              decoding |-> "ready", saw |-> FALSE]
Idle(pc) == [pc |-> pc, fresh |-> FALSE, checkpoint |-> NoCheckpoint,
             pending |-> "none", outcome |-> NoOutcome]

----------------------------------------------------------------------------
(* Decoding and reading *)

Highs(units) == \E i \in DOMAIN units : units[i] = "high"

\* The rows of units f.data[first..last] decoded as enc, with ids from id on.
Rows(f, first, last, enc, id) ==
  [i \in 1..(last - first + 1) |->
     [gen |-> f.gen, line |-> first + i - 1, enc |-> enc, id |-> id + i - 1]]

\* What FirewallDecoder::push makes of some units: the encoding in force and
\* whether it is definitively refused.
Resolved_in_place(enc, units) ==
  IF Highs(units) THEN "windows1252"
  ELSE IF enc = "undetermined" /\ units # <<>> THEN "utf8" ELSE enc
Resolved(enc, units) ==
  IF enc = "undetermined" /\ units # <<>> THEN "utf8" ELSE enc
Explicit(ck, f, units) ==
  IF ck.enc = "undetermined" /\ units # <<>> THEN f.bom ELSE ck.explicit_bom
Refused(enc, units) == Resolved(enc, units) = "utf8" /\ Highs(units)

size_only(previous, current) == FALSE
identities_differ(previous, current) ==
  previous # None /\ current # None /\ previous # current

\* snapshot_bytes: the whole file decoded from byte zero.
SnapshotEncoding(f, force) ==
  IF force THEN "windows1252"
  ELSE IF Refused("undetermined", f.data) THEN "windows1252"
       ELSE Resolved("undetermined", f.data)
SnapshotFails(f, force) == ~force /\ f.bom /\ Highs(f.data)
snapshot_restarts_ids(f, next_id, force, identity) ==
  LET enc == SnapshotEncoding(f, force)
  IN [raw_offset |-> Len(f.data), enc |-> enc,
      explicit_bom |-> enc = "utf8" /\ f.bom, next_id |-> Len(f.data),
      rows |-> Rows(f, 1, Len(f.data), enc, 0), identity |-> identity]
snapshot_bytes(f, next_id, force, identity) ==
  LET enc == SnapshotEncoding(f, force)
  IN [raw_offset |-> Len(f.data), enc |-> enc,
      explicit_bom |-> enc = "utf8" /\ f.bom,
      next_id |-> next_id + Len(f.data),
      rows |-> Rows(f, 1, Len(f.data), enc, next_id), identity |-> identity]

\* A read that ends in a gap keeps the transition it owes and commits nothing.
gap_forgets_transition(req, pending, reason, saw) ==
  [install |-> FALSE, checkpoint |-> req.checkpoint, pending |-> "none",
   entries |-> <<>>, reset |-> FALSE, changed |-> FALSE, decoding |-> reason,
   saw |-> saw]
GapOutcome(req, pending, reason, saw) ==
  [install |-> FALSE, checkpoint |-> req.checkpoint, pending |-> pending,
   entries |-> <<>>, reset |-> FALSE, changed |-> FALSE, decoding |-> reason,
   saw |-> saw]

\* The bounded append read: at most Chunk units from the consumed offset.
AppendUnits(ck, f) ==
  SubSeq(f.data, ck.raw_offset + 1,
         IF Len(f.data) < ck.raw_offset + Chunk THEN Len(f.data)
                                                ELSE ck.raw_offset + Chunk)
AppendOutcome(ck, f) ==
  LET units == AppendUnits(ck, f)
      enc == Resolved(ck.enc, units)
      rows == Rows(f, ck.raw_offset + 1, ck.raw_offset + Len(units), enc, ck.next_id)
  IN [install |-> TRUE,
      checkpoint |-> [raw_offset |-> ck.raw_offset + Len(units), enc |-> enc,
                      explicit_bom |-> Explicit(ck, f, units),
                      next_id |-> ck.next_id + Len(units),
                      rows |-> ck.rows \o rows, identity |-> ck.identity],
      pending |-> "none", entries |-> rows, reset |-> FALSE,
      changed |-> units # <<>>, decoding |-> "ready", saw |-> FALSE]

\* The whole-file read that settles an owed transition.
ResetOutcome(req, f, identity, pending, fault, saw) ==
  LET force == pending = "windows1252"
      ck == snapshot_bytes(f, req.checkpoint.next_id, force, identity)
      Fails(reason) == GapOutcome(req, pending, reason, saw)
  IN IF force /\ (identity = None \/ identity # req.checkpoint.identity)
       THEN Fails("generation_unverifiable")
     ELSE IF fault # "none" THEN Fails("read_failed")
     ELSE IF SnapshotFails(f, force) THEN Fails("invalid_encoding")
     ELSE [install |-> TRUE, checkpoint |-> ck, pending |-> "none",
           entries |-> ck.rows, reset |-> TRUE, changed |-> TRUE,
           decoding |-> "ready", saw |-> saw]

NewGeneration(ck, f, identity) ==
  identities_differ(ck.identity, identity) \/ Len(f.data) < ck.raw_offset

read_opened(req, f, identity, pending, fault, saw) ==
  LET ck == req.checkpoint
      units == AppendUnits(ck, f)
  IN IF pending # "none" THEN ResetOutcome(req, f, identity, pending, fault, saw)
     ELSE IF fault = "read" THEN GapOutcome(req, pending, "read_failed", saw)
     ELSE IF ~Refused(ck.enc, units) THEN AppendOutcome(ck, f)
     ELSE IF Explicit(ck, f, units)
       THEN GapOutcome(req, pending, "invalid_encoding", saw)
     ELSE ResetOutcome(req, f, identity, "windows1252", fault, saw)

\* read_candidate: `fault' is where the I/O fails, if it does: opening the
\* file, the first read of the handle, or the whole-file read after it.  A
\* failure to open sees nothing; a later one has compared the generation.
Fault == {"none", "open", "read", "reread"}
read_candidate(req, f, identity, fault) ==
  LET saw == NewGeneration(req.checkpoint, f, identity)
      pending == IF saw THEN "generation" ELSE req.pending
  IN IF fault = "open" THEN GapOutcome(req, req.pending, "read_failed", FALSE)
     ELSE read_opened(req, f, identity, pending, fault, saw)

----------------------------------------------------------------------------
(* FirewallOwner *)

\* `firewall' is FALSE when the opened content was not recognised as a firewall
\* log: an empty file has no owner, and no token is of its session.
epoch_taken(session, ck) ==
  [session |-> session, firewall |-> ck.raw_offset > 0, checkpoint |-> ck,
   pending |-> "none", decoding |-> "ready", epoch |-> 1, active |-> FALSE,
   paused |-> FALSE]
NewOwner(session, ck) ==
  [session |-> session, firewall |-> ck.raw_offset > 0, checkpoint |-> ck,
   pending |-> "none", decoding |-> "ready", epoch |-> 0, active |-> FALSE,
   paused |-> FALSE]

same_session(o, t) ==
  o.firewall /\ t.session = o.session /\ 0 < t.epoch /\ t.epoch <= MaxEpoch
is_current(o, t) == same_session(o, t) /\ t.epoch = o.epoch /\ o.active

\* start returns Started exactly when it admits a strictly newer epoch.
revives_cancelled(o, t) == same_session(o, t) /\ t.epoch >= o.epoch /\ ~is_current(o, t)
Starts(o, t) == same_session(o, t) /\ t.epoch > o.epoch
start(o, t) == [o EXCEPT !.epoch = t.epoch, !.active = TRUE, !.paused = FALSE]

Stops(o, t) == same_session(o, t) /\ t.epoch >= o.epoch
stop_skips_an_epoch(o, t) == [o EXCEPT !.epoch = t.epoch + 1, !.active = FALSE]
stop(o, t) == [o EXCEPT !.epoch = t.epoch, !.active = FALSE]

any_watch_accepts(o, w, t) == o.active /\ ~o.paused
Accepts(o, w, t) == is_current(o, t) /\ ~o.paused /\ w.fresh
commit(o, out) ==
  [o EXCEPT !.checkpoint = IF out.install THEN out.checkpoint ELSE @,
            !.pending = out.pending, !.decoding = out.decoding]
Reports(o, out) == out.changed \/ out.decoding # o.decoding

\* revision += 1: no request taken so far can commit any more.
BumpRevision(w) == [t \in DOMAIN w |-> [w[t] EXCEPT !.fresh = FALSE]]

----------------------------------------------------------------------------
(* The file, written by other programs *)

Write(u) ==
  /\ u \in Writers \cap Unit
  /\ Len(file.data) < MaxLen
  /\ file' = [file EXCEPT !.data = Append(@, u)]
  /\ emitted' = <<>>
  /\ UNCHANGED <<owner, opening, tail_session, stopped, worker, faults, owed, unsent>>

\* A new file takes the path, possibly longer than the old one.
Replace(data, bom) ==
  /\ "replace" \in Writers
  /\ file.gen < MaxGen
  /\ file' = [gen |-> file.gen + 1, identity |-> file.identity + 1,
              bom |-> bom, data |-> data]
  /\ emitted' = <<>>
  /\ UNCHANGED <<owner, opening, tail_session, stopped, worker, faults, owed, unsent>>

\* The file is emptied in place and keeps its identity.
Truncate ==
  /\ "truncate" \in Writers
  /\ file.gen < MaxGen
  /\ file' = [file EXCEPT !.gen = @ + 1, !.data = <<>>]
  /\ emitted' = <<>>
  /\ UNCHANGED <<owner, opening, tail_session, stopped, worker, faults, owed, unsent>>

Boms == {FALSE} \cup (IF "bom" \in Writers THEN {TRUE} ELSE {})
Contents == UNION {[1..n -> Writers \cap Unit] : n \in 0..MaxLen}

----------------------------------------------------------------------------
(* Commands *)

Identities(f) == {f.identity} \cup (IF IdentityMayFail THEN {None} ELSE {})

\* open_log_file parses the file from byte zero, outside every lock: the file
\* and the owner it will replace may change before it is done.
parse_file ==
  /\ owner.session < MaxSession
  /\ opening = {}
  /\ ~SnapshotFails(file, FALSE)
  /\ \E identity \in Identities(file) :
       opening' = {snapshot_bytes(file, 0, FALSE, identity)}
  /\ emitted' = <<>>
  /\ UNCHANGED <<file, owner, tail_session, stopped, worker, faults, owed, unsent>>

\* Then it installs a fresh owner under the lock; the session that is still
\* registered for the path is left alone.
open_log_file ==
  /\ \E ck \in opening : owner' = NewOwner(owner.session + 1, ck)
  /\ owner.session < MaxSession
  /\ opening' = {}
  /\ worker' = BumpRevision(worker)
  /\ owed' = FALSE
  /\ unsent' = {}
  /\ emitted' = <<>>
  /\ UNCHANGED <<file, tail_session, stopped, faults>>

\* The file cannot be read, or its explicit encoding is violated.
open_log_file_fails ==
  /\ opening = {}
  /\ \/ SnapshotFails(file, FALSE) /\ UNCHANGED faults
     \/ faults > 0 /\ faults' = faults - 1
  /\ emitted' = <<>>
  /\ UNCHANGED <<file, owner, opening, tail_session, stopped, worker, owed, unsent>>

\* admit_tail_start: admission, launch and replacement under both locks.
admit_tail_start(t) ==
  /\ Starts(owner, t)
  /\ owner' = start(owner, t)
  /\ worker' = [BumpRevision(worker) EXCEPT ![t] = Idle("loop")]
  /\ tail_session' = {t}
  /\ stopped' = stopped \cup tail_session
  /\ emitted' = <<>>
  /\ UNCHANGED <<file, opening, faults, owed, unsent>>

\* The thread cannot be launched: the admitted epoch is stopped again, and the
\* registered session stays.
admit_tail_start_fails(t) ==
  /\ LaunchMayFail /\ faults > 0
  /\ Starts(owner, t)
  /\ faults' = faults - 1
  /\ owner' = stop(start(owner, t), t)
  /\ worker' = BumpRevision(worker)
  /\ emitted' = <<>>
  /\ UNCHANGED <<file, opening, tail_session, stopped, owed, unsent>>

\* A stop that the owner refused removes the session all the same.
stop_tail_unfenced(t) ==
  /\ owner' = IF Stops(owner, t) THEN stop(owner, t) ELSE owner
  /\ worker' = BumpRevision(worker)
  /\ tail_session' = {}
  /\ stopped' = stopped \cup tail_session
  /\ emitted' = <<>>
  /\ UNCHANGED <<file, opening, faults, owed, unsent>>

\* stop_tail: an accepted stop removes whichever session is registered.
stop_tail(t) ==
  /\ Stops(owner, t)
  /\ owner' = stop(owner, t)
  /\ worker' = BumpRevision(worker)
  /\ tail_session' = {}
  /\ stopped' = stopped \cup tail_session
  /\ emitted' = <<>>
  /\ UNCHANGED <<file, opening, faults, owed, unsent>>

\* pause_tail and resume_tail.
set_paused(t, paused) ==
  /\ is_current(owner, t)
  /\ owner' = [owner EXCEPT !.paused = paused]
  /\ worker' = BumpRevision(worker)
  /\ emitted' = <<>>
  /\ UNCHANGED <<file, opening, tail_session, stopped, faults, owed, unsent>>

----------------------------------------------------------------------------
(* A worker thread *)

\* The head of the loop: the stop flag, then the owner under its lock.
worker_exit(t) ==
  /\ worker[t].pc = "loop"
  /\ t \in stopped \/ ~is_current(owner, t)
  /\ worker' = [worker EXCEPT ![t] = Idle("exited")]
  /\ emitted' = <<>>
  /\ UNCHANGED <<file, owner, opening, tail_session, stopped, faults, owed, unsent>>

worker_request(t) ==
  /\ worker[t].pc = "loop"
  /\ t \notin stopped
  /\ is_current(owner, t) /\ ~owner.paused
  /\ worker' = [worker EXCEPT ![t] =
                  [pc |-> "read", fresh |-> TRUE, checkpoint |-> owner.checkpoint,
                   pending |-> owner.pending, outcome |-> NoOutcome]]
  /\ emitted' = <<>>
  /\ UNCHANGED <<file, owner, opening, tail_session, stopped, faults, owed, unsent>>

\* The read, outside every lock.
worker_read(t, fault) ==
  /\ worker[t].pc = "read"
  /\ fault # "none" => faults > 0
  /\ faults' = IF fault = "none" THEN faults ELSE faults - 1
  /\ \E identity \in Identities(file) :
       worker' = [worker EXCEPT ![t].pc = "commit",
                    ![t].outcome = read_candidate(worker[t], file, identity, fault)]
  /\ emitted' = <<>>
  /\ UNCHANGED <<file, owner, opening, tail_session, stopped, owed, unsent>>

\* The closure that commit calls with the batch: app.emit may fail, which is
\* only logged.  The checkpoint is committed by then and nothing is sent again.
publish(event) ==
  \/ /\ emitted' = <<event>>
     /\ unsent' = IF event.reset THEN {} ELSE unsent
     /\ UNCHANGED faults
  \/ /\ faults > 0
     /\ faults' = faults - 1
     /\ emitted' = <<>>
     /\ unsent' = unsent \cup {event}

\* commit_current: the fence, the commit and the publication, under the lock.
worker_commit(t) ==
  LET out == worker[t].outcome
  IN /\ worker[t].pc = "commit"
     /\ IF Accepts(owner, worker[t], t)
        THEN /\ owner' = commit(owner, out)
             /\ worker' = [BumpRevision(worker) EXCEPT ![t] = Idle("loop")]
             /\ owed' = ((owed \/ out.saw) /\ ~out.reset)
             /\ IF Reports(owner, out)
                THEN publish([token |-> t, entries |-> out.entries, reset |-> out.reset])
                ELSE emitted' = <<>> /\ UNCHANGED <<faults, unsent>>
        ELSE /\ worker' = [worker EXCEPT ![t] = Idle("loop")]
             /\ emitted' = <<>>
             /\ UNCHANGED <<owner, owed, faults, unsent>>
     /\ UNCHANGED <<file, opening, tail_session, stopped>>

----------------------------------------------------------------------------
(* The specification *)

FileStep ==
  \/ \E u \in Unit : Write(u)
  \/ \E data \in Contents, bom \in Boms : Replace(data, bom)
  \/ Truncate

CommandStep ==
  \/ parse_file
  \/ open_log_file
  \/ open_log_file_fails
  \/ \E t \in Token :
       \/ admit_tail_start(t)
       \/ admit_tail_start_fails(t)
       \/ stop_tail(t)
       \/ \E paused \in BOOLEAN : set_paused(t, paused)

WorkerStep(t) ==
  \/ worker_exit(t)
  \/ worker_request(t)
  \/ \E fault \in Fault : worker_read(t, fault)
  \/ worker_commit(t)

\* A firewall log has just been opened for the first time.
Init ==
  /\ \E data \in Contents, bom \in Boms :
       file = [gen |-> 1, identity |-> 1, bom |-> bom, data |-> data]
  /\ file.data # <<>> /\ ~SnapshotFails(file, FALSE)
  /\ \E identity \in Identities(file) :
       owner = NewOwner(1, snapshot_bytes(file, 0, FALSE, identity))
  /\ opening = {}
  /\ tail_session = {}
  /\ stopped = {}
  /\ worker = [t \in Token |-> Idle("unborn")]
  /\ emitted = <<>>
  /\ faults = MaxFault
  /\ owed = FALSE
  /\ unsent = {}

Next == FileStep \/ CommandStep \/ (\E t \in Token : WorkerStep(t))

Spec == Init /\ [][Next]_backend

----------------------------------------------------------------------------
(* Properties *)

FileType == [gen : 1..MaxGen, identity : Nat \ {None}, bom : BOOLEAN, data : Seq(Unit)]
OwnerType == [session : 1..MaxSession, firewall : BOOLEAN, checkpoint : Checkpoint,
              pending : Transition, decoding : Decoding, epoch : 0..MaxEpoch, active : BOOLEAN,
              paused : BOOLEAN]

\* The type invariant of the owner, the worker threads and what they emit.
TypeOK ==
  /\ file \in FileType
  /\ owner \in OwnerType
  /\ opening \subseteq Checkpoint
  /\ tail_session \subseteq Token
  /\ stopped \subseteq Token
  /\ worker \in [Token -> Worker]
  /\ emitted \in Seq(Event)
  /\ faults \in 0..MaxFault
  /\ owed \in BOOLEAN
  /\ unsent \subseteq Event

CurrentToken == [session |-> owner.session, epoch |-> owner.epoch]

\* A watch the owner reports as active is really being tailed: its worker is
\* the one registered in tail_sessions, its stop flag is clear and its thread
\* has not left the loop.  No delayed start, stop or failed launch of another
\* watch, and no reopening of the source, may leave an active watch without a
\* reader (admit_tail_start, control_tail, start_session).
ActiveWatchIsTailed ==
  owner.active =>
    /\ tail_session = {CurrentToken}
    /\ CurrentToken \notin stopped
    /\ worker[CurrentToken].pc \in {"loop", "read", "commit"}

\* What the commit fence lets through was computed from the checkpoint and the
\* owed transition that are committed now: no read is ever applied on top of
\* another worker's, an older watch's or an older source's (FirewallOwner::commit).
FenceIsExact ==
  \A t \in Token :
    /\ worker[t].pc \in {"read", "commit"}
    /\ Accepts(owner, worker[t], t)
    => /\ worker[t].checkpoint = owner.checkpoint
       /\ worker[t].pending = owner.pending

\* The rows a stream has produced since its last reset are numbered from line
\* one without a gap, carry consecutive ids and one encoding, and account for
\* every unit of the consumed offset: a late Windows-1252 byte restarts the
\* stream and never appends rows of another encoding (read_opened).
StreamIsCoherent ==
  LET ck == owner.checkpoint
  IN /\ Len(ck.rows) = ck.raw_offset
     /\ \A i \in DOMAIN ck.rows :
          /\ ck.rows[i].line = i
          /\ ck.rows[i].enc = ck.enc
          /\ ck.rows[i].id = ck.next_id - Len(ck.rows) + i - 1

\* As long as nobody empties the file in place, a checkpoint holds rows of one
\* file only, of the present one when it bears its identity, and once it has
\* consumed the whole file it has chosen the encoding a fresh open would choose:
\* the snapshot and the chunked stream converge (read_candidate, snapshot_bytes).
SnapshotParity ==
  LET ck == owner.checkpoint
  IN /\ \A i \in DOMAIN ck.rows : ck.rows[i].gen = ck.rows[1].gen
     /\ ck.identity = file.identity =>
          /\ \A i \in DOMAIN ck.rows : ck.rows[i].gen = file.gen
          /\ ck.raw_offset = Len(file.data) => ck.enc = SnapshotEncoding(file, FALSE)

\* The watches that were stopped, superseded or whose source was reopened.
Revoked(o, t) ==
  \/ t.session < o.session
  \/ t.session = o.session /\ t.epoch < o.epoch
  \/ t.session = o.session /\ t.epoch = o.epoch /\ ~o.active

Published(t) == \E i \in DOMAIN emitted' : emitted'[i].token = t

\* A watch once revoked stays revoked, whatever commands arrive late, and
\* nothing is published for it any more: a stop that overtakes its start
\* cancels that epoch for good (FirewallOwner::start, stop, commit).
RevocationIsFinal ==
  [][\A t \in Token : Revoked(owner, t) => Revoked(owner', t) /\ ~Published(t)]_backend

\* Once a committed read has seen the generation end, the checkpoint of this
\* source changes only by the reset that is owed for it, whatever reads fail
\* and whatever watches stop and start meanwhile (read_candidate, commit).
OwedResetComesFirst ==
  [][owed /\ owner'.session = owner.session /\ owner'.checkpoint # owner.checkpoint
       => ~owed']_backend

\* Within one open of the source the ids of the rows never go back: a reset
\* continues the numbering, and what is published bears ids that no earlier
\* row of the source ever had (read_opened).
IdsNeverReused ==
  [][owner'.session = owner.session =>
       /\ owner'.checkpoint.next_id >= owner.checkpoint.next_id
       /\ \A i \in DOMAIN emitted' :
            \A j \in DOMAIN emitted'[i].entries :
              emitted'[i].entries[j].id \in
                owner.checkpoint.next_id..(owner'.checkpoint.next_id - 1)]_backend
============================================================================
