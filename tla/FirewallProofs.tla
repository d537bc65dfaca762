--------------------------- MODULE FirewallProofs ---------------------------
(***************************************************************************)
(* The firewall tail, for every value of the constants.                    *)
(*                                                                         *)
(* FirewallOwner: its type invariant and what its operators return, the    *)
(* commit fence, the reader of an active watch, the finality of a          *)
(* revocation and the owed reset; then its stream of rows: its rows are    *)
(* coherent, their ids are never used again, and what is read in chunks    *)
(* has the encoding of what is read at once.                               *)
(*                                                                         *)
(* FirewallWatch, on top of it:                                            *)
(*  - WatchTypes: its types (WatchTypesInv);                               *)
(*  - NoOrphan: no delayed command leaves the native side tailing what the *)
(*    webview does not show (OrphanInv);                                   *)
(*  - ViewFaithful: the rows in view are rows of their source (GrowsInv,   *)
(*    FaithfulInv);                                                        *)
(*  - WatchHonoured: the watch in view runs (StayInv, HonouredInv);        *)
(*  - ViewPictures: the view is the committed checkpoint but for lost      *)
(*    payloads (UnsentInv, PicturedInv);                                   *)
(*  - PauseHonoured: the worker is paused when the button says so          *)
(*    (PauseInv).                                                          *)
(* What the native side keeps of itself is proved of FirewallOwner: each   *)
(* step of FirewallWatch is one of its steps or leaves it alone            *)
(* (StepIsNative).                                                         *)
(***************************************************************************)
EXTENDS FirewallWatch, SequenceTheorems, TLAPS

----------------------------------------------------------------------------
(* What the reading operators return *)

\* Rows of consecutive units have the row type (Rows).
LEMMA RowsType ==
  ASSUME NEW f \in FileType, NEW first \in Nat, NEW n \in Nat,
         NEW enc \in Encoding, NEW id \in Nat
  PROVE  Rows(f, first, first + n - 1, enc, id) \in Seq(Row)
<1>1. Rows(f, first, first + n - 1, enc, id)
        = [i \in 1..n |-> [gen |-> f.gen, line |-> first + i - 1, enc |-> enc,
                           id |-> id + i - 1]]
  BY DEF Rows
<1>2. \A i \in 1..n : [gen |-> f.gen, line |-> first + i - 1, enc |-> enc,
                       id |-> id + i - 1] \in Row
  BY DEF Row, FileType
<1>3. [i \in 1..n |-> [gen |-> f.gen, line |-> first + i - 1, enc |-> enc,
                      id |-> id + i - 1]] \in [1..n -> Row]
  BY <1>2
<1>4. [1..n -> Row] \in {[1..k -> Row] : k \in Nat}
  OBVIOUS
<1>5. [1..n -> Row] \subseteq Seq(Row)
  BY <1>4, SeqDef, Zenon
<1> QED BY <1>1, <1>3, <1>5

\* A whole-file read yields a checkpoint (snapshot_bytes).
LEMMA SnapshotType ==
  ASSUME NEW f \in FileType, NEW next_id \in Nat, NEW force \in BOOLEAN,
         NEW identity \in Nat
  PROVE  snapshot_bytes(f, next_id, force, identity) \in Checkpoint
<1>1. Len(f.data) \in Nat /\ f.bom \in BOOLEAN
  BY DEF FileType
<1>2. SnapshotEncoding(f, force) \in Encoding
  BY DEF SnapshotEncoding, Resolved, Encoding
<1>3. Rows(f, 1, Len(f.data), SnapshotEncoding(f, force), next_id) \in Seq(Row)
  <2>1. Len(f.data) = 1 + Len(f.data) - 1
    BY <1>1
  <2> QED BY <1>1, <1>2, <2>1, RowsType
<1> QED BY <1>1, <1>2, <1>3 DEF snapshot_bytes, Checkpoint

\* The bounded read returns that many units, and at least none (AppendUnits).
LEMMA AppendUnitsType ==
  ASSUME NEW ck \in Checkpoint, NEW f \in FileType, ck.raw_offset <= Len(f.data)
  PROVE  /\ AppendUnits(ck, f) \in Seq(Unit)
         /\ Len(AppendUnits(ck, f)) \in Nat
<1>1. f.data \in Seq(Unit) /\ ck.raw_offset \in Nat
  BY DEF FileType, Checkpoint
<1> DEFINE last == IF Len(f.data) < ck.raw_offset + Chunk THEN Len(f.data)
                   ELSE ck.raw_offset + Chunk
<1>2. /\ ck.raw_offset + 1 \in 1..Len(f.data) + 1
      /\ last \in ck.raw_offset..Len(f.data)
  BY <1>1, ChunkAssumption
<1>3. /\ SubSeq(f.data, ck.raw_offset + 1, last) \in Seq(Unit)
      /\ Len(SubSeq(f.data, ck.raw_offset + 1, last))
           = IF ck.raw_offset + 1 <= last THEN last - (ck.raw_offset + 1) + 1 ELSE 0
  <2> HIDE DEF last
  <2> QED BY <1>1, <1>2, SubSeqProperties
<1>4. Len(SubSeq(f.data, ck.raw_offset + 1, last)) \in Nat
  BY <1>3, LenProperties
<1> QED BY <1>3, <1>4 DEF AppendUnits

\* A gap keeps the request's checkpoint (GapOutcome).
LEMMA GapType ==
  ASSUME NEW req \in Worker, NEW pending \in Transition, NEW reason \in Gap,
         NEW saw \in BOOLEAN
  PROVE  GapOutcome(req, pending, reason, saw) \in Outcome
<1>1. req.checkpoint \in Checkpoint
  BY DEF Worker
<1> QED BY <1>1 DEF GapOutcome, Outcome, Decoding

\* The append read yields an outcome (AppendOutcome).
LEMMA AppendType ==
  ASSUME NEW ck \in Checkpoint, NEW f \in FileType, ck.raw_offset <= Len(f.data)
  PROVE  AppendOutcome(ck, f) \in Outcome
<1> DEFINE units == AppendUnits(ck, f)
           enc == Resolved(ck.enc, units)
           rows == Rows(f, ck.raw_offset + 1, ck.raw_offset + Len(units), enc, ck.next_id)
<1>1. units \in Seq(Unit) /\ Len(units) \in Nat
  BY AppendUnitsType
<1>2. /\ ck.raw_offset \in Nat /\ ck.next_id \in Nat /\ ck.enc \in Encoding
      /\ ck.explicit_bom \in BOOLEAN /\ ck.rows \in Seq(Row) /\ ck.identity \in Nat
      /\ f.bom \in BOOLEAN
  BY DEF Checkpoint, FileType
<1>3. enc \in Encoding /\ Explicit(ck, f, units) \in BOOLEAN
  BY <1>2 DEF Resolved, Encoding, Explicit
<1>4. rows \in Seq(Row)
  <2>1. ck.raw_offset + Len(units) = (ck.raw_offset + 1) + Len(units) - 1
    <3> HIDE DEF units
    <3>1. \A r, k \in Nat : r + k = (r + 1) + k - 1
      OBVIOUS
    <3> QED BY <1>1, <1>2, <3>1
  <2>2. ck.raw_offset + 1 \in Nat
    BY <1>2
  <2>3. \A e \in Encoding, k \in Nat :
          Rows(f, ck.raw_offset + 1, (ck.raw_offset + 1) + k - 1, e, ck.next_id) \in Seq(Row)
    BY <1>2, <2>2, RowsType
  <2> HIDE DEF enc, units
  <2> QED BY <1>1, <1>3, <2>1, <2>3
<1>5. ck.rows \o rows \in Seq(Row)
  BY <1>2, <1>4
<1> DEFINE next == [raw_offset |-> ck.raw_offset + Len(units), enc |-> enc,
                    explicit_bom |-> Explicit(ck, f, units),
                    next_id |-> ck.next_id + Len(units),
                    rows |-> ck.rows \o rows, identity |-> ck.identity]
<1>6. next \in Checkpoint
  <2> HIDE DEF enc, units, rows
  <2> QED BY <1>1, <1>2, <1>3, <1>5 DEF Checkpoint
<1>7. AppendOutcome(ck, f) =
        [install |-> TRUE, checkpoint |-> next, pending |-> "none",
         entries |-> rows, reset |-> FALSE, changed |-> units # <<>>,
         decoding |-> "ready", saw |-> FALSE]
  BY DEF AppendOutcome
<1> QED
  <2> HIDE DEF enc, units, rows, next
  <2> QED BY <1>4, <1>6, <1>7 DEF Outcome, Transition, Decoding

\* The whole-file read yields an outcome (the second half of read_opened).
LEMMA ResetType ==
  ASSUME NEW req \in Worker, NEW f \in FileType, NEW identity \in Nat,
         NEW pending \in Transition, NEW fault \in Fault, NEW saw \in BOOLEAN
  PROVE  ResetOutcome(req, f, identity, pending, fault, saw) \in Outcome
<1> DEFINE force == pending = "windows1252"
           ck == snapshot_bytes(f, req.checkpoint.next_id, force, identity)
<1>1. req.checkpoint.next_id \in Nat
  BY DEF Worker, Checkpoint
<1>2. ck \in Checkpoint
  BY <1>1, SnapshotType
<1>3. ck.rows \in Seq(Row)
  BY <1>2 DEF Checkpoint
<1>4. [install |-> TRUE, checkpoint |-> ck, pending |-> "none",
       entries |-> ck.rows, reset |-> TRUE, changed |-> TRUE,
       decoding |-> "ready", saw |-> saw] \in Outcome
  <2> HIDE DEF ck
  <2> QED BY <1>2, <1>3 DEF Outcome, Transition, Decoding
<1>5. \A reason \in Gap : GapOutcome(req, pending, reason, saw) \in Outcome
  BY GapType
<1>6. \/ ResetOutcome(req, f, identity, pending, fault, saw) =
           [install |-> TRUE, checkpoint |-> ck, pending |-> "none",
            entries |-> ck.rows, reset |-> TRUE, changed |-> TRUE,
            decoding |-> "ready", saw |-> saw]
      \/ \E reason \in Gap : ResetOutcome(req, f, identity, pending, fault, saw)
                               = GapOutcome(req, pending, reason, saw)
  BY DEF ResetOutcome, Gap
<1> QED BY <1>4, <1>5, <1>6

\* Every read, failed or not, yields an outcome (read_candidate).
LEMMA ReadType ==
  ASSUME NEW req \in Worker, NEW f \in FileType, NEW identity \in Nat,
         NEW fault \in Fault
  PROVE  read_candidate(req, f, identity, fault) \in Outcome
<1> DEFINE ck == req.checkpoint
           saw == NewGeneration(ck, f, identity)
           pending == IF saw THEN "generation" ELSE req.pending
           out == read_opened(req, f, identity, pending, fault, saw)
<1>1. ck \in Checkpoint /\ req.pending \in Transition
  BY DEF Worker
<1>2. ck.raw_offset \in Nat /\ Len(f.data) \in Nat
  BY <1>1 DEF Checkpoint, FileType
<1>3. saw \in BOOLEAN
  BY DEF NewGeneration, identities_differ
<1>4. pending \in Transition
  BY <1>1 DEF Transition
<1>5. pending = "none" => ck.raw_offset <= Len(f.data)
  BY <1>2 DEF NewGeneration
<1>6. \A reason \in Gap : GapOutcome(req, pending, reason, saw) \in Outcome
  <2> HIDE DEF pending, saw
  <2> QED BY <1>3, <1>4, GapType
<1>7. \A p \in Transition : ResetOutcome(req, f, identity, p, fault, saw) \in Outcome
  <2> HIDE DEF saw
  <2> QED BY <1>3, ResetType
<1>8. pending = "none" => AppendOutcome(ck, f) \in Outcome
  <2> HIDE DEF pending, ck
  <2> QED BY <1>1, <1>5, AppendType
<1>9. out \in Outcome
  <2>1. "windows1252" \in Transition /\ "read_failed" \in Gap /\ "invalid_encoding" \in Gap
    BY DEF Transition, Gap
  <2>2. \/ out = ResetOutcome(req, f, identity, pending, fault, saw)
        \/ out = GapOutcome(req, pending, "read_failed", saw)
        \/ pending = "none" /\ out = AppendOutcome(ck, f)
        \/ out = GapOutcome(req, pending, "invalid_encoding", saw)
        \/ out = ResetOutcome(req, f, identity, "windows1252", fault, saw)
    <3>1. Explicit(ck, f, AppendUnits(ck, f)) \in BOOLEAN
      BY <1>1 DEF Explicit, Checkpoint, FileType
    <3> HIDE DEF pending, saw
    <3> QED BY <3>1 DEF read_opened
  <2> HIDE DEF pending, saw, out, ck
  <2> QED BY <1>4, <1>6, <1>7, <1>8, <2>1, <2>2
<1>10. GapOutcome(req, req.pending, "read_failed", FALSE) \in Outcome
  <2>1. "read_failed" \in Gap
    BY DEF Gap
  <2> QED BY <1>1, <2>1, GapType
<1> QED BY <1>9, <1>10 DEF read_candidate

----------------------------------------------------------------------------
(* The type invariant *)

\* A worker without a request has the worker type.
LEMMA IdleType ==
  /\ NoCheckpoint \in Checkpoint
  /\ NoOutcome \in Outcome
  /\ \A pc \in {"unborn", "loop", "exited"} : Idle(pc) \in Worker
<1>1. NoCheckpoint \in Checkpoint
  BY DEF NoCheckpoint, Checkpoint, Encoding, None
<1>2. NoOutcome \in Outcome
  BY <1>1 DEF NoOutcome, Outcome, Transition, Decoding
<1> QED BY <1>1, <1>2 DEF Idle, Worker, Transition

\* Clearing the requests keeps the worker type and every other field (the
\* owner's revision += 1).
LEMMA BumpType ==
  ASSUME NEW w \in [Token -> Worker]
  PROVE  /\ BumpRevision(w) \in [Token -> Worker]
         /\ \A t \in Token : /\ BumpRevision(w)[t].pc = w[t].pc
                             /\ BumpRevision(w)[t].fresh = FALSE
                             /\ BumpRevision(w)[t].checkpoint = w[t].checkpoint
                             /\ BumpRevision(w)[t].pending = w[t].pending
                             /\ BumpRevision(w)[t].outcome = w[t].outcome
BY DEF BumpRevision, Worker

\* What the platform reports of a file is an identity or nothing.
LEMMA IdentityType ==
  ASSUME NEW f \in FileType, NEW identity \in Identities(f)
  PROVE  identity \in Nat
BY DEF Identities, FileType, None

\* Each operation of the owner keeps its type (FirewallOwner::new, start, stop,
\* set_paused, commit).
LEMMA OwnerOperations ==
  /\ \A n \in 1..MaxSession, ck \in Checkpoint : NewOwner(n, ck) \in OwnerType
  /\ \A o \in OwnerType, t \in Token : start(o, t) \in OwnerType /\ stop(o, t) \in OwnerType
  /\ \A o \in OwnerType, b \in BOOLEAN : [o EXCEPT !.paused = b] \in OwnerType
  /\ \A o \in OwnerType, out \in Outcome : commit(o, out) \in OwnerType
<1>1. ASSUME NEW n \in 1..MaxSession, NEW ck \in Checkpoint
      PROVE  NewOwner(n, ck) \in OwnerType
  BY EpochAssumption DEF NewOwner, OwnerType, Transition, Decoding
<1>2. ASSUME NEW o \in OwnerType, NEW t \in Token
      PROVE  start(o, t) \in OwnerType /\ stop(o, t) \in OwnerType
  <2>1. t.epoch \in 0..MaxEpoch
    BY EpochAssumption DEF Token
  <2> QED BY <2>1 DEF OwnerType, start, stop
<1>3. ASSUME NEW o \in OwnerType, NEW b \in BOOLEAN
      PROVE  [o EXCEPT !.paused = b] \in OwnerType
  BY DEF OwnerType
<1>4. ASSUME NEW o \in OwnerType, NEW out \in Outcome
      PROVE  commit(o, out) \in OwnerType
  BY DEF OwnerType, Outcome, commit
<1> QED BY <1>1, <1>2, <1>3, <1>4

\* Each change another program makes keeps the type of the file.
LEMMA FileOperations ==
  ASSUME NEW f \in FileType
  PROVE  /\ \A u \in Unit : [f EXCEPT !.data = Append(@, u)] \in FileType
         /\ f.gen < MaxGen => [f EXCEPT !.gen = @ + 1, !.data = <<>>] \in FileType
         /\ f.gen < MaxGen => \A data \in Seq(Unit), bom \in BOOLEAN :
              [gen |-> f.gen + 1, identity |-> f.identity + 1, bom |-> bom, data |-> data]
                \in FileType
<1>1. /\ f.gen \in 1..MaxGen /\ MaxGen \in Nat /\ f.identity \in Nat \ {0}
      /\ f.bom \in BOOLEAN /\ f.data \in Seq(Unit)
  BY FileAssumption DEF FileType, None
<1>2. f.gen < MaxGen => f.gen + 1 \in 1..MaxGen
  BY <1>1
<1>3. f.identity + 1 \in Nat \ {0}
  BY <1>1
<1>4. \A u \in Unit : Append(f.data, u) \in Seq(Unit)
  BY <1>1
<1>5. \A u \in Unit : [f EXCEPT !.data = Append(@, u)] \in FileType
  BY <1>4 DEF FileType
<1>6. ASSUME f.gen < MaxGen
      PROVE  [f EXCEPT !.gen = @ + 1, !.data = <<>>] \in FileType
  <2>1. <<>> \in Seq(Unit)
    OBVIOUS
  <2> DEFINE g == f.gen + 1
  <2>2. g \in 1..MaxGen
    BY <1>2, <1>6
  <2> HIDE DEF g
  <2>3. [f EXCEPT !.gen = g, !.data = <<>>] \in FileType
    BY <2>1, <2>2 DEF FileType
  <2> QED BY <2>3 DEF g
<1>7. ASSUME f.gen < MaxGen, NEW data \in Seq(Unit), NEW bom \in BOOLEAN
      PROVE  [gen |-> f.gen + 1, identity |-> f.identity + 1, bom |-> bom, data |-> data]
               \in FileType
  BY <1>2, <1>3, <1>7 DEF FileType, None
<1> QED BY <1>5, <1>6, <1>7

\* The contents another program may write are sequences of units.
LEMMA ContentsType == Contents \subseteq Seq(Unit)
<1> SUFFICES ASSUME NEW n \in 0..MaxLen, NEW d \in [1..n -> Writers \cap Unit]
             PROVE  d \in Seq(Unit)
  BY DEF Contents
<1>1. n \in Nat
  BY FileAssumption
<1>2. d \in [1..n -> Unit]
  OBVIOUS
<1>3. [1..n -> Unit] \in {[1..k -> Unit] : k \in Nat}
  BY <1>1
<1>4. [1..n -> Unit] \subseteq Seq(Unit)
  BY <1>3, SeqDef, Zenon
<1> QED BY <1>2, <1>4

\* The initial state has the right types.
LEMMA InitType == Init => TypeOK
<1> SUFFICES ASSUME Init PROVE TypeOK
  OBVIOUS
<1>1. PICK data \in Contents, bom \in Boms :
        file = [gen |-> 1, identity |-> 1, bom |-> bom, data |-> data]
  BY DEF Init
<1>2. file \in FileType
  <2>1. 1 \in 1..MaxGen
    BY FileAssumption
  <2>2. data \in Seq(Unit) /\ bom \in BOOLEAN
    BY ContentsType DEF Boms
  <2> QED BY <1>1, <2>1, <2>2 DEF FileType, None
<1>3. PICK identity \in Identities(file) :
        owner = NewOwner(1, snapshot_bytes(file, 0, FALSE, identity))
  BY DEF Init
<1>4. owner \in OwnerType
  <2>1. snapshot_bytes(file, 0, FALSE, identity) \in Checkpoint
    BY <1>2, IdentityType, SnapshotType
  <2>2. 1 \in 1..MaxSession
    BY SessionAssumption
  <2> QED BY <1>3, <2>1, <2>2, OwnerOperations
<1>5. worker \in [Token -> Worker]
  BY IdleType DEF Init
<1>6. emitted \in Seq(Event) /\ faults \in 0..MaxFault /\ unsent \subseteq Event
  BY FaultAssumption DEF Init
<1> QED BY <1>2, <1>4, <1>5, <1>6 DEF Init, TypeOK

\* A payload is emitted, or kept as one that could not be (start_session).
LEMMA PublishType ==
  ASSUME NEW event \in Event, unsent \subseteq Event, faults \in 0..MaxFault,
         publish(event) \/ (emitted' = <<>> /\ UNCHANGED <<faults, unsent>>)
  PROVE  emitted' \in Seq(Event) /\ faults' \in 0..MaxFault /\ unsent' \subseteq Event
<1>1. <<>> \in Seq(Event) /\ <<event>> \in Seq(Event)
  OBVIOUS
<1>2. emitted' = <<>> \/ emitted' = <<event>>
  BY DEF publish
<1>3. faults' \in 0..MaxFault
  BY FaultAssumption DEF publish
<1>4. unsent' \subseteq Event
  BY DEF publish
<1> QED BY <1>1, <1>2, <1>3, <1>4

\* Every step keeps the types: one case per action.
LEMMA NextType == TypeOK /\ [Next]_backend => TypeOK'
<1> SUFFICES ASSUME TypeOK, [Next]_backend PROVE TypeOK'
  OBVIOUS
<1>0. /\ file \in FileType /\ owner \in OwnerType /\ opening \subseteq Checkpoint
      /\ tail_session \subseteq Token /\ stopped \subseteq Token
      /\ worker \in [Token -> Worker] /\ emitted \in Seq(Event)
      /\ faults \in 0..MaxFault /\ MaxFault \in Nat /\ owed \in BOOLEAN
      /\ unsent \subseteq Event /\ <<>> \in Seq(Event)
  BY FaultAssumption DEF TypeOK
<1>1. ASSUME NEW u \in Unit, Write(u) PROVE TypeOK'
  BY <1>0, <1>1, FileOperations DEF Write, TypeOK
<1>2. ASSUME NEW data \in Contents, NEW bom \in Boms, Replace(data, bom) PROVE TypeOK'
  <2>1. data \in Seq(Unit) /\ bom \in BOOLEAN
    BY ContentsType DEF Boms
  <2>2. file' \in FileType
    BY <1>0, <1>2, <2>1, FileOperations DEF Replace
  <2> QED BY <1>0, <1>2, <2>2 DEF Replace, TypeOK
<1>3. ASSUME Truncate PROVE TypeOK'
  BY <1>0, <1>3, FileOperations DEF Truncate, TypeOK
<1>4. ASSUME open_log_file PROVE TypeOK'
  <2>1. PICK ck \in opening : owner' = NewOwner(owner.session + 1, ck)
    BY <1>4 DEF open_log_file
  <2>2. owner.session + 1 \in 1..MaxSession
    BY <1>0, <1>4, SessionAssumption DEF open_log_file, OwnerType
  <2>3. owner' \in OwnerType
    BY <1>0, <2>1, <2>2, OwnerOperations
  <2> QED BY <1>0, <1>4, <2>3, BumpType DEF open_log_file, TypeOK
<1>5. ASSUME parse_file PROVE TypeOK'
  <2>1. PICK identity \in Identities(file) :
          opening' = {snapshot_bytes(file, 0, FALSE, identity)}
    BY <1>5 DEF parse_file
  <2>2. snapshot_bytes(file, 0, FALSE, identity) \in Checkpoint
    BY <1>0, IdentityType, SnapshotType
  <2> QED BY <1>0, <1>5, <2>1, <2>2 DEF parse_file, TypeOK
<1>6. ASSUME open_log_file_fails PROVE TypeOK'
  <2>1. faults' = faults \/ (faults > 0 /\ faults' = faults - 1)
    BY <1>6 DEF open_log_file_fails
  <2>2. faults' \in 0..MaxFault
    BY <1>0, <2>1
  <2> QED BY <1>0, <1>6, <2>2 DEF open_log_file_fails, TypeOK
<1>7. ASSUME NEW t \in Token, admit_tail_start(t) PROVE TypeOK'
  <2>1. owner' \in OwnerType
    BY <1>0, <1>7, OwnerOperations DEF admit_tail_start
  <2>2. worker' \in [Token -> Worker]
    BY <1>0, <1>7, BumpType, IdleType DEF admit_tail_start
  <2> QED BY <1>0, <1>7, <2>1, <2>2 DEF admit_tail_start, TypeOK
<1>8. ASSUME NEW t \in Token, admit_tail_start_fails(t) PROVE TypeOK'
  <2>1. owner' \in OwnerType
    BY <1>0, <1>8, OwnerOperations DEF admit_tail_start_fails
  <2>2. faults' \in 0..MaxFault
    BY <1>0, <1>8 DEF admit_tail_start_fails
  <2> QED BY <1>0, <1>8, <2>1, <2>2, BumpType DEF admit_tail_start_fails, TypeOK
<1>9. ASSUME NEW t \in Token, stop_tail(t) PROVE TypeOK'
  <2>1. owner' \in OwnerType
    BY <1>0, <1>9, OwnerOperations DEF stop_tail
  <2> QED BY <1>0, <1>9, <2>1, BumpType DEF stop_tail, TypeOK
<1>10. ASSUME NEW t \in Token, NEW paused \in BOOLEAN, set_paused(t, paused) PROVE TypeOK'
  <2>1. owner' \in OwnerType
    BY <1>0, <1>10, OwnerOperations DEF set_paused
  <2> QED BY <1>0, <1>10, <2>1, BumpType DEF set_paused, TypeOK
<1>11. ASSUME NEW t \in Token, worker_exit(t) PROVE TypeOK'
  BY <1>0, <1>11, IdleType DEF worker_exit, TypeOK
<1>12. ASSUME NEW t \in Token, worker_request(t) PROVE TypeOK'
  <2>1. [pc |-> "read", fresh |-> TRUE, checkpoint |-> owner.checkpoint,
         pending |-> owner.pending, outcome |-> NoOutcome] \in Worker
    BY <1>0, IdleType DEF Worker, OwnerType
  <2> QED BY <1>0, <1>12, <2>1 DEF worker_request, TypeOK
<1>13. ASSUME NEW t \in Token, NEW fault \in Fault, worker_read(t, fault) PROVE TypeOK'
  <2>1. PICK identity \in Identities(file) :
          worker' = [worker EXCEPT ![t].pc = "commit",
                       ![t].outcome = read_candidate(worker[t], file, identity, fault)]
    BY <1>13 DEF worker_read
  <2>2. read_candidate(worker[t], file, identity, fault) \in Outcome
    BY <1>0, IdentityType, ReadType
  <2>3. worker' \in [Token -> Worker]
    BY <1>0, <2>1, <2>2 DEF Worker
  <2>4. faults' \in 0..MaxFault
    BY <1>0, <1>13 DEF worker_read
  <2> QED BY <1>0, <1>13, <2>3, <2>4 DEF worker_read, TypeOK
<1>14. ASSUME NEW t \in Token, worker_commit(t) PROVE TypeOK'
  <2>1. worker[t].outcome \in Outcome
    BY <1>0 DEF Worker
  <2>2. CASE Accepts(owner, worker[t], t)
    <3>1. owner' \in OwnerType
      BY <1>0, <1>14, <2>1, <2>2, OwnerOperations DEF worker_commit
    <3>2. worker' \in [Token -> Worker]
      BY <1>0, <1>14, <2>2, BumpType, IdleType DEF worker_commit
    <3> DEFINE event == [token |-> t, entries |-> worker[t].outcome.entries,
                         reset |-> worker[t].outcome.reset]
    <3>3. event \in Event
      BY <2>1 DEF Event, Outcome
    <3>4. publish(event) \/ (emitted' = <<>> /\ UNCHANGED <<faults, unsent>>)
      BY <1>14, <2>2 DEF worker_commit
    <3> HIDE DEF event
    <3>5. emitted' \in Seq(Event) /\ faults' \in 0..MaxFault /\ unsent' \subseteq Event
      BY <1>0, <3>3, <3>4, PublishType
    <3>6. owed' \in BOOLEAN
      BY <1>14, <2>2 DEF worker_commit
    <3> QED BY <1>0, <1>14, <3>1, <3>2, <3>5, <3>6 DEF worker_commit, TypeOK
  <2>3. CASE ~Accepts(owner, worker[t], t)
    BY <1>0, <1>14, <2>3, IdleType DEF worker_commit, TypeOK
  <2> QED BY <2>2, <2>3
<1>15. ASSUME UNCHANGED backend PROVE TypeOK'
  BY <1>0, <1>15 DEF backend, TypeOK
<1> QED
  BY <1>1, <1>2, <1>3, <1>4, <1>5, <1>6, <1>7, <1>8, <1>9, <1>10, <1>11, <1>12,
     <1>13, <1>14, <1>15
  DEF Next, FileStep, CommandStep, WorkerStep

\* The type invariant holds of every behaviour of the native side.
THEOREM TypeCorrect == Spec => []TypeOK
BY InitType, NextType, PTL DEF Spec

----------------------------------------------------------------------------
(* The inductive strengthenings *)

\* A request that is still fresh was taken from what is committed now.
FreshIsCommitted ==
  \A t \in Token :
    worker[t].fresh => /\ worker[t].checkpoint = owner.checkpoint
                       /\ worker[t].pending = owner.pending

\* Every registered or stopped worker was admitted by this or an earlier
\* session, at an epoch the owner has reached: the next one it admits is new.
Admitted(o, t) ==
  t.session < o.session \/ (t.session = o.session /\ t.epoch <= o.epoch)
SessionsAreAdmitted == \A t \in tail_session \cup stopped : Admitted(owner, t)

\* Only a source that was recognised as a firewall log is ever watched.
ActiveIsFirewall == owner.active => owner.firewall

\* What a read that saw, or had been told of, the end of the generation may
\* conclude: the reset, or a gap that still owes it.
Settles(out) == out.reset \/ (~out.install /\ out.pending = "generation")
OwedOutcome(w) == (w.pending = "generation" \/ w.outcome.saw) => Settles(w.outcome)
OwedIsPending ==
  /\ owed => owner.pending = "generation"
  /\ \A t \in Token : worker[t].pc = "commit" => OwedOutcome(worker[t])

----------------------------------------------------------------------------
(* The commit fence *)

\* Every step keeps fresh requests exact: one case per action.
LEMMA FenceStep == TypeOK /\ FreshIsCommitted /\ [Next]_backend => FreshIsCommitted'
<1> SUFFICES ASSUME TypeOK, FreshIsCommitted, [Next]_backend PROVE FreshIsCommitted'
  OBVIOUS
<1>0. worker \in [Token -> Worker]
  BY DEF TypeOK
<1>1. ASSUME UNCHANGED <<owner, worker>> PROVE FreshIsCommitted'
  BY <1>1 DEF FreshIsCommitted
<1>2. ASSUME NEW w \in [Token -> Worker], \A t \in Token : ~w[t].fresh, worker' = w
      PROVE  FreshIsCommitted'
  BY <1>2 DEF FreshIsCommitted
<1>3. ASSUME NEW t \in Token, NEW w \in Worker, worker' = [worker EXCEPT ![t] = w],
             w.fresh => w.checkpoint = owner.checkpoint /\ w.pending = owner.pending,
             UNCHANGED owner
      PROVE  FreshIsCommitted'
  BY <1>0, <1>3 DEF FreshIsCommitted
<1>4. ASSUME \E u \in Unit : Write(u) PROVE FreshIsCommitted'
  BY <1>1, <1>4 DEF Write
<1>5. ASSUME \E data \in Contents, bom \in Boms : Replace(data, bom) PROVE FreshIsCommitted'
  BY <1>1, <1>5 DEF Replace
<1>6. ASSUME Truncate PROVE FreshIsCommitted'
  BY <1>1, <1>6 DEF Truncate
<1>7. BumpRevision(worker) \in [Token -> Worker]
      /\ \A t \in Token : ~BumpRevision(worker)[t].fresh
  BY <1>0, BumpType
<1>8. \A t \in Token :
        /\ [BumpRevision(worker) EXCEPT ![t] = Idle("loop")] \in [Token -> Worker]
        /\ \A s \in Token : ~[BumpRevision(worker) EXCEPT ![t] = Idle("loop")][s].fresh
  <2>1. Idle("loop") \in Worker /\ ~Idle("loop").fresh
    BY IdleType DEF Idle
  <2> QED BY <1>7, <2>1
<1>9. ASSUME open_log_file PROVE FreshIsCommitted'
  BY <1>2, <1>7, <1>9 DEF open_log_file
<1>10. ASSUME parse_file PROVE FreshIsCommitted'
  BY <1>1, <1>10 DEF parse_file
<1>11. ASSUME open_log_file_fails PROVE FreshIsCommitted'
  BY <1>1, <1>11 DEF open_log_file_fails
<1>12. ASSUME NEW t \in Token, admit_tail_start(t) PROVE FreshIsCommitted'
  BY <1>2, <1>8, <1>12 DEF admit_tail_start
<1>13. ASSUME NEW t \in Token, admit_tail_start_fails(t) PROVE FreshIsCommitted'
  BY <1>2, <1>7, <1>13 DEF admit_tail_start_fails
<1>14. ASSUME NEW t \in Token, stop_tail(t) PROVE FreshIsCommitted'
  BY <1>2, <1>7, <1>14 DEF stop_tail
<1>15. ASSUME NEW t \in Token, NEW paused \in BOOLEAN, set_paused(t, paused)
       PROVE  FreshIsCommitted'
  BY <1>2, <1>7, <1>15 DEF set_paused
<1>16. ASSUME NEW t \in Token, worker_exit(t) PROVE FreshIsCommitted'
  <2>1. Idle("exited") \in Worker /\ ~Idle("exited").fresh
    BY IdleType DEF Idle
  <2> QED BY <1>3, <1>16, <2>1 DEF worker_exit
<1>17. ASSUME NEW t \in Token, worker_request(t) PROVE FreshIsCommitted'
  BY <1>0, <1>17 DEF worker_request, FreshIsCommitted
<1>18. ASSUME NEW t \in Token, NEW fault \in Fault, worker_read(t, fault)
       PROVE  FreshIsCommitted'
  <2>1. /\ owner' = owner
        /\ \A s \in Token : /\ worker'[s].fresh = worker[s].fresh
                            /\ worker'[s].checkpoint = worker[s].checkpoint
                            /\ worker'[s].pending = worker[s].pending
    BY <1>0, <1>18 DEF worker_read, Worker
  <2> QED BY <2>1 DEF FreshIsCommitted
<1>19. ASSUME NEW t \in Token, worker_commit(t) PROVE FreshIsCommitted'
  <2>1. CASE Accepts(owner, worker[t], t)
    BY <1>2, <1>8, <1>19, <2>1 DEF worker_commit
  <2>2. CASE ~Accepts(owner, worker[t], t)
    <3>1. Idle("loop") \in Worker /\ ~Idle("loop").fresh
      BY IdleType DEF Idle
    <3> QED BY <1>3, <1>19, <2>2, <3>1 DEF worker_commit
  <2> QED BY <2>1, <2>2
<1>20. ASSUME UNCHANGED backend PROVE FreshIsCommitted'
  BY <1>1, <1>20 DEF backend
<1> QED
  BY <1>4, <1>5, <1>6, <1>9, <1>10, <1>11, <1>12, <1>13, <1>14, <1>15, <1>16, <1>17,
     <1>18, <1>19, <1>20
  DEF Next, FileStep, CommandStep, WorkerStep

\* No read is ever applied on top of another read than the one it was computed
\* from (FirewallOwner::request, commit).
THEOREM FenceHolds == Spec => []FenceIsExact
<1>1. Init => FreshIsCommitted
  BY DEF Init, FreshIsCommitted, Idle
<1>2. FreshIsCommitted => FenceIsExact
  BY DEF FreshIsCommitted, FenceIsExact, Accepts
<1> QED BY <1>1, <1>2, FenceStep, TypeCorrect, PTL DEF Spec

----------------------------------------------------------------------------
(* The reader of an active watch *)

\* The conjuncts that make ActiveWatchIsTailed inductive come with it.
TailedInv == SessionsAreAdmitted /\ ActiveIsFirewall /\ ActiveWatchIsTailed

\* Every step keeps the reader of an active watch: one case per action.
LEMMA TailedStep == TypeOK /\ TailedInv /\ [Next]_backend => TailedInv'
<1> SUFFICES ASSUME TypeOK, TailedInv, [Next]_backend PROVE TailedInv'
  OBVIOUS
<1>0. /\ worker \in [Token -> Worker]
      /\ owner \in OwnerType
      /\ tail_session \subseteq Token /\ stopped \subseteq Token
      /\ owner.session \in Nat /\ owner.epoch \in Nat
      /\ \A t \in Token : t.session \in Nat /\ t.epoch \in Nat
  BY DEF TypeOK, OwnerType, Token
<1>1. ASSUME UNCHANGED <<tail_session, stopped>>,
             owner'.session = owner.session, owner'.epoch = owner.epoch,
             owner'.active = owner.active, owner'.firewall = owner.firewall,
             \A t \in Token : worker'[t].pc \in {"loop", "read", "commit"} \cup {worker[t].pc}
      PROVE  TailedInv'
  <2>1. SessionsAreAdmitted'
    BY <1>1 DEF TailedInv, SessionsAreAdmitted, Admitted
  <2>2. ActiveWatchIsTailed'
    <3> SUFFICES ASSUME owner.active
                 PROVE  /\ tail_session = {CurrentToken}
                        /\ CurrentToken \notin stopped
                        /\ worker'[CurrentToken].pc \in {"loop", "read", "commit"}
      BY <1>1 DEF ActiveWatchIsTailed, CurrentToken
    <3>1. /\ tail_session = {CurrentToken}
          /\ CurrentToken \notin stopped
          /\ worker[CurrentToken].pc \in {"loop", "read", "commit"}
      BY DEF TailedInv, ActiveWatchIsTailed
    <3>2. CurrentToken \in Token
      BY <1>0, <3>1
    <3> QED BY <1>1, <3>1, <3>2
  <2>3. ActiveIsFirewall'
    BY <1>1 DEF TailedInv, ActiveIsFirewall
  <2> QED BY <2>1, <2>2, <2>3 DEF TailedInv
<1>2. ASSUME SessionsAreAdmitted', ~owner'.active PROVE TailedInv'
  BY <1>2 DEF TailedInv, ActiveIsFirewall, ActiveWatchIsTailed
<1>3. ASSUME \E u \in Unit : Write(u) PROVE TailedInv'
  BY <1>1, <1>3 DEF Write
<1>4. ASSUME \E data \in Contents, bom \in Boms : Replace(data, bom) PROVE TailedInv'
  BY <1>1, <1>4 DEF Replace
<1>5. ASSUME Truncate PROVE TailedInv'
  BY <1>1, <1>5 DEF Truncate
<1>6. ASSUME open_log_file PROVE TailedInv'
  <2>1. owner'.session = owner.session + 1 /\ ~owner'.active
    BY <1>6 DEF open_log_file, NewOwner
  <2>2. UNCHANGED <<tail_session, stopped>>
    BY <1>6 DEF open_log_file
  <2>3. SessionsAreAdmitted'
    BY <1>0, <2>1, <2>2 DEF TailedInv, SessionsAreAdmitted, Admitted
  <2> QED BY <1>2, <2>1, <2>3
<1>7. ASSUME parse_file PROVE TailedInv'
  BY <1>1, <1>7 DEF parse_file
<1>8. ASSUME open_log_file_fails PROVE TailedInv'
  BY <1>1, <1>8 DEF open_log_file_fails
<1>9. ASSUME NEW t \in Token, admit_tail_start(t) PROVE TailedInv'
  <2>1. /\ t.session = owner.session /\ t.epoch > owner.epoch
        /\ tail_session' = {t} /\ stopped' = stopped \cup tail_session
    BY <1>9 DEF admit_tail_start, Starts, same_session
  <2>2. owner'.session = owner.session /\ owner'.epoch = t.epoch
    BY <1>0, <1>9 DEF admit_tail_start, start, OwnerType
  <2>3. SessionsAreAdmitted'
    BY <1>0, <2>1, <2>2 DEF TailedInv, SessionsAreAdmitted, Admitted
  <2>4. CurrentToken' = t
    BY <2>1, <2>2 DEF CurrentToken, Token
  <2>5. t \notin stopped'
    BY <1>0, <2>1 DEF TailedInv, SessionsAreAdmitted, Admitted
  <2>6. worker'[t].pc = "loop"
    BY <1>0, <1>9, BumpType, ZenonT(30) DEF admit_tail_start, Idle
  <2>7. ActiveIsFirewall'
    BY <1>0, <1>9 DEF admit_tail_start, Starts, same_session, start, OwnerType, ActiveIsFirewall
  <2> QED BY <2>1, <2>3, <2>4, <2>5, <2>6, <2>7 DEF TailedInv, ActiveWatchIsTailed
<1>10. ASSUME NEW t \in Token, admit_tail_start_fails(t) PROVE TailedInv'
  <2>1. /\ t.session = owner.session /\ t.epoch > owner.epoch
        /\ UNCHANGED <<tail_session, stopped>>
    BY <1>10 DEF admit_tail_start_fails, Starts, same_session
  <2>2. owner'.session = owner.session /\ owner'.epoch = t.epoch /\ ~owner'.active
    BY <1>0, <1>10 DEF admit_tail_start_fails, start, stop, OwnerType
  <2>3. SessionsAreAdmitted'
    BY <1>0, <2>1, <2>2 DEF TailedInv, SessionsAreAdmitted, Admitted
  <2> QED BY <1>2, <2>2, <2>3
<1>11. ASSUME NEW t \in Token, stop_tail(t) PROVE TailedInv'
  <2>1. /\ t.session = owner.session /\ t.epoch >= owner.epoch
        /\ tail_session' = {} /\ stopped' = stopped \cup tail_session
    BY <1>11 DEF stop_tail, Stops, same_session
  <2>2. owner'.session = owner.session /\ owner'.epoch = t.epoch /\ ~owner'.active
    BY <1>0, <1>11 DEF stop_tail, stop, OwnerType
  <2>3. SessionsAreAdmitted'
    BY <1>0, <2>1, <2>2 DEF TailedInv, SessionsAreAdmitted, Admitted
  <2> QED BY <1>2, <2>2, <2>3
<1>12. ASSUME NEW t \in Token, NEW paused \in BOOLEAN, set_paused(t, paused) PROVE TailedInv'
  <2>1. /\ owner'.session = owner.session /\ owner'.epoch = owner.epoch
        /\ owner'.active = owner.active /\ owner'.firewall = owner.firewall
    BY <1>0, <1>12 DEF set_paused, OwnerType
  <2>2. \A s \in Token : worker'[s].pc = worker[s].pc
    BY <1>0, <1>12, BumpType DEF set_paused
  <2> QED BY <1>1, <1>12, <2>1, <2>2 DEF set_paused
<1>13. ASSUME NEW t \in Token, worker_exit(t) PROVE TailedInv'
  <2>1. CASE owner.active /\ t = CurrentToken
    \* The current worker cannot leave: its stop flag is clear.
    <3>1. t \notin stopped
      BY <2>1 DEF TailedInv, ActiveWatchIsTailed
    <3>2. is_current(owner, t)
      BY <1>0, <2>1 DEF TailedInv, ActiveIsFirewall, is_current, same_session, CurrentToken, Token
    <3> QED BY <1>13, <3>1, <3>2 DEF worker_exit
  <2>2. CASE ~(owner.active /\ t = CurrentToken)
    <3>1. SessionsAreAdmitted'
      BY <1>13 DEF worker_exit, TailedInv, SessionsAreAdmitted
    <3>2. ActiveIsFirewall'
      BY <1>13 DEF worker_exit, TailedInv, ActiveIsFirewall
    <3>3. ActiveWatchIsTailed'
      <4>1. owner.active => worker'[CurrentToken] = worker[CurrentToken]
        BY <1>0, <1>13, <2>2 DEF worker_exit
      <4> QED BY <1>13, <4>1 DEF worker_exit, TailedInv, ActiveWatchIsTailed, CurrentToken
    <3> QED BY <3>1, <3>2, <3>3 DEF TailedInv
  <2> QED BY <2>1, <2>2
<1>14. ASSUME NEW t \in Token, worker_request(t) PROVE TailedInv'
  BY <1>0, <1>1, <1>14 DEF worker_request
<1>15. ASSUME NEW t \in Token, NEW fault \in Fault, worker_read(t, fault) PROVE TailedInv'
  <2>1. \A s \in Token : worker'[s].pc \in {"commit", worker[s].pc}
    BY <1>0, <1>15 DEF worker_read, Worker
  <2> QED BY <1>1, <1>15, <2>1 DEF worker_read
<1>16. ASSUME NEW t \in Token, worker_commit(t) PROVE TailedInv'
  <2>1. \A s \in Token : worker'[s].pc \in {"loop", worker[s].pc}
    <3>1. CASE Accepts(owner, worker[t], t)
      <4>1. worker' = [BumpRevision(worker) EXCEPT ![t] = Idle("loop")]
        BY <1>16, <3>1 DEF worker_commit
      <4>2. Idle("loop").pc = "loop"
        BY DEF Idle
      <4>3. /\ BumpRevision(worker) \in [Token -> Worker]
            /\ \A s \in Token : BumpRevision(worker)[s].pc = worker[s].pc
        BY <1>0, BumpType
      <4> QED BY <4>1, <4>2, <4>3
    <3>2. CASE ~Accepts(owner, worker[t], t)
      BY <1>0, <1>16, <3>2 DEF worker_commit, Idle
    <3> QED BY <3>1, <3>2
  <2>2. /\ owner'.session = owner.session /\ owner'.epoch = owner.epoch
        /\ owner'.active = owner.active /\ owner'.firewall = owner.firewall
    BY <1>0, <1>16 DEF worker_commit, commit, OwnerType
  <2> QED BY <1>1, <1>16, <2>1, <2>2 DEF worker_commit
<1>17. ASSUME UNCHANGED backend PROVE TailedInv'
  BY <1>1, <1>17 DEF backend
<1> QED
  BY <1>3, <1>4, <1>5, <1>6, <1>7, <1>8, <1>9, <1>10, <1>11, <1>12, <1>13, <1>14,
     <1>15, <1>16, <1>17
  DEF Next, FileStep, CommandStep, WorkerStep

\* An active watch always has its reader (admit_tail_start, control_tail,
\* start_session).
THEOREM ActiveWatchTailed == Spec => []ActiveWatchIsTailed
<1>1. Init => TailedInv
  BY DEF Init, TailedInv, SessionsAreAdmitted, ActiveIsFirewall, ActiveWatchIsTailed, NewOwner
<1>2. TailedInv => ActiveWatchIsTailed
  BY DEF TailedInv
<1> QED BY <1>1, <1>2, TailedStep, TypeCorrect, PTL DEF Spec

----------------------------------------------------------------------------
(* Revocation *)

\* No step brings a revoked watch back or publishes for it.
LEMMA RevocationStep ==
  TypeOK /\ Next =>
    \A t \in Token : Revoked(owner, t) => Revoked(owner', t) /\ ~Published(t)
<1> SUFFICES ASSUME TypeOK, Next, NEW r \in Token, Revoked(owner, r)
             PROVE  Revoked(owner', r) /\ ~Published(r)
  OBVIOUS
<1>0. /\ owner \in OwnerType
      /\ owner.session \in Nat /\ owner.epoch \in Nat
      /\ \A t \in Token : t.session \in Nat /\ t.epoch \in Nat
  BY DEF TypeOK, OwnerType, Token
<1>1. ASSUME emitted' = <<>> PROVE ~Published(r)
  BY <1>1 DEF Published
<1>2. ASSUME owner'.session = owner.session, owner'.epoch = owner.epoch,
             owner'.active = owner.active
      PROVE  Revoked(owner', r)
  BY <1>2 DEF Revoked
<1>3. ASSUME FileStep PROVE Revoked(owner', r) /\ ~Published(r)
  BY <1>1, <1>2, <1>3 DEF FileStep, Write, Replace, Truncate
<1>4. ASSUME open_log_file PROVE Revoked(owner', r) /\ ~Published(r)
  <2>1. owner'.session = owner.session + 1 /\ emitted' = <<>>
    BY <1>4 DEF open_log_file, NewOwner
  <2> QED BY <1>0, <1>1, <2>1 DEF Revoked
<1>5. ASSUME parse_file \/ open_log_file_fails PROVE Revoked(owner', r) /\ ~Published(r)
  BY <1>1, <1>2, <1>5 DEF parse_file, open_log_file_fails
<1>6. ASSUME NEW t \in Token, admit_tail_start(t)
      PROVE  Revoked(owner', r) /\ ~Published(r)
  <2>1. t.epoch > owner.epoch /\ owner' = start(owner, t) /\ emitted' = <<>>
    BY <1>6 DEF admit_tail_start, Starts, same_session
  <2>2. owner'.session = owner.session /\ owner'.epoch = t.epoch
    BY <1>0, <2>1 DEF start, OwnerType
  <2> QED BY <1>0, <1>1, <2>1, <2>2 DEF Revoked
<1>7. ASSUME NEW t \in Token, admit_tail_start_fails(t)
      PROVE  Revoked(owner', r) /\ ~Published(r)
  <2>1. t.epoch > owner.epoch /\ owner' = stop(start(owner, t), t) /\ emitted' = <<>>
    BY <1>7 DEF admit_tail_start_fails, Starts, same_session
  <2>2. owner'.session = owner.session /\ owner'.epoch = t.epoch
    BY <1>0, <2>1 DEF start, stop, OwnerType
  <2> QED BY <1>0, <1>1, <2>1, <2>2 DEF Revoked
<1>8. ASSUME NEW t \in Token, stop_tail(t) PROVE Revoked(owner', r) /\ ~Published(r)
  <2>1. t.epoch >= owner.epoch /\ owner' = stop(owner, t) /\ emitted' = <<>>
    BY <1>8 DEF stop_tail, Stops, same_session
  <2>2. owner'.session = owner.session /\ owner'.epoch = t.epoch /\ ~owner'.active
    BY <1>0, <2>1 DEF stop, OwnerType
  <2> QED BY <1>0, <1>1, <2>1, <2>2 DEF Revoked
<1>9. ASSUME NEW t \in Token, NEW paused \in BOOLEAN, set_paused(t, paused)
      PROVE  Revoked(owner', r) /\ ~Published(r)
  <2>1. /\ owner'.session = owner.session /\ owner'.epoch = owner.epoch
        /\ owner'.active = owner.active /\ emitted' = <<>>
    BY <1>0, <1>9 DEF set_paused, OwnerType
  <2> QED BY <1>1, <1>2, <2>1
<1>10. ASSUME NEW t \in Token, worker_exit(t) PROVE Revoked(owner', r) /\ ~Published(r)
  BY <1>1, <1>2, <1>10 DEF worker_exit
<1>11. ASSUME NEW t \in Token, worker_request(t) PROVE Revoked(owner', r) /\ ~Published(r)
  BY <1>1, <1>2, <1>11 DEF worker_request
<1>12. ASSUME NEW t \in Token, NEW fault \in Fault, worker_read(t, fault)
       PROVE  Revoked(owner', r) /\ ~Published(r)
  BY <1>1, <1>2, <1>12 DEF worker_read
<1>13. ASSUME NEW t \in Token, worker_commit(t)
       PROVE  Revoked(owner', r) /\ ~Published(r)
  <2>1. CASE Accepts(owner, worker[t], t)
    <3>1. /\ owner'.session = owner.session /\ owner'.epoch = owner.epoch
          /\ owner'.active = owner.active
      BY <1>0, <1>13, <2>1 DEF worker_commit, commit, OwnerType
    <3>2. \A i \in DOMAIN emitted' : emitted'[i].token = t
      BY <1>13, <2>1 DEF worker_commit, publish
    <3>3. t # r
      BY <1>0, <2>1 DEF Accepts, is_current, same_session, Revoked
    <3> QED BY <1>2, <3>1, <3>2, <3>3 DEF Published
  <2>2. CASE ~Accepts(owner, worker[t], t)
    BY <1>1, <1>2, <1>13, <2>2 DEF worker_commit
  <2> QED BY <2>1, <2>2
<1> QED
  BY <1>3, <1>4, <1>5, <1>6, <1>7, <1>8, <1>9, <1>10, <1>11, <1>12, <1>13
  DEF Next, CommandStep, WorkerStep

\* A watch that was stopped, superseded or whose source was reopened never
\* comes back and never publishes again (FirewallOwner::start, stop, commit).
THEOREM RevocationFinal == Spec => RevocationIsFinal
BY RevocationStep, TypeCorrect, PTL DEF Spec, RevocationIsFinal

----------------------------------------------------------------------------
(* The owed reset *)

\* A read that knows the generation has ended resets or goes on owing it.
LEMMA ReadSettles ==
  ASSUME NEW req \in Worker, NEW f, NEW identity, NEW fault,
         NEW out, out = read_candidate(req, f, identity, fault),
         req.pending = "generation" \/ out.saw
  PROVE  Settles(out)
<1> DEFINE saw == NewGeneration(req.checkpoint, f, identity)
           pending == IF saw THEN "generation" ELSE req.pending
<1>1. CASE fault = "open"
  <2>1. out = GapOutcome(req, req.pending, "read_failed", FALSE)
    BY <1>1 DEF read_candidate
  <2>2. ~out.install /\ out.pending = req.pending /\ ~out.saw
    BY <2>1 DEF GapOutcome
  <2> QED BY <2>2 DEF Settles
<1>2. CASE fault # "open" /\ pending = "generation"
  <2>1. out = ResetOutcome(req, f, identity, "generation", fault, saw)
    BY <1>2 DEF read_candidate, read_opened
  <2>2. out.reset \/ (~out.install /\ out.pending = "generation")
    BY <2>1 DEF ResetOutcome, GapOutcome
  <2> QED BY <2>2 DEF Settles
<1>3. CASE fault # "open" /\ pending # "generation"
  <2>1. ~saw /\ req.pending # "generation"
    BY <1>3
  <2>2. out = read_opened(req, f, identity, req.pending, fault, FALSE)
    <3>1. saw \in BOOLEAN
      BY DEF NewGeneration, identities_differ
    <3>2. out = read_opened(req, f, identity, pending, fault, saw)
      BY <1>3 DEF read_candidate
    <3>3. pending = req.pending
      BY <2>1
    <3>4. saw = FALSE
      BY <2>1, <3>1
    <3> HIDE DEF saw, pending
    <3> QED BY <3>2, <3>3, <3>4
  <2>3. ~out.saw
    BY <2>2 DEF read_opened, ResetOutcome, GapOutcome, AppendOutcome
  <2> QED BY <2>1, <2>3
<1> QED BY <1>1, <1>2, <1>3

\* Every step keeps an owed reset pending and changes the checkpoint only by it.
LEMMA OwedStep ==
  TypeOK /\ FreshIsCommitted /\ OwedIsPending /\ [Next]_backend
    => /\ OwedIsPending'
       /\ [owed /\ owner'.session = owner.session /\ owner'.checkpoint # owner.checkpoint
             => ~owed']_backend
<1> SUFFICES ASSUME TypeOK, FreshIsCommitted, OwedIsPending, [Next]_backend
             PROVE  /\ OwedIsPending'
                    /\ owed /\ owner'.session = owner.session
                         /\ owner'.checkpoint # owner.checkpoint => ~owed'
  OBVIOUS
<1> DEFINE Goal == /\ OwedIsPending'
                   /\ owed /\ owner'.session = owner.session
                        /\ owner'.checkpoint # owner.checkpoint => ~owed'
<1>0. worker \in [Token -> Worker] /\ owner \in OwnerType /\ owed \in BOOLEAN
  BY DEF TypeOK
<1>1. ASSUME owner'.pending = owner.pending, owner'.checkpoint = owner.checkpoint,
             owed' = owed,
             \A t \in Token : worker'[t].pc = "commit" => /\ worker[t].pc = "commit"
                                                          /\ worker'[t].pending = worker[t].pending
                                                          /\ worker'[t].outcome = worker[t].outcome
      PROVE  Goal
  BY <1>1 DEF OwedIsPending, OwedOutcome
<1>2. \A t \in Token : /\ BumpRevision(worker)[t].pc = worker[t].pc
                       /\ BumpRevision(worker)[t].pending = worker[t].pending
                       /\ BumpRevision(worker)[t].outcome = worker[t].outcome
  BY <1>0, BumpType
<1>3. \A pc : Idle(pc).pc = pc
  BY DEF Idle
<1>4. ASSUME FileStep PROVE Goal
  BY <1>1, <1>4 DEF FileStep, Write, Replace, Truncate
<1>5. ASSUME open_log_file PROVE Goal
  <2>1. worker' = BumpRevision(worker) /\ owed' = FALSE
    BY <1>5 DEF open_log_file
  <2> QED BY <1>2, <2>1 DEF OwedIsPending, OwedOutcome
<1>6. ASSUME parse_file \/ open_log_file_fails PROVE Goal
  BY <1>1, <1>6 DEF parse_file, open_log_file_fails
<1>7. ASSUME NEW t \in Token, admit_tail_start(t) PROVE Goal
  <2>1. owner'.pending = owner.pending /\ owner'.checkpoint = owner.checkpoint /\ owed' = owed
    BY <1>0, <1>7 DEF admit_tail_start, start, OwnerType
  <2>2. worker' = [BumpRevision(worker) EXCEPT ![t] = Idle("loop")]
    BY <1>7 DEF admit_tail_start
  <2>3. BumpRevision(worker) \in [Token -> Worker]
    BY <1>0, BumpType
  <2> QED BY <1>1, <1>2, <1>3, <2>1, <2>2, <2>3
<1>8. ASSUME NEW t \in Token, admit_tail_start_fails(t) PROVE Goal
  <2>1. owner'.pending = owner.pending /\ owner'.checkpoint = owner.checkpoint /\ owed' = owed
    BY <1>0, <1>8 DEF admit_tail_start_fails, start, stop, OwnerType
  <2>2. worker' = BumpRevision(worker)
    BY <1>8 DEF admit_tail_start_fails
  <2> QED BY <1>1, <1>2, <2>1, <2>2
<1>9. ASSUME NEW t \in Token, stop_tail(t) PROVE Goal
  <2>1. owner'.pending = owner.pending /\ owner'.checkpoint = owner.checkpoint /\ owed' = owed
    BY <1>0, <1>9 DEF stop_tail, stop, OwnerType
  <2>2. worker' = BumpRevision(worker)
    BY <1>9 DEF stop_tail
  <2> QED BY <1>1, <1>2, <2>1, <2>2
<1>10. ASSUME NEW t \in Token, NEW paused \in BOOLEAN, set_paused(t, paused) PROVE Goal
  <2>1. owner'.pending = owner.pending /\ owner'.checkpoint = owner.checkpoint /\ owed' = owed
    BY <1>0, <1>10 DEF set_paused, OwnerType
  <2>2. worker' = BumpRevision(worker)
    BY <1>10 DEF set_paused
  <2> QED BY <1>1, <1>2, <2>1, <2>2
<1>11. ASSUME NEW t \in Token, worker_exit(t) PROVE Goal
  BY <1>0, <1>1, <1>3, <1>11 DEF worker_exit
<1>12. ASSUME NEW t \in Token, worker_request(t) PROVE Goal
  BY <1>0, <1>1, <1>12 DEF worker_request
<1>13. ASSUME NEW t \in Token, NEW fault \in Fault, worker_read(t, fault) PROVE Goal
  <2>1. PICK identity \in Identities(file) :
          worker' = [worker EXCEPT ![t].pc = "commit",
                       ![t].outcome = read_candidate(worker[t], file, identity, fault)]
    BY <1>13 DEF worker_read
  <2> DEFINE out == read_candidate(worker[t], file, identity, fault)
  <2>2. /\ UNCHANGED <<owner, owed>>
        /\ \A s \in Token \ {t} : worker'[s] = worker[s]
    BY <1>0, <1>13, <2>1 DEF worker_read
  <2>3. worker'[t].pending = worker[t].pending /\ worker'[t].outcome = out
    <3> HIDE DEF out
    <3> QED BY <1>0, <2>1 DEF out, Worker
  <2>4. OwedOutcome(worker'[t])
    <3>1. worker[t] \in Worker
      BY <1>0
    <3>2. worker[t].pending = "generation" \/ out.saw => Settles(out)
      BY <3>1, ReadSettles
    <3> HIDE DEF out
    <3> QED BY <2>3, <3>2 DEF OwedOutcome
  <2> QED BY <2>2, <2>4 DEF OwedIsPending
<1>14. ASSUME NEW t \in Token, worker_commit(t) PROVE Goal
  <2> DEFINE out == worker[t].outcome
  <2>1. CASE Accepts(owner, worker[t], t)
    <3>1. /\ owner' = commit(owner, out)
          /\ worker' = [BumpRevision(worker) EXCEPT ![t] = Idle("loop")]
          /\ owed' = ((owed \/ out.saw) /\ ~out.reset)
      BY <1>14, <2>1 DEF worker_commit
    <3>2. owner'.pending = out.pending /\ (~out.install => owner'.checkpoint = owner.checkpoint)
      BY <1>0, <3>1 DEF commit, OwnerType
    <3>3. owed => worker[t].pending = "generation"
      BY <2>1 DEF Accepts, FreshIsCommitted, OwedIsPending
    <3>4. owed \/ out.saw => Settles(out)
      BY <1>14, <3>3 DEF worker_commit, OwedIsPending, OwedOutcome
    <3>5. BumpRevision(worker) \in [Token -> Worker]
      BY <1>0, BumpType
    <3>6. \A s \in Token : worker'[s].pc = "commit" => OwedOutcome(worker'[s])
      BY <1>2, <1>3, <3>1, <3>5 DEF OwedIsPending, OwedOutcome
    <3>7. owed' => owner'.pending = "generation"
      BY <3>1, <3>2, <3>4 DEF Settles
    <3>8. owed /\ owner'.checkpoint # owner.checkpoint => ~owed'
      BY <3>1, <3>2, <3>4 DEF Settles
    <3> QED BY <3>6, <3>7, <3>8 DEF OwedIsPending
  <2>2. CASE ~Accepts(owner, worker[t], t)
    BY <1>0, <1>1, <1>3, <1>14, <2>2 DEF worker_commit
  <2> QED BY <2>1, <2>2
<1>15. ASSUME UNCHANGED backend PROVE Goal
  BY <1>1, <1>15 DEF backend
<1> QED
  BY <1>4, <1>5, <1>6, <1>7, <1>8, <1>9, <1>10, <1>11, <1>12, <1>13, <1>14, <1>15
  DEF Next, CommandStep, WorkerStep

\* Once the end of the generation has been seen, the checkpoint changes next by
\* the reset, whatever fails, stops or starts meanwhile (read_candidate, commit).
THEOREM OwedResetFirst == Spec => OwedResetComesFirst
<1>1. Init => FreshIsCommitted /\ OwedIsPending
  <2> SUFFICES ASSUME Init PROVE FreshIsCommitted /\ OwedIsPending
    OBVIOUS
  <2>1. \A t \in Token : ~worker[t].fresh /\ worker[t].pc # "commit"
    BY DEF Init, Idle
  <2>2. ~owed
    BY DEF Init
  <2> QED BY <2>1, <2>2 DEF FreshIsCommitted, OwedIsPending
<1> QED BY <1>1, OwedStep, FenceStep, TypeCorrect, PTL DEF Spec, OwedResetComesFirst

----------------------------------------------------------------------------
(* The stream of rows *)

\* The rows a checkpoint has produced are numbered without a gap from line one and up to its next id,
\* bear its encoding, and are one per consumed unit; until a unit is consumed no encoding is chosen.
Coherent(ck) ==
  /\ Len(ck.rows) = ck.raw_offset
  /\ \A i \in 1..ck.raw_offset :
       /\ ck.rows[i].line = i
       /\ ck.rows[i].enc = ck.enc
       /\ ck.rows[i].id = ck.next_id - ck.raw_offset + i - 1
  /\ ck.enc = "undetermined" => ck.raw_offset = 0

\* What a read makes of a checkpoint: nothing, or a coherent one and new rows with new ids.
Continues(out, ck) ==
  IF out.install
    THEN /\ Coherent(out.checkpoint)
         /\ out.checkpoint.next_id >= ck.next_id
         /\ \A j \in DOMAIN out.entries :
              out.entries[j].id \in ck.next_id..(out.checkpoint.next_id - 1)
    ELSE out.entries = <<>>

\* Every checkpoint that is committed, about to be installed or read from is coherent.
StreamInv ==
  /\ Coherent(owner.checkpoint)
  /\ \A ck \in opening : Coherent(ck)
  /\ \A t \in Token :
       /\ worker[t].pc \in {"read", "commit"} => Coherent(worker[t].checkpoint)
       /\ worker[t].pc = "commit" => Continues(worker[t].outcome, worker[t].checkpoint)

\* The rows made of k units that follow off others are numbered from line off + 1 and from an id.
Numbered(rows, f, off, k, enc, id) ==
  /\ Len(rows) = k /\ DOMAIN rows = 1..k
  /\ \A i \in 1..k :
       /\ rows[i].gen = f.gen /\ rows[i].line = off + i
       /\ rows[i].enc = enc /\ rows[i].id = id + i - 1

\* So does Rows number them.
LEMMA RowsNumbered ==
  ASSUME NEW f, NEW off \in Nat, NEW k \in Nat, NEW enc, NEW id \in Nat,
         NEW rows, rows = Rows(f, off + 1, off + k, enc, id)
  PROVE  Numbered(rows, f, off, k, enc, id)
<1> DEFINE row(i) == [gen |-> f.gen, line |-> off + i, enc |-> enc, id |-> id + i - 1]
           all == {row(i) : i \in 1..k}
<1>1. rows = [i \in 1..k |-> row(i)]
  <2>1. off + k - (off + 1) + 1 = k
    OBVIOUS
  <2>2. rows = [i \in 1..k |->
                  [gen |-> f.gen, line |-> off + 1 + i - 1, enc |-> enc, id |-> id + i - 1]]
    BY <2>1 DEF Rows
  <2>3. \A i \in 1..k : off + 1 + i - 1 = off + i
    OBVIOUS
  <2> QED BY <2>2, <2>3
<1>2. rows \in Seq(all)
  <2> HIDE DEF row
  <2>1. rows \in [1..k -> all]
    BY <1>1
  <2>2. [1..k -> all] \in {[1..n -> all] : n \in Nat}
    OBVIOUS
  <2>3. [1..k -> all] \subseteq Seq(all)
    BY <2>2, SeqDef, Zenon
  <2> QED BY <2>1, <2>3
<1>3. DOMAIN rows = 1..k /\ \A i \in 1..k : rows[i] = row(i)
  BY <1>1
<1>4. Len(rows) = k
  <2> HIDE DEF all
  <2>1. Len(rows) \in Nat /\ DOMAIN rows = 1..Len(rows)
    BY <1>2, LenProperties
  <2> QED BY <1>3, <2>1
<1>5. \A i \in 1..k :
        /\ row(i).gen = f.gen /\ row(i).line = off + i
        /\ row(i).enc = enc /\ row(i).id = id + i - 1
  OBVIOUS
<1> HIDE DEF row, all
<1> QED BY <1>3, <1>4, <1>5 DEF Numbered

\* A whole-file read yields a coherent checkpoint (snapshot_bytes).
LEMMA SnapshotCoherent ==
  ASSUME NEW f \in FileType, NEW next_id \in Nat, NEW force \in BOOLEAN, NEW identity \in Nat,
         NEW ck, ck = snapshot_bytes(f, next_id, force, identity)
  PROVE  /\ Coherent(ck)
         /\ ck.next_id = next_id + Len(f.data)
         /\ \A j \in DOMAIN ck.rows : ck.rows[j].id \in next_id..(ck.next_id - 1)
<1> DEFINE enc == SnapshotEncoding(f, force)
<1>1. Len(f.data) \in Nat /\ f.data \in Seq(Unit)
  BY DEF FileType
<1>3. enc = "undetermined" => Len(f.data) = 0
  BY <1>1 DEF SnapshotEncoding, Resolved
<1>4. /\ ck.raw_offset = Len(f.data) /\ ck.next_id = next_id + Len(f.data) /\ ck.enc = enc
      /\ ck.rows = Rows(f, 1, Len(f.data), enc, next_id)
  BY DEF snapshot_bytes
<1> HIDE DEF enc
<1>5. ck.rows = Rows(f, 0 + 1, 0 + Len(f.data), enc, next_id)
  BY <1>1, <1>4
<1>6. Numbered(ck.rows, f, 0, Len(f.data), enc, next_id)
  BY <1>1, <1>5, RowsNumbered
<1>7. Coherent(ck)
  BY <1>1, <1>3, <1>4, <1>6 DEF Coherent, Numbered
<1>8. \A j \in DOMAIN ck.rows : ck.rows[j].id \in next_id..(ck.next_id - 1)
  <2>1. \A a, b \in Nat : \A j \in 1..b : a + j - 1 \in a..(a + b - 1)
    OBVIOUS
  <2>2. /\ DOMAIN ck.rows = 1..Len(f.data)
        /\ \A j \in 1..Len(f.data) : ck.rows[j].id = next_id + j - 1
    BY <1>6 DEF Numbered
  <2>3. ck.next_id - 1 = next_id + Len(f.data) - 1
    BY <1>4
  <2> QED BY <1>1, <2>1, <2>2, <2>3, SMTT(30)
<1> QED BY <1>4, <1>7, <1>8

\* The append read continues a coherent checkpoint: an encoding is chosen once (AppendOutcome).
LEMMA AppendContinues ==
  ASSUME NEW ck \in Checkpoint, NEW f \in FileType, ck.raw_offset <= Len(f.data), Coherent(ck)
  PROVE  Continues(AppendOutcome(ck, f), ck)
<1> DEFINE units == AppendUnits(ck, f)
           enc == Resolved(ck.enc, units)
           rows == Rows(f, ck.raw_offset + 1, ck.raw_offset + Len(units), enc, ck.next_id)
           out == AppendOutcome(ck, f)
<1>1. units \in Seq(Unit) /\ Len(units) \in Nat
  BY AppendUnitsType
<1>2. ck.raw_offset \in Nat /\ ck.next_id \in Nat /\ ck.rows \in Seq(Row)
  BY DEF Checkpoint
<1>3. enc = ck.enc \/ (ck.enc = "undetermined" /\ enc # "undetermined" /\ ck.raw_offset = 0)
  BY DEF Resolved, Coherent
<1>4. enc = "undetermined" => ck.raw_offset = 0 /\ Len(units) = 0
  BY <1>1 DEF Resolved, Coherent
<1>5. /\ out.install /\ out.entries = rows /\ out.checkpoint.rows = ck.rows \o rows
      /\ out.checkpoint.raw_offset = ck.raw_offset + Len(units)
      /\ out.checkpoint.next_id = ck.next_id + Len(units) /\ out.checkpoint.enc = enc
  BY DEF AppendOutcome
<1> HIDE DEF units, enc
<1>6. /\ Len(rows) = Len(units) /\ DOMAIN rows = 1..Len(units)
      /\ \A i \in 1..Len(units) :
           /\ rows[i].line = ck.raw_offset + i /\ rows[i].enc = enc
           /\ rows[i].id = ck.next_id + i - 1
  <2> HIDE DEF rows
  <2>1. rows = Rows(f, ck.raw_offset + 1, ck.raw_offset + Len(units), enc, ck.next_id)
    BY DEF rows
  <2>2. Numbered(rows, f, ck.raw_offset, Len(units), enc, ck.next_id)
    BY <1>1, <1>2, <2>1, RowsNumbered
  <2> QED BY <2>2 DEF Numbered
<1>7. rows \in Seq(Row)
  <2>1. out \in Outcome
    BY AppendType
  <2> QED BY <1>5, <2>1 DEF Outcome
<1> HIDE DEF rows, out
<1>8. /\ Len(ck.rows \o rows) = Len(ck.rows) + Len(rows)
      /\ \A i \in 1..(Len(ck.rows) + Len(rows)) :
           (ck.rows \o rows)[i] = IF i <= Len(ck.rows) THEN ck.rows[i] ELSE rows[i - Len(ck.rows)]
  BY <1>2, <1>7, ConcatProperties
<1>9. Coherent(out.checkpoint)
  <2> DEFINE k == Len(units)
             next == out.checkpoint
  <2>1. k \in Nat /\ ck.raw_offset \in Nat /\ Len(ck.rows) = ck.raw_offset
    BY <1>1, <1>2 DEF Coherent
  <2>2. next.raw_offset = ck.raw_offset + k /\ Len(next.rows) = ck.raw_offset + k
    BY <1>5, <1>6, <1>8, <2>1
  <2>3. ASSUME NEW i \in 1..next.raw_offset
        PROVE  /\ next.rows[i].line = i /\ next.rows[i].enc = next.enc
               /\ next.rows[i].id = next.next_id - next.raw_offset + i - 1
    <3>1. CASE i <= ck.raw_offset
      <4>1. i \in 1..ck.raw_offset /\ next.rows[i] = ck.rows[i] /\ enc = ck.enc
        BY <1>3, <1>5, <1>6, <1>8, <2>1, <2>2, <3>1
      <4> QED BY <1>2, <1>5, <2>1, <2>2, <4>1 DEF Coherent
    <3>2. CASE i > ck.raw_offset
      <4>1. PICK m \in 1..k : i = ck.raw_offset + m /\ i - ck.raw_offset = m
        <5>1. ck.raw_offset \in Nat /\ i \in 1..(ck.raw_offset + k)
          BY <2>1, <2>2
        <5>2. \A r, a, b \in Nat : a \in 1..(r + b) /\ a > r =>
                a - r \in 1..b /\ a = r + (a - r)
          OBVIOUS
        <5> QED BY <2>1, <3>2, <5>1, <5>2
      <4>2. i \in 1..(Len(ck.rows) + Len(rows)) /\ ~(i <= Len(ck.rows))
        BY <1>6, <2>1, <2>2, <3>2
      <4>3. next.rows[i] = rows[m]
        BY <1>5, <1>8, <2>1, <4>1, <4>2, ZenonT(30)
      <4>4. rows[m].line = i /\ rows[m].enc = next.enc /\ rows[m].id = ck.next_id + m - 1
        BY <1>5, <1>6, <4>1
      <4>5. ck.next_id + m - 1 = next.next_id - next.raw_offset + i - 1
        <5>1. \A n, r, a, b \in Nat : n + a - 1 = (n + b) - (r + b) + (r + a) - 1
          OBVIOUS
        <5>2. m \in Nat /\ ck.next_id \in Nat
          BY <1>2, <2>1
        <5>3. ck.next_id + m - 1
              = (ck.next_id + k) - (ck.raw_offset + k) + (ck.raw_offset + m) - 1
          BY <2>1, <5>1, <5>2
        <5>4. /\ next.next_id = ck.next_id + k /\ next.raw_offset = ck.raw_offset + k
              /\ i = ck.raw_offset + m
          BY <1>5, <2>2, <4>1
        <5> QED BY <5>3, <5>4, Zenon
      <4> QED BY <4>3, <4>4, <4>5
    <3> QED BY <2>1, <2>2, <3>1, <3>2
  <2>4. next.enc = "undetermined" => next.raw_offset = 0
    BY <1>4, <1>5, <2>1
  <2> QED BY <2>2, <2>3, <2>4 DEF Coherent
<1> QED
  <2>1. out.checkpoint.next_id >= ck.next_id
    BY <1>1, <1>2, <1>5
  <2>2. \A j \in DOMAIN out.entries :
          out.entries[j].id \in ck.next_id..(out.checkpoint.next_id - 1)
    <3>1. \A a, b \in Nat : \A j \in 1..b : a + j - 1 \in a..(a + b - 1)
      OBVIOUS
    <3> QED BY <1>1, <1>2, <1>5, <1>6, <3>1
  <2> QED BY <1>5, <1>9, <2>1, <2>2 DEF Continues, out

\* A whole-file read that settles a transition continues the ids (ResetOutcome).
LEMMA ResetContinues ==
  ASSUME NEW req \in Worker, NEW f \in FileType, NEW identity \in Nat,
         NEW pending \in Transition, NEW fault \in Fault, NEW saw \in BOOLEAN
  PROVE  Continues(ResetOutcome(req, f, identity, pending, fault, saw), req.checkpoint)
<1> DEFINE force == pending = "windows1252"
           ck == snapshot_bytes(f, req.checkpoint.next_id, force, identity)
           out == ResetOutcome(req, f, identity, pending, fault, saw)
<1>1. req.checkpoint.next_id \in Nat /\ Len(f.data) \in Nat
  BY DEF Worker, Checkpoint, FileType
<1>2. /\ Coherent(ck) /\ ck.next_id = req.checkpoint.next_id + Len(f.data)
      /\ \A j \in DOMAIN ck.rows : ck.rows[j].id \in req.checkpoint.next_id..(ck.next_id - 1)
  <2> HIDE DEF ck
  <2>1. force \in BOOLEAN /\ ck = snapshot_bytes(f, req.checkpoint.next_id, force, identity)
    BY DEF ck
  <2> HIDE DEF force
  <2> QED BY <1>1, <2>1, SnapshotCoherent
<1>3. \/ out.install /\ out.checkpoint = ck /\ out.entries = ck.rows
      \/ ~out.install /\ out.entries = <<>>
  BY DEF ResetOutcome, GapOutcome
<1> HIDE DEF ck, out
<1> QED BY <1>1, <1>2, <1>3 DEF Continues, out

\* Every read, failed or not, continues the checkpoint it was given (read_candidate).
LEMMA ReadContinues ==
  ASSUME NEW req \in Worker, NEW f \in FileType, NEW identity \in Nat,
         NEW fault \in Fault, Coherent(req.checkpoint)
  PROVE  Continues(read_candidate(req, f, identity, fault), req.checkpoint)
<1> DEFINE ck == req.checkpoint
           saw == NewGeneration(ck, f, identity)
           pending == IF saw THEN "generation" ELSE req.pending
           out == read_opened(req, f, identity, pending, fault, saw)
<1>1. ck \in Checkpoint /\ req.pending \in Transition
  BY DEF Worker
<1>2. ck.raw_offset \in Nat /\ Len(f.data) \in Nat
  BY <1>1 DEF Checkpoint, FileType
<1>3. saw \in BOOLEAN
  BY DEF NewGeneration, identities_differ
<1>4. pending \in Transition /\ "windows1252" \in Transition
  BY <1>1 DEF Transition
<1>5. pending = "none" => ck.raw_offset <= Len(f.data)
  BY <1>2 DEF NewGeneration
<1>6. \A p, reason, b : Continues(GapOutcome(req, p, reason, b), ck)
  BY DEF GapOutcome, Continues
<1>7. \A p \in Transition : Continues(ResetOutcome(req, f, identity, p, fault, saw), ck)
  <2> HIDE DEF saw
  <2> QED BY <1>3, ResetContinues
<1>8. pending = "none" => Continues(AppendOutcome(ck, f), ck)
  <2> HIDE DEF pending, ck
  <2>1. Coherent(ck)
    BY DEF ck
  <2> QED BY <1>1, <1>5, <2>1, AppendContinues
<1>9. Continues(out, ck)
  <2>1. \/ out = ResetOutcome(req, f, identity, pending, fault, saw)
        \/ out = GapOutcome(req, pending, "read_failed", saw)
        \/ pending = "none" /\ out = AppendOutcome(ck, f)
        \/ out = GapOutcome(req, pending, "invalid_encoding", saw)
        \/ out = ResetOutcome(req, f, identity, "windows1252", fault, saw)
    <3>1. Explicit(ck, f, AppendUnits(ck, f)) \in BOOLEAN
      BY <1>1 DEF Explicit, Checkpoint, FileType
    <3> HIDE DEF pending, saw
    <3> QED BY <3>1 DEF read_opened
  <2> HIDE DEF pending, saw, out, ck
  <2> QED BY <1>4, <1>6, <1>7, <1>8, <2>1
<1> QED BY <1>6, <1>9 DEF read_candidate

\* Every step keeps every checkpoint coherent, and what it publishes bears new ids: one case per
\* action.
LEMMA StreamStep ==
  TypeOK /\ FreshIsCommitted /\ StreamInv /\ [Next]_backend
    => /\ StreamInv'
       /\ [owner'.session = owner.session =>
             /\ owner'.checkpoint.next_id >= owner.checkpoint.next_id
             /\ \A i \in DOMAIN emitted' :
                  \A j \in DOMAIN emitted'[i].entries :
                    emitted'[i].entries[j].id \in
                      owner.checkpoint.next_id..(owner'.checkpoint.next_id - 1)]_backend
<1> DEFINE NewIds == owner'.session = owner.session =>
                       /\ owner'.checkpoint.next_id >= owner.checkpoint.next_id
                       /\ \A i \in DOMAIN emitted' :
                            \A j \in DOMAIN emitted'[i].entries :
                              emitted'[i].entries[j].id \in
                                owner.checkpoint.next_id..(owner'.checkpoint.next_id - 1)
           Goal == StreamInv' /\ (NewIds \/ UNCHANGED backend)
           Sound(w) == /\ w.pc \in {"read", "commit"} => Coherent(w.checkpoint)
                       /\ w.pc = "commit" => Continues(w.outcome, w.checkpoint)
<1> SUFFICES ASSUME TypeOK, FreshIsCommitted, StreamInv, [Next]_backend
             PROVE  Goal
  OBVIOUS
<1>0. /\ worker \in [Token -> Worker] /\ owner \in OwnerType /\ file \in FileType
      /\ owner.checkpoint.next_id \in Nat
  BY DEF TypeOK, OwnerType, Checkpoint
<1>1. Coherent(owner.checkpoint) /\ \A t \in Token : Sound(worker[t])
  BY DEF StreamInv
<1> HIDE DEF Sound
<1>2. ASSUME emitted' = <<>>, owner'.checkpoint = owner.checkpoint
      PROVE  NewIds
  <2>1. DOMAIN emitted' = {}
    BY <1>2
  <2> QED BY <1>0, <1>2, <2>1
<1> HIDE DEF NewIds
<1>3. ASSUME owner'.checkpoint = owner.checkpoint, emitted' = <<>>,
             opening' = opening, \A t \in Token : Sound(worker'[t])
      PROVE  Goal
  BY <1>1, <1>2, <1>3 DEF StreamInv, Sound
<1>4. BumpRevision(worker) \in [Token -> Worker]
      /\ \A t \in Token : Sound(BumpRevision(worker)[t])
  BY <1>0, <1>1, BumpType DEF Sound
<1>5. \A pc \in {"loop", "exited"} : Sound(Idle(pc))
  BY DEF Idle, Sound
<1>6. ASSUME FileStep
      PROVE  Goal
  BY <1>1, <1>3, <1>6 DEF FileStep, Write, Replace, Truncate
<1>7. ASSUME open_log_file
      PROVE  Goal
  <2>1. PICK ck \in opening : owner' = NewOwner(owner.session + 1, ck)
    BY <1>7 DEF open_log_file
  <2>2. owner'.session # owner.session /\ owner'.checkpoint = ck
    BY <1>0, <2>1 DEF NewOwner, OwnerType
  <2>3. NewIds
    BY <2>2 DEF NewIds
  <2>4. Coherent(owner'.checkpoint) /\ opening' = {} /\ \A t \in Token : Sound(worker'[t])
    BY <1>4, <1>7, <2>2 DEF open_log_file, StreamInv
  <2> QED BY <2>3, <2>4 DEF StreamInv, Sound
<1>8. ASSUME parse_file
      PROVE  Goal
  <2>1. PICK identity \in Identities(file) : opening' = {snapshot_bytes(file, 0, FALSE, identity)}
    BY <1>8 DEF parse_file
  <2>2. identity \in Nat
    BY <1>0, IdentityType
  <2>3. \A ck \in opening' : Coherent(ck)
    <3> DEFINE ck == snapshot_bytes(file, 0, FALSE, identity)
    <3>1. Coherent(ck)
      BY <1>0, <2>2, SnapshotCoherent
    <3> QED BY <2>1, <3>1
  <2>4. NewIds
    BY <1>2, <1>8 DEF parse_file
  <2> QED BY <1>1, <1>8, <2>3, <2>4 DEF parse_file, StreamInv, Sound
<1>9. ASSUME open_log_file_fails
      PROVE  Goal
  BY <1>1, <1>3, <1>9 DEF open_log_file_fails
<1>10. ASSUME NEW t \in Token, admit_tail_start(t)
       PROVE  Goal
  <2>1. owner'.checkpoint = owner.checkpoint
    BY <1>0, <1>10 DEF admit_tail_start, start, OwnerType
  <2>2. \A s \in Token : Sound(worker'[s])
    BY <1>4, <1>5, <1>10 DEF admit_tail_start
  <2> QED BY <1>3, <1>10, <2>1, <2>2 DEF admit_tail_start
<1>11. ASSUME NEW t \in Token, admit_tail_start_fails(t)
       PROVE  Goal
  <2>1. owner'.checkpoint = owner.checkpoint
    BY <1>0, <1>11 DEF admit_tail_start_fails, start, stop, OwnerType
  <2> QED BY <1>3, <1>4, <1>11, <2>1 DEF admit_tail_start_fails
<1>12. ASSUME NEW t \in Token, stop_tail(t)
       PROVE  Goal
  <2>1. owner'.checkpoint = owner.checkpoint
    BY <1>0, <1>12 DEF stop_tail, stop, OwnerType
  <2> QED BY <1>3, <1>4, <1>12, <2>1 DEF stop_tail
<1>13. ASSUME NEW t \in Token, NEW paused \in BOOLEAN, set_paused(t, paused)
       PROVE  Goal
  <2>1. owner'.checkpoint = owner.checkpoint
    BY <1>0, <1>13 DEF set_paused, OwnerType
  <2> QED BY <1>3, <1>4, <1>13, <2>1 DEF set_paused
<1>14. ASSUME NEW t \in Token, worker_exit(t)
       PROVE  Goal
  <2>1. \A s \in Token : Sound(worker'[s])
    BY <1>0, <1>1, <1>5, <1>14 DEF worker_exit
  <2> QED BY <1>3, <1>14, <2>1 DEF worker_exit
<1>15. ASSUME NEW t \in Token, worker_request(t)
       PROVE  Goal
  <2>1. worker'[t].pc = "read" /\ worker'[t].checkpoint = owner.checkpoint
        /\ \A s \in Token \ {t} : worker'[s] = worker[s]
    BY <1>0, <1>15 DEF worker_request
  <2>2. \A s \in Token : Sound(worker'[s])
    BY <1>1, <2>1 DEF Sound
  <2> QED BY <1>3, <1>15, <2>2 DEF worker_request
<1>16. ASSUME NEW t \in Token, NEW fault \in Fault, worker_read(t, fault)
       PROVE  Goal
  <2>1. PICK identity \in Identities(file) :
          worker' = [worker EXCEPT ![t].pc = "commit",
                       ![t].outcome = read_candidate(worker[t], file, identity, fault)]
    BY <1>16 DEF worker_read
  <2> DEFINE out == read_candidate(worker[t], file, identity, fault)
  <2>2. worker[t] \in Worker /\ identity \in Nat /\ worker[t].pc = "read"
    BY <1>0, <1>16, IdentityType DEF worker_read
  <2>3. Coherent(worker[t].checkpoint)
    BY <1>1, <2>2 DEF Sound
  <2>4. Continues(out, worker[t].checkpoint)
    BY <1>0, <2>2, <2>3, ReadContinues
  <2> HIDE DEF out
  <2>5. /\ worker'[t].checkpoint = worker[t].checkpoint /\ worker'[t].outcome = out
        /\ \A s \in Token \ {t} : worker'[s] = worker[s]
    BY <1>0, <2>1 DEF out, Worker
  <2>6. \A s \in Token : Sound(worker'[s])
    BY <1>1, <2>3, <2>4, <2>5 DEF Sound
  <2> QED BY <1>3, <1>16, <2>6 DEF worker_read
<1>17. ASSUME NEW t \in Token, worker_commit(t)
       PROVE  Goal
  <2> DEFINE out == worker[t].outcome
  <2>1. CASE Accepts(owner, worker[t], t)
    <3>1. /\ owner' = commit(owner, out) /\ opening' = opening
          /\ worker' = [BumpRevision(worker) EXCEPT ![t] = Idle("loop")]
          /\ \/ emitted' = <<>>
             \/ emitted' = <<[token |-> t, entries |-> out.entries, reset |-> out.reset]>>
      BY <1>17, <2>1 DEF worker_commit, publish
    <3>2. owner'.checkpoint = IF out.install THEN out.checkpoint ELSE owner.checkpoint
      BY <1>0, <3>1 DEF commit, OwnerType
    <3>3. Continues(out, owner.checkpoint)
      <4>1. worker[t].checkpoint = owner.checkpoint
        BY <2>1 DEF Accepts, FreshIsCommitted
      <4>2. Continues(out, worker[t].checkpoint)
        BY <1>1, <1>17 DEF worker_commit, Sound
      <4> QED BY <4>1, <4>2
    <3>4. \A s \in Token : Sound(worker'[s])
      BY <1>4, <1>5, <3>1
    <3>5. Coherent(owner'.checkpoint)
      BY <1>1, <3>2, <3>3 DEF Continues
    <3>6. \A i \in DOMAIN emitted' : emitted'[i].entries = out.entries
      BY <3>1
    <3> HIDE DEF out
    <3>7. NewIds
      <4>1. CASE out.install
        BY <3>2, <3>3, <3>6, <4>1 DEF Continues, NewIds
      <4>2. CASE ~out.install
        <5>1. out.entries = <<>> /\ DOMAIN out.entries = {}
          BY <3>3, <4>2 DEF Continues
        <5> QED BY <1>0, <3>2, <3>6, <4>2, <5>1 DEF NewIds
      <4> QED BY <4>1, <4>2
    <3> QED BY <3>1, <3>4, <3>5, <3>7 DEF StreamInv, Sound
  <2>2. CASE ~Accepts(owner, worker[t], t)
    <3>1. \A s \in Token : Sound(worker'[s])
      BY <1>0, <1>1, <1>5, <1>17, <2>2 DEF worker_commit
    <3> QED BY <1>3, <1>17, <2>2, <3>1 DEF worker_commit
  <2> QED BY <2>1, <2>2
<1>18. ASSUME UNCHANGED backend
       PROVE  Goal
  BY <1>18 DEF backend, StreamInv
<1> QED
  BY <1>6, <1>7, <1>8, <1>9, <1>10, <1>11, <1>12, <1>13, <1>14, <1>15, <1>16, <1>17, <1>18
  DEF Next, CommandStep, WorkerStep

\* The first checkpoint is one of a whole-file read.
LEMMA StreamInit == Init => FreshIsCommitted /\ StreamInv
<1> SUFFICES ASSUME Init PROVE FreshIsCommitted /\ StreamInv
  OBVIOUS
<1>1. \A t \in Token : ~worker[t].fresh /\ worker[t].pc = "unborn"
  BY DEF Init, Idle
<1>2. file \in FileType
  BY InitType DEF TypeOK
<1>3. PICK identity \in Identities(file) :
        owner = NewOwner(1, snapshot_bytes(file, 0, FALSE, identity))
  BY DEF Init
<1>4. Coherent(snapshot_bytes(file, 0, FALSE, identity))
  BY <1>2, IdentityType, SnapshotCoherent
<1>5. Coherent(owner.checkpoint)
  BY <1>3, <1>4 DEF NewOwner
<1> QED BY <1>1, <1>5 DEF Init, FreshIsCommitted, StreamInv

\* A stream has one row per consumed unit, numbered without a gap and of one encoding, whatever
\* fails, stops or is replaced meanwhile (read_opened, snapshot_bytes).
THEOREM StreamCoherent == Spec => []StreamIsCoherent
<1>1. TypeOK /\ StreamInv => StreamIsCoherent
  <2> SUFFICES ASSUME TypeOK, StreamInv PROVE StreamIsCoherent
    OBVIOUS
  <2>1. owner.checkpoint.rows \in Seq(Row)
    BY DEF TypeOK, OwnerType, Checkpoint
  <2> QED BY <2>1 DEF StreamInv, Coherent, StreamIsCoherent
<1> QED BY <1>1, StreamInit, StreamStep, FenceStep, TypeCorrect, PTL DEF Spec

\* Within one open of the source no row gets the id of an earlier one (read_opened).
THEOREM IdsNew == Spec => IdsNeverReused
BY StreamInit, StreamStep, FenceStep, TypeCorrect, PTL DEF Spec, IdsNeverReused

----------------------------------------------------------------------------
(* The snapshot and the chunked stream *)

\* Among the first n units of f is one that is no valid UTF-8.
HighIn(f, n) == \E i \in 1..n : f.data[i] = "high"

\* A checkpoint holds rows of the file it identifies; when that is the present file, it has consumed
\* a prefix of it, and its encoding says whether that prefix is valid UTF-8.
Parity(ck, f) ==
  /\ ck.identity \in 1..f.gen
  /\ \A i \in DOMAIN ck.rows : ck.rows[i].gen = ck.identity
  /\ ck.identity = f.gen =>
       /\ ck.raw_offset <= Len(f.data)
       /\ ck.enc = "undetermined" <=> ck.raw_offset = 0
       /\ ck.enc = "windows1252" <=> HighIn(f, ck.raw_offset)

\* A Windows-1252 restart is owed to the present file only if it is needed.
Owes(ck, pending, f) ==
  pending = "windows1252" /\ ck.identity = f.gen => HighIn(f, Len(f.data))

\* What a read makes of a checkpoint: one that has parity, or a gap that owes what is needed.
Yields(out, ck, f) ==
  IF out.install THEN Parity(out.checkpoint, f) /\ out.pending = "none"
                 ELSE Owes(ck, out.pending, f)

\* Every checkpoint that is committed, about to be installed or read from has parity.
ParityInv ==
  /\ file.identity = file.gen
  /\ Parity(owner.checkpoint, file) /\ Owes(owner.checkpoint, owner.pending, file)
  /\ \A ck \in opening : Parity(ck, file)
  /\ \A t \in Token :
       /\ worker[t].pc \in {"read", "commit"} =>
            /\ Parity(worker[t].checkpoint, file)
            /\ Owes(worker[t].checkpoint, worker[t].pending, file)
       /\ worker[t].pc = "commit" => Yields(worker[t].outcome, worker[t].checkpoint, file)

\* The bounded read returns the units that follow the consumed ones (AppendUnits).
LEMMA AppendUnitsAre ==
  ASSUME NEW ck \in Checkpoint, NEW f \in FileType, ck.raw_offset <= Len(f.data),
         NEW units, units = AppendUnits(ck, f)
  PROVE  /\ Len(units) \in Nat /\ DOMAIN units = 1..Len(units)
         /\ ck.raw_offset + Len(units) <= Len(f.data)
         /\ \A i \in 1..Len(units) : units[i] = f.data[ck.raw_offset + i]
<1>1. f.data \in Seq(Unit) /\ Len(f.data) \in Nat
  BY DEF FileType
<1>2. PICK off \in Nat : off = ck.raw_offset
  BY DEF Checkpoint
<1>3. PICK first \in Nat : first = off + 1
  OBVIOUS
<1>4. PICK last \in Nat : last = IF Len(f.data) < ck.raw_offset + Chunk THEN Len(f.data)
                                 ELSE ck.raw_offset + Chunk
  <2>1. (IF Len(f.data) < off + Chunk THEN Len(f.data) ELSE off + Chunk) \in Nat
    BY <1>1, ChunkAssumption
  <2> QED BY <1>2, <2>1
<1>5. first \in 1..Len(f.data) + 1 /\ last \in off..Len(f.data) /\ last \in first - 1..Len(f.data)
  <2>1. off <= Len(f.data) /\ Chunk \in Nat
    BY <1>2, ChunkAssumption
  <2>2. last = IF Len(f.data) < off + Chunk THEN Len(f.data) ELSE off + Chunk
    BY <1>2, <1>4
  <2>3. last <= Len(f.data) /\ last >= off
    BY <1>1, <2>1, <2>2
  <2> QED BY <1>1, <1>3, <2>1, <2>3
<1>6. units = SubSeq(f.data, first, last)
  BY <1>2, <1>3, <1>4 DEF AppendUnits
<1>7. /\ units \in Seq(Unit)
      /\ Len(units) = IF first <= last THEN last - first + 1 ELSE 0
      /\ \A i \in 1..(last - first + 1) : units[i] = f.data[first + i - 1]
  BY <1>1, <1>5, <1>6, SubSeqProperties
<1>8. Len(units) = last - off
  BY <1>3, <1>5, <1>7
<1>9. last - first + 1 = last - off /\ off + (last - off) = last
  BY <1>3
<1>10. \A i \in 1..(last - off) : first + i - 1 = off + i
  BY <1>3
<1>11. Len(units) \in Nat /\ DOMAIN units = 1..Len(units)
  BY <1>7, LenProperties
<1>12. \A i \in 1..Len(units) : units[i] = f.data[off + i]
  BY <1>7, <1>8, <1>9, <1>10
<1>13. off + Len(units) <= Len(f.data)
  BY <1>5, <1>8, <1>9
<1> QED BY <1>2, <1>11, <1>12, <1>13

\* A whole-file read has parity, if it was told of a high byte only where there is one.
LEMMA SnapshotHasParity ==
  ASSUME NEW f \in FileType, f.identity = f.gen, NEW next_id \in Nat, NEW force \in BOOLEAN,
         force => HighIn(f, Len(f.data)),
         NEW ck, ck = snapshot_bytes(f, next_id, force, f.identity)
  PROVE  /\ Parity(ck, f) /\ ck.raw_offset = Len(f.data)
         /\ ~force => ck.enc = SnapshotEncoding(f, FALSE)
<1> DEFINE enc == SnapshotEncoding(f, force)
<1>1. /\ f.data \in Seq(Unit) /\ Len(f.data) \in Nat /\ DOMAIN f.data = 1..Len(f.data)
      /\ f.gen \in 1..f.gen
  <2>1. f.data \in Seq(Unit) /\ f.gen \in 1..MaxGen
    BY DEF FileType
  <2>2. f.gen \in Nat /\ f.gen >= 1
    BY <2>1, FileAssumption
  <2> QED BY <2>1, <2>2, LenProperties
<1>2. Highs(f.data) <=> HighIn(f, Len(f.data))
  BY <1>1 DEF Highs, HighIn
<1>3. f.data = <<>> <=> Len(f.data) = 0
  BY <1>1
<1>4. /\ enc = "undetermined" <=> Len(f.data) = 0
      /\ enc = "windows1252" <=> HighIn(f, Len(f.data))
  <2>1. Len(f.data) = 0 => ~HighIn(f, Len(f.data))
    BY DEF HighIn
  <2> QED BY <1>2, <1>3, <2>1 DEF SnapshotEncoding, Refused, Resolved
<1>5. /\ ck.raw_offset = Len(f.data) /\ ck.enc = enc /\ ck.identity = f.gen
      /\ ck.rows = Rows(f, 1, Len(f.data), enc, next_id)
  BY DEF snapshot_bytes
<1> HIDE DEF enc
<1>6. ck.rows = Rows(f, 0 + 1, 0 + Len(f.data), enc, next_id)
  BY <1>1, <1>5
<1>7. Numbered(ck.rows, f, 0, Len(f.data), enc, next_id)
  BY <1>1, <1>6, RowsNumbered
<1>8. Parity(ck, f)
  BY <1>1, <1>4, <1>5, <1>7 DEF Parity, Numbered
<1> QED BY <1>5, <1>8 DEF enc

\* The append read keeps parity with the file it has not left (AppendOutcome).
LEMMA AppendHasParity ==
  ASSUME NEW ck \in Checkpoint, NEW f \in FileType, ck.raw_offset <= Len(f.data),
         Parity(ck, f), ck.identity = f.gen, ~Refused(ck.enc, AppendUnits(ck, f))
  PROVE  Parity(AppendOutcome(ck, f).checkpoint, f)
<1> DEFINE units == AppendUnits(ck, f)
           enc == Resolved(ck.enc, units)
           rows == Rows(f, ck.raw_offset + 1, ck.raw_offset + Len(units), enc, ck.next_id)
           next == AppendOutcome(ck, f).checkpoint
<1>1. PICK off \in Nat : off = ck.raw_offset
  BY DEF Checkpoint
<1>2. PICK k \in Nat : k = Len(units)
  BY AppendUnitsType
<1>3. /\ DOMAIN units = 1..k /\ off + k <= Len(f.data)
      /\ \A i \in 1..k : units[i] = f.data[off + i]
  <2> HIDE DEF units
  <2>1. units = AppendUnits(ck, f)
    BY DEF units
  <2> QED BY <1>1, <1>2, <2>1, AppendUnitsAre
<1>4. units = <<>> <=> k = 0
  <2>1. units \in Seq(Unit)
    BY AppendUnitsType
  <2> HIDE DEF units
  <2> QED BY <1>2, <2>1
<1>5. /\ next.identity = f.gen /\ next.raw_offset = off + k /\ next.enc = enc
      /\ next.rows = ck.rows \o rows
  BY <1>1, <1>2 DEF AppendOutcome
<1>6. ~Refused(ck.enc, units)
  OBVIOUS
<1>7. rows \in Seq(Row) /\ Numbered(rows, f, ck.raw_offset, k, enc, ck.next_id)
  <2>1. AppendOutcome(ck, f) \in Outcome /\ AppendOutcome(ck, f).entries = rows
    BY AppendType DEF AppendOutcome
  <2>2. rows \in Seq(Row)
    BY <2>1 DEF Outcome
  <2>3. rows = Rows(f, ck.raw_offset + 1, ck.raw_offset + k, enc, ck.next_id)
    BY <1>2
  <2>4. ck.raw_offset \in Nat /\ ck.next_id \in Nat
    BY DEF Checkpoint
  <2> HIDE DEF rows, enc, units
  <2> QED BY <2>2, <2>3, <2>4, RowsNumbered
<1> HIDE DEF units, next, rows
<1>8. HighIn(f, off + k) <=> HighIn(f, off) \/ Highs(units)
  <2>1. ASSUME HighIn(f, off + k)
        PROVE  HighIn(f, off) \/ Highs(units)
    <3>1. PICK i \in 1..(off + k) : f.data[i] = "high"
      BY <2>1 DEF HighIn
    <3>2. CASE i <= off
      BY <3>1, <3>2 DEF HighIn
    <3>3. CASE i > off
      <4>1. PICK m \in 1..k : i = off + m
        <5>1. i - off \in 1..k /\ i = off + (i - off)
          BY <3>3
        <5> QED BY <5>1
      <4> QED BY <1>3, <3>1, <4>1 DEF Highs
    <3> QED BY <3>2, <3>3
  <2>2. ASSUME HighIn(f, off)
        PROVE  HighIn(f, off + k)
    BY <2>2 DEF HighIn
  <2>3. ASSUME Highs(units)
        PROVE  HighIn(f, off + k)
    <3>1. PICK m \in 1..k : units[m] = "high"
      BY <1>3, <2>3 DEF Highs
    <3>2. off + m \in 1..(off + k)
      OBVIOUS
    <3> QED BY <1>3, <3>1, <3>2 DEF HighIn
  <2> QED BY <2>1, <2>2, <2>3
<1>9. /\ ck.enc = "undetermined" <=> off = 0
      /\ ck.enc = "windows1252" <=> HighIn(f, off)
  BY <1>1 DEF Parity
<1>10. ~HighIn(f, 0) /\ (k = 0 => ~Highs(units))
  BY <1>3 DEF HighIn, Highs
<1>11. /\ next.enc = "undetermined" <=> next.raw_offset = 0
       /\ next.enc = "windows1252" <=> HighIn(f, next.raw_offset)
  <2>1. off + k = 0 <=> off = 0 /\ k = 0
    OBVIOUS
  <2>2. ck.enc \in {"undetermined", "utf8", "windows1252"}
    BY DEF Checkpoint, Encoding
  <2>3. /\ enc = "undetermined" <=> off + k = 0
        /\ enc = "windows1252" <=> HighIn(f, off + k)
    BY <1>4, <1>6, <1>8, <1>9, <1>10, <2>1, <2>2 DEF Resolved, Refused
  <2> HIDE DEF enc
  <2> QED BY <1>5, <2>3
<1>12. \A i \in DOMAIN next.rows : next.rows[i].gen = f.gen
  <2>1. ck.rows \in Seq(Row) /\ \A i \in DOMAIN ck.rows : ck.rows[i].gen = f.gen
    BY DEF Checkpoint, Parity
  <2>2. \A i \in DOMAIN rows : rows[i].gen = f.gen
    BY <1>7 DEF Numbered
  <2>3. ck.rows \o rows \in Seq(Row)
    BY <1>7, <2>1, ConcatProperties
  <2>4. \A i \in DOMAIN (ck.rows \o rows) : (ck.rows \o rows)[i].gen = f.gen
    <3> SUFFICES ASSUME NEW i \in DOMAIN (ck.rows \o rows)
                 PROVE  (ck.rows \o rows)[i].gen = f.gen
      OBVIOUS
    <3>1. /\ Len(ck.rows) \in Nat /\ DOMAIN ck.rows = 1..Len(ck.rows)
          /\ Len(rows) \in Nat /\ DOMAIN rows = 1..Len(rows)
      BY <1>7, <2>1, LenProperties
    <3>2. /\ i \in 1..(Len(ck.rows) + Len(rows))
          /\ (ck.rows \o rows)[i] = IF i <= Len(ck.rows) THEN ck.rows[i]
                                    ELSE rows[i - Len(ck.rows)]
      BY <1>7, <2>1, <2>3, ConcatProperties, LenProperties
    <3>3. CASE i <= Len(ck.rows)
      BY <2>1, <3>1, <3>2, <3>3
    <3>4. CASE ~(i <= Len(ck.rows))
      <4>1. i - Len(ck.rows) \in 1..Len(rows)
        BY <3>1, <3>2, <3>4
      <4> QED BY <2>2, <3>1, <3>2, <3>4, <4>1
    <3> QED BY <3>3, <3>4
  <2> QED BY <1>5, <2>4
<1>13. f.gen \in 1..f.gen
  BY DEF Parity
<1> QED BY <1>3, <1>5, <1>11, <1>12, <1>13 DEF Parity, next

\* A whole-file read has parity, or owes what it owed (ResetOutcome).
LEMMA ResetYields ==
  ASSUME NEW req \in Worker, NEW f \in FileType, f.identity = f.gen,
         NEW pending \in Transition, NEW fault \in Fault, NEW saw \in BOOLEAN,
         Owes(req.checkpoint, pending, f)
  PROVE  Yields(ResetOutcome(req, f, f.identity, pending, fault, saw), req.checkpoint, f)
<1> DEFINE force == pending = "windows1252"
           ck == snapshot_bytes(f, req.checkpoint.next_id, force, f.identity)
           out == ResetOutcome(req, f, f.identity, pending, fault, saw)
<1>1. req.checkpoint.next_id \in Nat
  BY DEF Worker, Checkpoint
<1>2. CASE force /\ f.identity # req.checkpoint.identity
  <2>1. ~out.install /\ out.pending = pending
    BY <1>2 DEF ResetOutcome, GapOutcome
  <2> QED BY <2>1 DEF Yields
<1>3. CASE ~(force /\ f.identity # req.checkpoint.identity)
  <2>1. force => HighIn(f, Len(f.data))
    BY <1>3 DEF Owes
  <2>2. Parity(ck, f)
    <3> HIDE DEF ck
    <3>1. force \in BOOLEAN /\ ck = snapshot_bytes(f, req.checkpoint.next_id, force, f.identity)
      BY DEF ck
    <3> HIDE DEF force
    <3> QED BY <1>1, <2>1, <3>1, SnapshotHasParity
  <2>3. \/ out.install /\ out.checkpoint = ck /\ out.pending = "none"
        \/ ~out.install /\ out.pending = pending
    BY DEF ResetOutcome, GapOutcome
  <2> HIDE DEF ck, out
  <2>4. Yields(out, req.checkpoint, f)
    BY <2>2, <2>3 DEF Yields
  <2> QED BY <2>4 DEF out
<1> QED BY <1>2, <1>3

\* Every read has parity with the file it reads, or owes only what is needed (read_candidate).
LEMMA ReadYields ==
  ASSUME NEW req \in Worker, NEW f \in FileType, f.identity = f.gen, NEW fault \in Fault,
         Parity(req.checkpoint, f), Owes(req.checkpoint, req.pending, f)
  PROVE  Yields(read_candidate(req, f, f.identity, fault), req.checkpoint, f)
<1> DEFINE ck == req.checkpoint
           saw == NewGeneration(ck, f, f.identity)
           pending == IF saw THEN "generation" ELSE req.pending
           units == AppendUnits(ck, f)
           out == read_opened(req, f, f.identity, pending, fault, saw)
<1>1. ck \in Checkpoint /\ req.pending \in Transition
  BY DEF Worker
<1>2. ck.raw_offset \in Nat /\ Len(f.data) \in Nat /\ f.gen \in Nat
  BY <1>1, FileAssumption DEF Checkpoint, FileType
<1>3. saw \in BOOLEAN
  BY DEF NewGeneration, identities_differ
<1>4. pending \in Transition /\ "windows1252" \in Transition
  BY <1>1 DEF Transition
<1>5. pending = "none" => ck.raw_offset <= Len(f.data) /\ ck.identity = f.gen
  <2>1. ck.identity # None /\ f.identity # None
    BY <1>2 DEF Parity, None
  <2> QED BY <1>2, <2>1 DEF NewGeneration, identities_differ
<1>6. Owes(ck, pending, f)
  BY DEF Owes
<1>7. \A p, reason, b : Owes(ck, p, f) => Yields(GapOutcome(req, p, reason, b), ck, f)
  BY DEF GapOutcome, Yields
<1>8. \A p \in Transition :
        Owes(ck, p, f) => Yields(ResetOutcome(req, f, f.identity, p, fault, saw), ck, f)
  <2> HIDE DEF saw
  <2> QED BY <1>3, ResetYields
<1>9. pending = "none" /\ ~Refused(ck.enc, units) => Yields(AppendOutcome(ck, f), ck, f)
  <2>1. Parity(ck, f)
    OBVIOUS
  <2>2. AppendOutcome(ck, f).install /\ AppendOutcome(ck, f).pending = "none"
    BY DEF AppendOutcome
  <2> HIDE DEF pending, ck
  <2>3. pending = "none" /\ ~Refused(ck.enc, units) => Parity(AppendOutcome(ck, f).checkpoint, f)
    BY <1>1, <1>5, <2>1, AppendHasParity
  <2> QED BY <2>2, <2>3 DEF Yields
<1>10. pending = "none" /\ Refused(ck.enc, units) => Owes(ck, "windows1252", f)
  <2> SUFFICES ASSUME pending = "none", Refused(ck.enc, units)
               PROVE  HighIn(f, Len(f.data))
    BY DEF Owes
  <2> HIDE DEF pending, ck, units
  <2>1. units = AppendUnits(ck, f)
    BY DEF units
  <2>2. /\ Len(units) \in Nat /\ DOMAIN units = 1..Len(units)
        /\ ck.raw_offset + Len(units) <= Len(f.data)
        /\ \A i \in 1..Len(units) : units[i] = f.data[ck.raw_offset + i]
    BY <1>1, <1>5, <2>1, AppendUnitsAre
  <2>3. PICK i \in 1..Len(units) : units[i] = "high"
    BY <2>2 DEF Refused, Highs
  <2>4. ck.raw_offset + i \in 1..Len(f.data)
    BY <1>2, <2>2
  <2> QED BY <2>2, <2>3, <2>4 DEF HighIn
<1>11. Yields(out, ck, f)
  <2>1. \/ out = ResetOutcome(req, f, f.identity, pending, fault, saw)
        \/ out = GapOutcome(req, pending, "read_failed", saw)
        \/ pending = "none" /\ ~Refused(ck.enc, units) /\ out = AppendOutcome(ck, f)
        \/ out = GapOutcome(req, pending, "invalid_encoding", saw)
        \/ /\ pending = "none" /\ Refused(ck.enc, units)
           /\ out = ResetOutcome(req, f, f.identity, "windows1252", fault, saw)
    <3>1. Explicit(ck, f, units) \in BOOLEAN
      BY <1>1 DEF Explicit, Checkpoint, FileType
    <3> HIDE DEF pending, saw
    <3> QED BY <3>1 DEF read_opened
  <2> HIDE DEF pending, saw, out, ck, units
  <2> QED BY <1>4, <1>6, <1>7, <1>8, <1>9, <1>10, <2>1
<1> QED BY <1>7, <1>11 DEF read_candidate

\* What other programs write, by appending or by a new file, takes parity from no checkpoint.
LEMMA FileKeepsParity ==
  ASSUME NEW f \in FileType, NEW g \in FileType,
         \/ g.gen = f.gen /\ \E u \in Unit : g.data = Append(f.data, u)
         \/ g.gen = f.gen + 1
  PROVE  /\ \A ck \in Checkpoint : Parity(ck, f) => Parity(ck, g)
         /\ \A ck \in Checkpoint : \A p :
              Parity(ck, f) /\ Owes(ck, p, f) => Owes(ck, p, g)
         /\ \A out \in Outcome, ck \in Checkpoint :
              Parity(ck, f) /\ Yields(out, ck, f) => Yields(out, ck, g)
<1>1. /\ f.data \in Seq(Unit) /\ Len(f.data) \in Nat /\ f.gen \in Nat /\ g.gen \in Nat
  BY FileAssumption DEF FileType
<1>2. \A ck : Parity(ck, f) => ck.identity \in 1..g.gen /\ (g.gen # f.gen => ck.identity # g.gen)
  BY <1>1 DEF Parity
<1>3. ASSUME g.gen = f.gen
      PROVE  /\ Len(f.data) <= Len(g.data)
             /\ \A n \in 0..Len(f.data) : HighIn(g, n) <=> HighIn(f, n)
             /\ HighIn(f, Len(f.data)) => HighIn(g, Len(g.data))
  <2>1. PICK u \in Unit : g.data = Append(f.data, u)
    BY <1>1, <1>3
  <2>2. Len(g.data) = Len(f.data) + 1 /\ \A i \in 1..Len(f.data) : g.data[i] = f.data[i]
    BY <1>1, <2>1, AppendProperties
  <2>3. \A n \in 0..Len(f.data) : \A i \in 1..n : i \in 1..Len(f.data)
    BY <1>1
  <2>4. \A n \in 0..Len(f.data) : HighIn(g, n) <=> HighIn(f, n)
    BY <2>2, <2>3 DEF HighIn
  <2>5. HighIn(f, Len(f.data)) => HighIn(g, Len(g.data))
    <3>1. \A i \in 1..Len(f.data) : i \in 1..Len(g.data)
      BY <1>1, <2>2
    <3> QED BY <2>2, <3>1 DEF HighIn
  <2> QED BY <1>1, <2>2, <2>4, <2>5
<1>4. ASSUME NEW ck \in Checkpoint, Parity(ck, f)
      PROVE  Parity(ck, g)
  <2>1. CASE g.gen = f.gen
    <3>1. ck.raw_offset \in Nat
      BY DEF Checkpoint
    <3>2. ck.identity = g.gen => ck.raw_offset \in 0..Len(f.data)
      BY <1>1, <1>4, <2>1, <3>1 DEF Parity
    <3>3. ck.identity = g.gen =>
            /\ ck.raw_offset <= Len(g.data)
            /\ HighIn(g, ck.raw_offset) <=> HighIn(f, ck.raw_offset)
      <4>1. Len(g.data) \in Nat
        BY DEF FileType
      <4> QED BY <1>1, <1>3, <2>1, <3>1, <3>2, <4>1
    <3> QED BY <1>4, <2>1, <3>3 DEF Parity
  <2>2. CASE g.gen # f.gen
    BY <1>2, <1>4, <2>2 DEF Parity
  <2> QED BY <2>1, <2>2
<1>5. ASSUME NEW ck \in Checkpoint, NEW p, Parity(ck, f), Owes(ck, p, f)
      PROVE  Owes(ck, p, g)
  BY <1>2, <1>3, <1>5 DEF Owes
<1>6. ASSUME NEW out \in Outcome, NEW ck \in Checkpoint, Parity(ck, f), Yields(out, ck, f)
      PROVE  Yields(out, ck, g)
  <2>1. out.checkpoint \in Checkpoint
    BY DEF Outcome
  <2> QED BY <1>4, <1>5, <1>6, <2>1 DEF Yields
<1> QED BY <1>4, <1>5, <1>6

\* Every step keeps the parity of every checkpoint, unless the file is emptied in place or its
\* identity cannot be read: one case per action.
LEMMA ParityStep ==
  ASSUME ~IdentityMayFail, "truncate" \notin Writers
  PROVE  TypeOK /\ FreshIsCommitted /\ ParityInv /\ [Next]_backend => ParityInv'
<1> DEFINE Sound(w, f) == /\ w.pc \in {"read", "commit"} => /\ Parity(w.checkpoint, f)
                                                            /\ Owes(w.checkpoint, w.pending, f)
                          /\ w.pc = "commit" => Yields(w.outcome, w.checkpoint, f)
<1> SUFFICES ASSUME TypeOK, FreshIsCommitted, ParityInv, [Next]_backend PROVE ParityInv'
  OBVIOUS
<1>0. /\ worker \in [Token -> Worker] /\ owner \in OwnerType /\ file \in FileType
      /\ opening \subseteq Checkpoint /\ owner.checkpoint \in Checkpoint
      /\ file.gen = file.identity /\ Identities(file) = {file.gen}
  BY DEF TypeOK, OwnerType, ParityInv, Identities
<1>1. /\ Parity(owner.checkpoint, file) /\ Owes(owner.checkpoint, owner.pending, file)
      /\ \A ck \in opening : Parity(ck, file)
      /\ \A t \in Token : Sound(worker[t], file)
  BY DEF ParityInv
<1>2. ASSUME Parity(owner'.checkpoint, file), Owes(owner'.checkpoint, owner'.pending, file),
             \A ck \in opening' : Parity(ck, file), file' = file,
             \A t \in Token : Sound(worker'[t], file)
      PROVE  ParityInv'
  BY <1>0, <1>2 DEF ParityInv
<1> HIDE DEF Sound
<1>3. ASSUME owner'.checkpoint = owner.checkpoint, owner'.pending = owner.pending,
             opening' = opening, file' = file, \A t \in Token : Sound(worker'[t], file)
      PROVE  ParityInv'
  BY <1>1, <1>2, <1>3
<1>4. BumpRevision(worker) \in [Token -> Worker]
      /\ \A t \in Token : Sound(BumpRevision(worker)[t], file)
  BY <1>0, <1>1, BumpType DEF Sound
<1>5. \A pc \in {"loop", "exited"} : Sound(Idle(pc), file)
  BY DEF Idle, Sound
<1>6. ASSUME FileStep
      PROVE  ParityInv'
  <2>1. /\ UNCHANGED <<owner, opening, worker>>
        /\ file' \in FileType /\ file'.identity = file'.gen
        /\ \/ file'.gen = file.gen /\ \E u \in Unit : file'.data = Append(file.data, u)
           \/ file'.gen = file.gen + 1
    <3>1. file' \in FileType
      BY NextType DEF TypeOK
    <3>2. CASE \E u \in Unit : Write(u)
      BY <1>0, <3>1, <3>2 DEF Write, FileType
    <3>3. CASE \E data \in Contents, bom \in Boms : Replace(data, bom)
      BY <1>0, <3>1, <3>3 DEF Replace
    <3>4. ~Truncate
      BY DEF Truncate
    <3> QED BY <1>6, <3>2, <3>3, <3>4 DEF FileStep
  <2>2. /\ \A ck \in Checkpoint : Parity(ck, file) => Parity(ck, file')
        /\ \A ck \in Checkpoint : \A p :
             Parity(ck, file) /\ Owes(ck, p, file) => Owes(ck, p, file')
        /\ \A out \in Outcome, ck \in Checkpoint :
             Parity(ck, file) /\ Yields(out, ck, file) => Yields(out, ck, file')
    BY <1>0, <2>1, FileKeepsParity
  <2>3. \A t \in Token : Sound(worker[t], file')
    <3> SUFFICES ASSUME NEW t \in Token PROVE Sound(worker[t], file')
      OBVIOUS
    <3>1. worker[t].checkpoint \in Checkpoint /\ worker[t].outcome \in Outcome
      BY <1>0 DEF Worker
    <3>2. Sound(worker[t], file)
      BY <1>1
    <3> QED BY <2>2, <3>1, <3>2 DEF Sound
  <2>4. /\ Parity(owner.checkpoint, file') /\ Owes(owner.checkpoint, owner.pending, file')
        /\ \A ck \in opening : Parity(ck, file')
    BY <1>0, <1>1, <2>2
  <2> QED BY <2>1, <2>3, <2>4 DEF ParityInv, Sound
<1>7. ASSUME open_log_file
      PROVE  ParityInv'
  <2>1. PICK ck \in opening : owner' = NewOwner(owner.session + 1, ck)
    BY <1>7 DEF open_log_file
  <2>2. owner'.checkpoint = ck /\ owner'.pending = "none"
    BY <2>1 DEF NewOwner
  <2> QED BY <1>1, <1>2, <1>4, <1>7, <2>2 DEF open_log_file, Owes
<1>8. ASSUME parse_file
      PROVE  ParityInv'
  <2>1. opening' = {snapshot_bytes(file, 0, FALSE, file.identity)}
    BY <1>0, <1>8 DEF parse_file
  <2> DEFINE ck == snapshot_bytes(file, 0, FALSE, file.identity)
  <2>2. Parity(ck, file)
    BY <1>0, SnapshotHasParity
  <2> QED BY <1>1, <1>2, <1>8, <2>1, <2>2 DEF parse_file
<1>9. ASSUME open_log_file_fails
      PROVE  ParityInv'
  BY <1>1, <1>3, <1>9 DEF open_log_file_fails
<1>10. ASSUME NEW t \in Token, admit_tail_start(t)
       PROVE  ParityInv'
  <2>1. owner'.checkpoint = owner.checkpoint /\ owner'.pending = owner.pending
    BY <1>0, <1>10 DEF admit_tail_start, start, OwnerType
  <2>2. \A s \in Token : Sound(worker'[s], file)
    BY <1>4, <1>5, <1>10 DEF admit_tail_start
  <2> QED BY <1>3, <1>10, <2>1, <2>2 DEF admit_tail_start
<1>11. ASSUME NEW t \in Token, admit_tail_start_fails(t)
       PROVE  ParityInv'
  <2>1. owner'.checkpoint = owner.checkpoint /\ owner'.pending = owner.pending
    BY <1>0, <1>11 DEF admit_tail_start_fails, start, stop, OwnerType
  <2> QED BY <1>3, <1>4, <1>11, <2>1 DEF admit_tail_start_fails
<1>12. ASSUME NEW t \in Token, stop_tail(t)
       PROVE  ParityInv'
  <2>1. owner'.checkpoint = owner.checkpoint /\ owner'.pending = owner.pending
    BY <1>0, <1>12 DEF stop_tail, stop, OwnerType
  <2> QED BY <1>3, <1>4, <1>12, <2>1 DEF stop_tail
<1>13. ASSUME NEW t \in Token, NEW paused \in BOOLEAN, set_paused(t, paused)
       PROVE  ParityInv'
  <2>1. owner'.checkpoint = owner.checkpoint /\ owner'.pending = owner.pending
    BY <1>0, <1>13 DEF set_paused, OwnerType
  <2> QED BY <1>3, <1>4, <1>13, <2>1 DEF set_paused
<1>14. ASSUME NEW t \in Token, worker_exit(t)
       PROVE  ParityInv'
  <2>1. \A s \in Token : Sound(worker'[s], file)
    BY <1>0, <1>1, <1>5, <1>14 DEF worker_exit
  <2> QED BY <1>3, <1>14, <2>1 DEF worker_exit
<1>15. ASSUME NEW t \in Token, worker_request(t)
       PROVE  ParityInv'
  <2>1. /\ worker'[t].pc = "read" /\ worker'[t].checkpoint = owner.checkpoint
        /\ worker'[t].pending = owner.pending
        /\ \A s \in Token \ {t} : worker'[s] = worker[s]
    BY <1>0, <1>15 DEF worker_request
  <2>2. \A s \in Token : Sound(worker'[s], file)
    BY <1>1, <2>1 DEF Sound
  <2> QED BY <1>3, <1>15, <2>2 DEF worker_request
<1>16. ASSUME NEW t \in Token, NEW fault \in Fault, worker_read(t, fault)
       PROVE  ParityInv'
  <2> DEFINE out == read_candidate(worker[t], file, file.identity, fault)
  <2>1. worker' = [worker EXCEPT ![t].pc = "commit", ![t].outcome = out]
    BY <1>0, <1>16 DEF worker_read
  <2>2. worker[t] \in Worker /\ worker[t].pc = "read"
    BY <1>0, <1>16 DEF worker_read
  <2>3. Parity(worker[t].checkpoint, file) /\ Owes(worker[t].checkpoint, worker[t].pending, file)
    BY <1>1, <2>2 DEF Sound
  <2>4. Yields(out, worker[t].checkpoint, file)
    BY <1>0, <2>2, <2>3, ReadYields
  <2> HIDE DEF out
  <2>5. /\ worker'[t].checkpoint = worker[t].checkpoint /\ worker'[t].outcome = out
        /\ worker'[t].pending = worker[t].pending
        /\ \A s \in Token \ {t} : worker'[s] = worker[s]
    BY <1>0, <2>1 DEF Worker
  <2>6. \A s \in Token : Sound(worker'[s], file)
    BY <1>1, <2>3, <2>4, <2>5 DEF Sound
  <2> QED BY <1>3, <1>16, <2>6 DEF worker_read
<1>17. ASSUME NEW t \in Token, worker_commit(t)
       PROVE  ParityInv'
  <2> DEFINE out == worker[t].outcome
  <2>1. CASE Accepts(owner, worker[t], t)
    <3>1. /\ owner' = commit(owner, out) /\ opening' = opening /\ file' = file
          /\ worker' = [BumpRevision(worker) EXCEPT ![t] = Idle("loop")]
      BY <1>17, <2>1 DEF worker_commit
    <3>2. /\ owner'.checkpoint = IF out.install THEN out.checkpoint ELSE owner.checkpoint
          /\ owner'.pending = out.pending
      BY <1>0, <3>1 DEF commit, OwnerType
    <3>3. Yields(out, owner.checkpoint, file)
      <4>1. worker[t].checkpoint = owner.checkpoint
        BY <2>1 DEF Accepts, FreshIsCommitted
      <4>2. Yields(out, worker[t].checkpoint, file)
        BY <1>1, <1>17 DEF worker_commit, Sound
      <4> QED BY <4>1, <4>2
    <3>4. \A s \in Token : Sound(worker'[s], file)
      BY <1>4, <1>5, <3>1
    <3>5. Parity(owner'.checkpoint, file) /\ Owes(owner'.checkpoint, owner'.pending, file)
      <4>1. CASE out.install
        BY <3>2, <3>3, <4>1 DEF Yields, Owes
      <4>2. CASE ~out.install
        BY <1>1, <3>2, <3>3, <4>2 DEF Yields
      <4> QED BY <4>1, <4>2
    <3> QED BY <1>1, <1>2, <3>1, <3>4, <3>5
  <2>2. CASE ~Accepts(owner, worker[t], t)
    <3>1. \A s \in Token : Sound(worker'[s], file)
      BY <1>0, <1>1, <1>5, <1>17, <2>2 DEF worker_commit
    <3> QED BY <1>3, <1>17, <2>2, <3>1 DEF worker_commit
  <2> QED BY <2>1, <2>2
<1>18. ASSUME UNCHANGED backend
       PROVE  ParityInv'
  BY <1>1, <1>3, <1>18 DEF backend
<1> QED
  BY <1>6, <1>7, <1>8, <1>9, <1>10, <1>11, <1>12, <1>13, <1>14, <1>15, <1>16, <1>17, <1>18
  DEF Next, CommandStep, WorkerStep

\* As long as nobody empties the file in place and its identity can be read, a checkpoint holds rows
\* of one file, and once it has consumed the present one its encoding is the one a fresh open
\* chooses: the snapshot and the chunked stream converge (read_candidate, snapshot_bytes).
THEOREM ParityHolds ==
  ASSUME ~IdentityMayFail, "truncate" \notin Writers
  PROVE  Spec => []SnapshotParity
<1>1. Init => ParityInv
  <2> SUFFICES ASSUME Init PROVE ParityInv
    OBVIOUS
  <2>1. file \in FileType /\ file.identity = file.gen /\ Identities(file) = {file.identity}
    <3>1. file \in FileType
      BY InitType DEF TypeOK
    <3>2. file.identity = file.gen
      BY DEF Init
    <3> QED BY <3>1, <3>2 DEF Identities
  <2>2. owner = NewOwner(1, snapshot_bytes(file, 0, FALSE, file.identity))
    BY <2>1 DEF Init
  <2> DEFINE ck == snapshot_bytes(file, 0, FALSE, file.identity)
  <2>3. Parity(ck, file)
    BY <2>1, SnapshotHasParity
  <2>4. owner.checkpoint = ck /\ owner.pending = "none"
    BY <2>2 DEF NewOwner
  <2>5. opening = {} /\ \A t \in Token : worker[t].pc = "unborn"
    BY DEF Init, Idle
  <2> HIDE DEF ck
  <2> QED BY <2>1, <2>3, <2>4, <2>5 DEF ParityInv, Owes
<1>2. TypeOK /\ ParityInv => SnapshotParity
  <2> SUFFICES ASSUME TypeOK, ParityInv PROVE SnapshotParity
    OBVIOUS
  <2> DEFINE ck == owner.checkpoint
  <2>1. /\ ck.rows \in Seq(Row) /\ file.data \in Seq(Unit) /\ Len(file.data) \in Nat
        /\ Parity(ck, file) /\ file.identity = file.gen
    BY DEF TypeOK, OwnerType, Checkpoint, FileType, ParityInv
  <2>2. \A i \in DOMAIN ck.rows : 1 \in DOMAIN ck.rows
    BY <2>1
  <2>3. \A i \in DOMAIN ck.rows : ck.rows[i].gen = ck.rows[1].gen
    BY <2>1, <2>2 DEF Parity
  <2>4. ASSUME ck.identity = file.identity, ck.raw_offset = Len(file.data)
        PROVE  ck.enc = SnapshotEncoding(file, FALSE)
    <3>1. Highs(file.data) <=> HighIn(file, Len(file.data))
      BY <2>1, LenProperties DEF Highs, HighIn
    <3>2. file.data = <<>> <=> Len(file.data) = 0
      BY <2>1
    <3>3. ck.enc \in {"undetermined", "utf8", "windows1252"}
      BY DEF TypeOK, OwnerType, Checkpoint, Encoding
    <3>4. /\ ck.enc = "undetermined" <=> Len(file.data) = 0
          /\ ck.enc = "windows1252" <=> HighIn(file, Len(file.data))
      BY <2>1, <2>4 DEF Parity
    <3> QED BY <3>1, <3>2, <3>3, <3>4 DEF SnapshotEncoding, Refused, Resolved
  <2>5. ck.identity = file.identity => \A i \in DOMAIN ck.rows : ck.rows[i].gen = file.gen
    BY <2>1 DEF Parity
  <2> QED BY <2>3, <2>4, <2>5 DEF SnapshotParity
<1>3. Init => FreshIsCommitted
  BY DEF Init, FreshIsCommitted, Idle
<1> QED BY <1>1, <1>2, <1>3, ParityStep, FenceStep, TypeCorrect, PTL DEF Spec

----------------------------------------------------------------------------
(* What a queue holds *)

\* Appending and joining add what they are given.
LEMMA ElementsJoin ==
  ASSUME NEW S, NEW s \in Seq(S), NEW t \in Seq(S)
  PROVE  /\ Elements(s \o t) = Elements(s) \cup Elements(t)
         /\ \A x \in S : Elements(Append(s, x)) = Elements(s) \cup {x}
<1>1. /\ Len(s) \in Nat /\ DOMAIN s = 1..Len(s)
      /\ Len(t) \in Nat /\ DOMAIN t = 1..Len(t)
  OBVIOUS
<1>2. /\ DOMAIN (s \o t) = 1..(Len(s) + Len(t))
      /\ \A i \in 1..(Len(s) + Len(t)) :
           (s \o t)[i] = IF i <= Len(s) THEN s[i] ELSE t[i - Len(s)]
  BY ConcatProperties, <1>1
<1>3. \A x \in S :
        /\ DOMAIN Append(s, x) = 1..(Len(s) + 1)
        /\ \A i \in 1..Len(s) : Append(s, x)[i] = s[i]
        /\ Append(s, x)[Len(s) + 1] = x
  BY AppendProperties, <1>1
<1>4. ASSUME NEW y \in Elements(s) \cup Elements(t)
      PROVE  y \in Elements(s \o t)
  <2>1. CASE y \in Elements(s)
    <3>1. PICK i \in 1..Len(s) : y = s[i]
      BY <1>1, <2>1 DEF Elements
    <3>2. i \in 1..(Len(s) + Len(t)) /\ i <= Len(s)
      BY <1>1
    <3> QED BY <1>2, <3>1, <3>2 DEF Elements
  <2>2. CASE y \in Elements(t)
    <3>1. PICK i \in 1..Len(t) : y = t[i]
      BY <1>1, <2>2 DEF Elements
    <3>2. /\ Len(s) + i \in 1..(Len(s) + Len(t)) /\ ~(Len(s) + i <= Len(s))
          /\ Len(s) + i - Len(s) = i
      BY <1>1
    <3>3. (s \o t)[Len(s) + i] = y
      BY <1>2, <3>1, <3>2
    <3> QED BY <1>2, <3>2, <3>3 DEF Elements
  <2> QED BY <2>1, <2>2
<1>5. ASSUME NEW y \in Elements(s \o t)
      PROVE  y \in Elements(s) \cup Elements(t)
  <2>1. PICK i \in 1..(Len(s) + Len(t)) : y = (s \o t)[i]
    BY <1>2 DEF Elements
  <2>2. CASE i <= Len(s)
    <3>1. i \in 1..Len(s)
      BY <1>1, <2>2
    <3> QED BY <1>1, <1>2, <2>1, <2>2, <3>1 DEF Elements
  <2>3. CASE ~(i <= Len(s))
    <3>1. i - Len(s) \in 1..Len(t)
      BY <1>1, <2>3
    <3> QED BY <1>1, <1>2, <2>1, <2>3, <3>1 DEF Elements
  <2> QED BY <2>2, <2>3
<1>6. ASSUME NEW x \in S
      PROVE  Elements(Append(s, x)) = Elements(s) \cup {x}
  <2>1. 1..(Len(s) + 1) = 1..Len(s) \cup {Len(s) + 1}
    BY <1>1
  <2>2. \A i \in 1..Len(s) : i \in DOMAIN Append(s, x)
    BY <1>3, <2>1
  <2>3. ASSUME NEW y \in Elements(Append(s, x))
        PROVE  y \in Elements(s) \cup {x}
    BY <1>1, <1>3, <2>1 DEF Elements
  <2>4. ASSUME NEW y \in Elements(s) \cup {x}
        PROVE  y \in Elements(Append(s, x))
    BY <1>1, <1>3, <2>1, <2>2 DEF Elements
  <2> QED BY <2>3, <2>4
<1> QED BY <1>4, <1>5, <1>6

\* A queue without the element at one place (handleCommand).
Without(s, i) == SubSeq(s, 1, i - 1) \o SubSeq(s, i + 1, Len(s))

\* It keeps every other element.
LEMMA ElementsRemove ==
  ASSUME NEW S, NEW s \in Seq(S), NEW i \in DOMAIN s
  PROVE  /\ Without(s, i) \in Seq(S) /\ Elements(Without(s, i)) \subseteq Elements(s)
         /\ \A x \in Elements(s) : x # s[i] => x \in Elements(Without(s, i))
<1> DEFINE front == SubSeq(s, 1, i - 1)
           back == SubSeq(s, i + 1, Len(s))
           r == Without(s, i)
<1>1. Len(s) \in Nat /\ DOMAIN s = 1..Len(s) /\ i \in 1..Len(s)
  OBVIOUS
<1>2. /\ front \in Seq(S) /\ DOMAIN front = 1..(i - 1)
      /\ \A j \in 1..(i - 1) : front[j] = s[j]
  <2>1. \A j \in 1..(i - 1) : 1 + j - 1 = j
    BY <1>1
  <2>2. front \in Seq(S)
    BY <1>1
  <2>3. Len(front) = i - 1 /\ \A j \in 1..(i - 1) : front[j] = s[1 + j - 1]
    BY <1>1, SubSeqProperties
  <2> QED BY <2>1, <2>2, <2>3
<1>3. /\ back \in Seq(S) /\ DOMAIN back = 1..(Len(s) - i)
      /\ \A j \in 1..(Len(s) - i) : back[j] = s[i + j]
  <2>1. \A j \in 1..(Len(s) - i) : i + 1 + j - 1 = i + j
    BY <1>1
  <2>2. back \in Seq(S)
    BY <1>1
  <2>3. Len(back) = Len(s) - i /\ \A j \in 1..(Len(s) - i) : back[j] = s[i + 1 + j - 1]
    BY <1>1, SubSeqProperties
  <2> QED BY <1>1, <2>1, <2>2, <2>3
<1> HIDE DEF front, back
<1>4. r = front \o back /\ r \in Seq(S) /\ Elements(r) = Elements(front) \cup Elements(back)
  <2>1. r = front \o back
    BY DEF front, back, Without
  <2>2. front \in Seq(S) /\ back \in Seq(S)
    BY <1>2, <1>3
  <2>3. Elements(front \o back) = Elements(front) \cup Elements(back)
    BY <2>2, ElementsJoin
  <2>4. front \o back \in Seq(S)
    BY <2>2, ConcatProperties
  <2> QED BY <2>1, <2>3, <2>4
<1>5. Elements(front) \subseteq Elements(s)
  <2>1. \A j \in 1..(i - 1) : j \in DOMAIN s
    BY <1>1
  <2> QED BY <1>2, <2>1 DEF Elements
<1>6. Elements(back) \subseteq Elements(s)
  <2>1. \A j \in 1..(Len(s) - i) : i + j \in DOMAIN s
    BY <1>1
  <2> QED BY <1>3, <2>1 DEF Elements
<1>7. ASSUME NEW x \in Elements(s), x # s[i]
      PROVE  x \in Elements(front) \cup Elements(back)
  <2>1. PICK j \in 1..Len(s) : x = s[j] /\ j # i
    BY <1>1, <1>7 DEF Elements
  <2>2. CASE j < i
    <3>1. j \in 1..(i - 1)
      BY <1>1, <2>2
    <3> QED BY <1>2, <2>1, <3>1 DEF Elements
  <2>3. CASE j > i
    <3>1. j - i \in 1..(Len(s) - i) /\ i + (j - i) = j
      BY <1>1, <2>3
    <3> QED BY <1>3, <2>1, <3>1 DEF Elements
  <2> QED BY <1>1, <2>1, <2>2, <2>3
<1> QED BY <1>4, <1>5, <1>6, <1>7

----------------------------------------------------------------------------
(* Types *)

\* The type invariant and what it needs to be kept: a source has always had a watch, and a snapshot
\* is being parsed only for a load.
WatchTypesInv ==
  /\ WatchTypeOK
  /\ source.epoch >= 1
  /\ commands \in Seq(Command) /\ events \in Seq(Event)
  /\ opening # {} => parsing # 0
  /\ \A reply \in opened : reply.rows \subseteq Row

\* A control names a watch, and a watch that begins has a token.
LEMMA BeginTypes ==
  /\ \A op \in {"start", "stop", "pause", "resume"}, t \in Token : Control(op, t) \in Command
  /\ \A t \in Token : PauseControl(t) \in Command
  /\ \A tokens : tokens \subseteq Token => CleanupCommands(tokens) \in Seq(Command)
  /\ \A session \in 1..MaxSession :
       LET s == [session |-> session, epoch |-> 0, active |-> FALSE]
       IN s \in Source /\ CanBegin(s)
  /\ \A s \in Source :
       /\ Begin(s) \in Source /\ Begin(s).session = s.session
       /\ s.epoch >= 1 \/ CanBegin(s) => Begin(s).epoch >= 1
       /\ CanBegin(s) => Begin(s).active
       /\ Mounted(s) = IF CanBegin(s) THEN {SourceToken(Begin(s))} ELSE {}
       /\ Mounted(s) \subseteq Token
       /\ WatchCommands(s) \in Seq(Command)
<1>1. \A op \in {"start", "stop", "pause", "resume"}, t \in Token : Control(op, t) \in Command
  BY DEF Control, Command
<1>2. \A t \in Token : PauseControl(t) \in Command
  BY <1>1 DEF PauseControl
<1>3. ASSUME NEW tokens, tokens \subseteq Token
      PROVE  CleanupCommands(tokens) \in Seq(Command)
  <2>1. CASE tokens = {}
    BY <2>1 DEF CleanupCommands
  <2>2. CASE tokens # {}
    <3>1. (CHOOSE t \in tokens : TRUE) \in Token
      BY <1>3, <2>2
    <3>2. Control("stop", CHOOSE t \in tokens : TRUE) \in Command
      BY <1>1, <3>1
    <3> QED BY <2>2, <3>2 DEF CleanupCommands
  <2> QED BY <2>1, <2>2
<1>4. ASSUME NEW session \in 1..MaxSession
      PROVE  LET s == [session |-> session, epoch |-> 0, active |-> FALSE]
             IN s \in Source /\ CanBegin(s)
  BY EpochAssumption DEF Source, CanBegin
<1>5. ASSUME NEW s \in Source
      PROVE  /\ Begin(s) \in Source /\ Begin(s).session = s.session
             /\ s.epoch >= 1 \/ CanBegin(s) => Begin(s).epoch >= 1
             /\ CanBegin(s) => Begin(s).active
             /\ Mounted(s) = IF CanBegin(s) THEN {SourceToken(Begin(s))} ELSE {}
             /\ Mounted(s) \subseteq Token
             /\ WatchCommands(s) \in Seq(Command)
  <2>1. s.epoch \in 0..MaxEpoch /\ s.session \in 1..MaxSession
    BY DEF Source
  <2>2. CASE CanBegin(s)
    <3>1. /\ Begin(s) = [s EXCEPT !.epoch = s.epoch + 1, !.active = TRUE]
          /\ s.epoch + 1 \in 1..MaxEpoch
      BY <2>1, <2>2, EpochAssumption DEF Begin, CanBegin
    <3>2. /\ Begin(s) \in Source /\ Begin(s).epoch = s.epoch + 1 /\ Begin(s).active
          /\ Begin(s).session = s.session
      <4>1. Begin(s) = [session |-> s.session, epoch |-> s.epoch + 1, active |-> TRUE]
        BY <3>1 DEF Source
      <4>2. s.epoch + 1 \in 0..MaxEpoch
        BY <3>1
      <4> QED BY <2>1, <4>1, <4>2 DEF Source
    <3>3. SourceToken(Begin(s)) \in Token
      BY <2>1, <3>1, <3>2 DEF SourceToken, Token
    <3>4. /\ Control("start", SourceToken(Begin(s))) \in Command
          /\ PauseControl(SourceToken(Begin(s))) \in Command
      BY <1>1, <1>2, <3>3
    <3>5. WatchCommands(s) \in Seq(Command)
      BY <2>2, <3>4 DEF WatchCommands
    <3> QED BY <2>1, <2>2, <3>2, <3>3, <3>5 DEF Mounted
  <2>3. CASE ~CanBegin(s)
    BY <2>3 DEF Begin, Mounted, WatchCommands
  <2> QED BY <2>2, <2>3
<1> QED BY <1>1, <1>2, <1>3, <1>4, <1>5

\* The commands on their way remain commands, whatever is sent.
LEMMA SendTypes ==
  ASSUME commands \in Seq(Command)
  PROVE  /\ \A new \in Seq(Command) : commands \o new \in Seq(Command)
         /\ \A new \in Command : Append(commands, new) \in Seq(Command)
  OBVIOUS

\* The source in the webview and its watch keep their types.
LEMMA SourceTyped ==
  WatchTypesInv /\ [WatchNext]_vars
    => source' \in Source /\ source'.epoch >= 1 /\ watch' \subseteq Token
<1> DEFINE Goal == source' \in Source /\ source'.epoch >= 1 /\ watch' \subseteq Token
<1> SUFFICES ASSUME WatchTypesInv, [WatchNext]_vars PROVE Goal
  OBVIOUS
<1>0. /\ source \in Source /\ source.epoch >= 1 /\ watch \subseteq Token
      /\ \A reply \in opened : reply.session \in 0..MaxSession
  BY DEF WatchTypesInv, WatchTypeOK
<1>1. UNCHANGED <<source, watch>> => Goal
  BY <1>0
<1>2. /\ [source EXCEPT !.active = FALSE] \in Source
      /\ [source EXCEPT !.active = FALSE].epoch >= 1
  BY <1>0 DEF Source
<1>3. Unmount => Goal
  BY <1>0, <1>2 DEF Unmount, endFirewallWatch
<1>4. ASSUME NEW s \in Source, s.epoch >= 1 \/ CanBegin(s), source' = Begin(s), watch' = Mounted(s)
      PROVE  Goal
  BY <1>4, BeginTypes
<1>5. CASE switchToTab
  BY <1>0, <1>1, <1>4, <1>5 DEF switchToTab
<1>6. CASE applyParseResult
  <2>1. PICK reply \in opened :
          LET fresh == [session |-> reply.session, epoch |-> 0, active |-> FALSE]
          IN reply.session # None /\ source' = Begin(fresh) /\ watch' = Mounted(fresh)
    BY <1>6 DEF applyParseResult
  <2>2. reply.session \in 1..MaxSession
    BY <1>0, <2>1 DEF None
  <2> QED BY <1>4, <2>1, <2>2, BeginTypes
<1>7. CASE switchToCachedTab \/ otherTabLoaded \/ loadFails
  BY <1>1, <1>3, <1>7 DEF switchToCachedTab, otherTabLoaded, loadFails
<1>8. CASE loadOtherTab
  BY <1>0, <1>2, <1>8 DEF loadOtherTab
<1>9. CASE firewallGone
  BY <1>0, <1>2, <1>9 DEF firewallGone
<1>10. ASSUME \/ refreshActiveSource \/ evictSnapshot \/ togglePause \/ otherTabFails
              \/ loadSelectedLogFile \/ dropReply \/ startResolved \/ applyFirewallTail
              \/ handleCommand \/ nativeInstall \/ (\E t \in Token : nativeWorker(t))
              \/ fileChanges \/ UNCHANGED vars
       PROVE  UNCHANGED <<source, watch>>
  BY <1>10
  DEF refreshActiveSource, evictSnapshot, togglePause, otherTabFails, loadSelectedLogFile,
      dropReply, startResolved, applyFirewallTail, handleCommand, nativeInstall, nativeWorker,
      fileChanges, vars, webview
<1> QED
  BY <1>1, <1>5, <1>6, <1>7, <1>8, <1>9, <1>10 DEF WatchNext, UserStep, WebviewStep, LoadStep

\* So do the commands on their way to the native side.
LEMMA CommandsTyped == WatchTypesInv /\ [WatchNext]_vars => commands' \in Seq(Command)
<1> DEFINE Goal == commands' \in Seq(Command)
<1> SUFFICES ASSUME WatchTypesInv, [WatchNext]_vars PROVE Goal
  OBVIOUS
<1>0. /\ source \in Source /\ source.epoch >= 1 /\ watch \subseteq Token
      /\ commands \in Seq(Command) /\ switches \in 0..MaxLoad
      /\ \A reply \in opened : reply.session \in 0..MaxSession
      /\ leaving \subseteq 1..MaxLoad /\ started \subseteq Token
  BY DEF WatchTypesInv, WatchTypeOK
<1>1. commands' = commands => Goal
  BY <1>0
<1>2. \A new \in Seq(Command) : commands' = commands \o new => Goal
  BY <1>0, SendTypes
<1>3. \A new \in Command : commands' = Append(commands, new) => Goal
  BY <1>0, SendTypes
<1>4. \A load \in 1..MaxLoad : [op |-> "open", load |-> load] \in Command
  BY DEF Command
<1>5. SourceToken(source) \in Token
  BY <1>0 DEF SourceToken, Source, Token
<1>6. switches < MaxLoad => switches + 1 \in 1..MaxLoad
  BY <1>0, UserAssumption
<1>7. CASE refreshActiveSource
  BY <1>3, <1>4, <1>6, <1>7 DEF refreshActiveSource
<1>8. Unmount => Goal
  BY <1>0, <1>2, BeginTypes DEF Unmount
<1>9. CASE switchToCachedTab \/ otherTabLoaded \/ loadFails
  BY <1>1, <1>8, <1>9 DEF switchToCachedTab, otherTabLoaded, loadFails
<1>10. CASE loadOtherTab
  <2>1. [op |-> "stop", token |-> SourceToken(source), load |-> switches'] \in Command
    BY <1>5, <1>6, <1>10 DEF loadOtherTab, Command
  <2> QED BY <1>1, <1>3, <1>10, <2>1 DEF loadOtherTab
<1>11. CASE switchToTab
  <2>1. WatchCommands(source) \in Seq(Command)
    BY <1>0, BeginTypes
  <2> QED BY <1>1, <1>2, <1>11, <2>1 DEF switchToTab
<1>12. CASE loadSelectedLogFile
  BY <1>0, <1>1, <1>3, <1>4, <1>12 DEF loadSelectedLogFile
<1>13. CASE applyParseResult
  <2>1. PICK reply \in opened :
          LET fresh == [session |-> reply.session, epoch |-> 0, active |-> FALSE]
          IN /\ reply.session # None
             /\ commands' = commands \o CleanupCommands(watch) \o WatchCommands(fresh)
    BY <1>13 DEF applyParseResult
  <2> DEFINE fresh == [session |-> reply.session, epoch |-> 0, active |-> FALSE]
  <2>2. fresh \in Source
    BY <1>0, <2>1, BeginTypes DEF None
  <2>3. CleanupCommands(watch) \in Seq(Command) /\ WatchCommands(fresh) \in Seq(Command)
    BY <1>0, <2>2, BeginTypes
  <2>4. commands \o CleanupCommands(watch) \in Seq(Command)
    BY <1>0, <2>3, SendTypes
  <2> HIDE DEF fresh
  <2>5. (commands \o CleanupCommands(watch)) \o WatchCommands(fresh) \in Seq(Command)
    BY <2>3, <2>4
  <2> QED BY <2>1, <2>5 DEF fresh
<1>14. CASE firewallGone
  BY <1>0, <1>2, <1>14, BeginTypes DEF firewallGone
<1>15. CASE togglePause
  <2>1. Control(IF isPaused THEN "resume" ELSE "pause", SourceToken(source)) \in Command
    BY <1>5, BeginTypes
  <2> QED BY <1>1, <1>3, <1>15, <2>1 DEF togglePause
<1>16. CASE startResolved
  BY <1>0, <1>1, <1>3, <1>16, BeginTypes DEF startResolved
<1>17. CASE handleCommand
  <2>1. PICK i \in DOMAIN commands :
          commands' = SubSeq(commands, 1, i - 1) \o SubSeq(commands, i + 1, Len(commands))
    BY <1>17 DEF handleCommand
  <2>2. commands' = Without(commands, i)
    BY <2>1 DEF Without
  <2> QED BY <1>0, <2>2, ElementsRemove
<1>18. ASSUME \/ evictSnapshot \/ otherTabFails \/ dropReply \/ applyFirewallTail
              \/ nativeInstall \/ (\E t \in Token : nativeWorker(t)) \/ fileChanges
              \/ UNCHANGED vars
       PROVE  commands' = commands
  BY <1>18
  DEF evictSnapshot, otherTabFails, dropReply, applyFirewallTail, nativeInstall, nativeWorker,
      fileChanges, vars, wires
<1> QED
  BY <1>1, <1>7, <1>9, <1>10, <1>11, <1>12, <1>13, <1>14, <1>15, <1>16, <1>17, <1>18
  DEF WatchNext, UserStep, WebviewStep, LoadStep

\* Every step of the composition is a step of the native side, or leaves it alone.
LEMMA StepIsNative == WatchTypesInv /\ [WatchNext]_vars => [Next]_backend
<1> SUFFICES ASSUME WatchTypesInv, [WatchNext]_vars PROVE [Next]_backend
  OBVIOUS
<1>1. CASE UNCHANGED vars
  BY <1>1 DEF vars
<1>2. ASSUME UserStep \/ WebviewStep
      PROVE  UNCHANGED backend
  BY <1>2 DEF UserStep, WebviewStep, LoadStep, refreshActiveSource, switchToCachedTab,
     loadOtherTab, switchToTab, evictSnapshot, togglePause, otherTabLoaded, otherTabFails,
     loadSelectedLogFile, applyParseResult, loadFails, firewallGone, dropReply, startResolved,
     applyFirewallTail
<1>3. CASE handleCommand
  <2>1. PICK i \in DOMAIN commands : \/ nativeOpen(commands[i]) \/ nativeStart(commands[i])
                                     \/ nativeStop(commands[i]) \/ nativePause(commands[i])
    BY <1>3 DEF handleCommand
  <2> DEFINE c == commands[i]
  <2>2. c \in Command
    BY DEF WatchTypesInv
  <2>3. c.op \in {"start", "stop", "pause", "resume"} => c.token \in Token
    BY <2>2 DEF Command
  <2>4. \A t \in Token : \A paused \in BOOLEAN :
          admit_tail_start(t) \/ admit_tail_start_fails(t) \/ stop_tail(t) \/ set_paused(t, paused)
            => Next
    BY DEF Next, CommandStep
  <2>5. CASE nativeOpen(c)
    BY <2>5 DEF nativeOpen, Next, CommandStep
  <2>6. CASE nativeStart(c)
    BY <2>3, <2>4, <2>6 DEF nativeStart
  <2>7. CASE nativeStop(c)
    BY <2>3, <2>4, <2>7 DEF nativeStop
  <2>8. CASE nativePause(c)
    <3>1. (c.op = "pause") \in BOOLEAN
      BY Zenon
    <3> QED BY <2>3, <2>4, <2>8, <3>1 DEF nativePause
  <2> QED BY <2>1, <2>5, <2>6, <2>7, <2>8
<1>4. CASE nativeInstall
  BY <1>4 DEF nativeInstall, Next, CommandStep
<1>5. CASE \E t \in Token : nativeWorker(t)
  BY <1>5 DEF nativeWorker, Next
<1>6. CASE fileChanges
  BY <1>6 DEF fileChanges, Next
<1> QED BY <1>1, <1>2, <1>3, <1>4, <1>5, <1>6 DEF WatchNext

\* The rest of what the webview keeps and of what is under way keeps its types.
LEMMA WebviewTyped ==
  WatchTypesInv /\ [WatchNext]_vars
    => /\ {shown', selected', cached', isPaused', isLoading'} \subseteq BOOLEAN
       /\ toggles' \in 0..MaxToggle /\ switches' \in 0..MaxLoad
       /\ (away' \cup leaving') \subseteq 1..MaxLoad
       /\ started' \subseteq Token
<1> SUFFICES ASSUME WatchTypesInv, [WatchNext]_vars
             PROVE  /\ {shown', selected', cached', isPaused', isLoading'} \subseteq BOOLEAN
                    /\ toggles' \in 0..MaxToggle /\ switches' \in 0..MaxLoad
                    /\ (away' \cup leaving') \subseteq 1..MaxLoad
                    /\ started' \subseteq Token
  OBVIOUS
<1>0. /\ shown \in BOOLEAN /\ selected \in BOOLEAN /\ cached \in BOOLEAN
      /\ isPaused \in BOOLEAN /\ isLoading \in BOOLEAN
  BY Zenon DEF WatchTypesInv, WatchTypeOK
<1>1. /\ toggles \in 0..MaxToggle /\ switches \in 0..MaxLoad
      /\ away \subseteq 1..MaxLoad /\ leaving \subseteq 1..MaxLoad /\ started \subseteq Token
      /\ commands \in Seq(Command)
  BY DEF WatchTypesInv, WatchTypeOK
<1>2. /\ shown' \in BOOLEAN /\ selected' \in BOOLEAN /\ cached' \in BOOLEAN
      /\ isPaused' \in BOOLEAN /\ isLoading' \in BOOLEAN
  <2>1. CASE UserStep
    BY <1>0, <2>1, Zenon
    DEF UserStep, refreshActiveSource, switchToCachedTab, Unmount, loadOtherTab, switchToTab,
        evictSnapshot, togglePause
  <2>2. CASE LoadStep
    BY <1>0, <2>2, Zenon
    DEF LoadStep, otherTabLoaded, otherTabFails, loadSelectedLogFile, applyParseResult, loadFails,
        firewallGone, dropReply, webview, Unmount
  <2>3. ASSUME \/ startResolved \/ applyFirewallTail \/ handleCommand \/ nativeInstall
               \/ (\E t \in Token : nativeWorker(t)) \/ fileChanges \/ UNCHANGED vars
        PROVE  UNCHANGED <<shown, selected, cached, isPaused, isLoading>>
    BY <2>3
    DEF startResolved, applyFirewallTail, handleCommand, nativeInstall, nativeWorker, fileChanges,
        vars, webview
  <2> QED BY <1>0, <2>1, <2>2, <2>3, Zenon DEF WatchNext, WebviewStep
<1>3. UserStep => toggles' \in 0..MaxToggle /\ switches' \in 0..MaxLoad
  <2>1. /\ toggles < MaxToggle => toggles + 1 \in 0..MaxToggle
        /\ switches < MaxLoad => switches + 1 \in 0..MaxLoad
    BY <1>1, UserAssumption
  <2> QED BY <1>1, <2>1
      DEF UserStep, refreshActiveSource, switchToCachedTab, loadOtherTab, switchToTab,
          evictSnapshot, togglePause
<1>4. UserStep => away' \subseteq 1..MaxLoad /\ leaving' \subseteq 1..MaxLoad /\ started' = started
  <2>1. switches < MaxLoad => switches + 1 \in 1..MaxLoad
    BY <1>1, UserAssumption
  <2> QED BY <1>1, <2>1
      DEF UserStep, refreshActiveSource, switchToCachedTab, loadOtherTab, switchToTab,
          evictSnapshot, togglePause, wires
<1>5. LoadStep => /\ toggles' = toggles /\ switches' = switches /\ started' = started
                  /\ away' \subseteq away /\ leaving' \subseteq leaving
  BY DEF LoadStep, otherTabLoaded, otherTabFails, loadSelectedLogFile, applyParseResult, loadFails,
     firewallGone, dropReply, webview, wires
<1>6. ASSUME \/ startResolved \/ applyFirewallTail \/ handleCommand \/ nativeInstall
             \/ (\E t \in Token : nativeWorker(t)) \/ fileChanges \/ UNCHANGED vars
      PROVE  UNCHANGED <<toggles, switches, away, leaving>>
  BY <1>6
  DEF startResolved, applyFirewallTail, handleCommand, nativeInstall, nativeWorker, fileChanges,
      vars, webview
<1>7. ASSUME \/ startResolved \/ applyFirewallTail \/ nativeInstall
             \/ (\E t \in Token : nativeWorker(t)) \/ fileChanges \/ UNCHANGED vars
      PROVE  started' \subseteq started
  BY <1>7
  DEF startResolved, applyFirewallTail, nativeInstall, nativeWorker, fileChanges, vars, wires
<1>8. handleCommand => started' \subseteq Token
  <2> SUFFICES ASSUME handleCommand PROVE started' \subseteq Token
    OBVIOUS
  <2>1. PICK i \in DOMAIN commands : \/ nativeOpen(commands[i]) \/ nativeStart(commands[i])
                                     \/ nativeStop(commands[i]) \/ nativePause(commands[i])
    BY DEF handleCommand
  <2>2. commands[i] \in Command
    BY <1>1
  <2>3. commands[i].op = "start" => commands[i].token \in Token
    BY <2>2 DEF Command
  <2> QED BY <1>1, <2>1, <2>3 DEF nativeOpen, nativeStart, nativeStop, nativePause
<1>9. {shown', selected', cached', isPaused', isLoading'} \subseteq BOOLEAN
  BY <1>2, Zenon
<1> QED BY <1>1, <1>3, <1>4, <1>5, <1>6, <1>7, <1>8, <1>9 DEF WatchNext, WebviewStep

\* The replies and events on their way, and the rows in view, keep their types.
LEMMA RowsTyped ==
  TypeOK /\ TypeOK' /\ WatchTypesInv /\ [WatchNext]_vars
    => /\ \A row \in view' : row \in Row
       /\ parsing' \in 0..MaxLoad /\ (opening' # {} => parsing' # 0)
       /\ \A reply \in opened' : /\ reply.load \in 1..MaxLoad /\ reply.session \in 0..MaxSession
                                 /\ reply.rows \subseteq Row
       /\ events' \in Seq(Event)
<1> DEFINE Replies(some) ==
             \A reply \in some : /\ reply.load \in 1..MaxLoad /\ reply.session \in 0..MaxSession
                                 /\ reply.rows \subseteq Row
<1> SUFFICES ASSUME TypeOK, TypeOK', WatchTypesInv, [WatchNext]_vars
             PROVE  /\ \A row \in view' : row \in Row
                    /\ parsing' \in 0..MaxLoad /\ (opening' # {} => parsing' # 0)
                    /\ Replies(opened')
                    /\ events' \in Seq(Event)
  OBVIOUS
<1>0. /\ \A row \in view : row \in Row
      /\ parsing \in 0..MaxLoad /\ (opening # {} => parsing # 0)
      /\ Replies(opened) /\ events \in Seq(Event) /\ commands \in Seq(Command)
  BY DEF WatchTypesInv, WatchTypeOK
<1>1. \A s \in Seq(Row) : Elements(s) \subseteq Row
  BY DEF Elements
<1>2. \A row \in view' : row \in Row
  <2>1. ASSUME UserStep \/ handleCommand \/ nativeInstall \/ (\E t \in Token : nativeWorker(t))
               \/ fileChanges \/ startResolved \/ UNCHANGED vars
        PROVE  view' = view
    BY <2>1
    DEF UserStep, refreshActiveSource, switchToCachedTab, loadOtherTab, switchToTab, evictSnapshot,
        togglePause, handleCommand, nativeInstall, nativeWorker, fileChanges, startResolved, vars,
        webview
  <2>2. CASE LoadStep
    BY <1>0, <2>2
    DEF LoadStep, otherTabLoaded, otherTabFails, loadSelectedLogFile, applyParseResult, loadFails,
        firewallGone, dropReply, webview
  <2>3. CASE applyFirewallTail
    <3>1. Head(events) \in Event
      BY <1>0, <2>3 DEF applyFirewallTail
    <3>2. Elements(Head(events).entries) \subseteq Row
      BY <1>1, <3>1 DEF Event
    <3>3. view' \subseteq view \cup Elements(Head(events).entries)
      BY <2>3 DEF applyFirewallTail, reconcileFirewallRows
    <3> QED BY <1>0, <3>2, <3>3
  <2> QED BY <1>0, <2>1, <2>2, <2>3 DEF WatchNext, WebviewStep
<1>3. parsing' \in 0..MaxLoad /\ (opening' # {} => parsing' # 0) /\ Replies(opened')
  <2>1. CASE handleCommand
    <3>1. PICK i \in DOMAIN commands : \/ nativeOpen(commands[i]) \/ nativeStart(commands[i])
                                       \/ nativeStop(commands[i]) \/ nativePause(commands[i])
      BY <2>1 DEF handleCommand
    <3> DEFINE c == commands[i]
    <3>2. c \in Command
      BY <1>0
    <3>3. c.op = "open" => c.load \in 1..MaxLoad
      BY <3>2 DEF Command
    <3> HIDE DEF c
    <3>4. opening = {}
      BY <1>0, <2>1 DEF handleCommand
    <3>5. CASE nativeOpen(c)
      <4>1. CASE parse_file /\ parsing' = c.load /\ UNCHANGED opened
        BY <1>0, <3>3, <3>5, <4>1 DEF nativeOpen
      <4>2. CASE /\ open_log_file_fails /\ UNCHANGED parsing
                 /\ opened' = opened \cup {Reply(c.load, None, TRUE, {})}
        <5> DEFINE reply == Reply(c.load, None, TRUE, {})
        <5>1. reply.load \in 1..MaxLoad /\ reply.session \in 0..MaxSession /\ reply.rows = {}
          BY <3>3, <3>5, SessionAssumption DEF nativeOpen, Reply, None
        <5> HIDE DEF reply
        <5>2. Replies(opened')
          BY <1>0, <4>2, <5>1 DEF reply
        <5> QED BY <1>0, <3>4, <4>2, <5>2 DEF open_log_file_fails
      <4> QED BY <3>5, <4>1, <4>2 DEF nativeOpen
    <3>6. ASSUME nativeStart(c) \/ nativeStop(c) \/ nativePause(c)
          PROVE  UNCHANGED <<opening, parsing, opened>>
      BY <3>6 DEF nativeStart, nativeStop, nativePause, admit_tail_start, admit_tail_start_fails,
         stop_tail, set_paused, backend
    <3> QED BY <1>0, <3>1, <3>4, <3>5, <3>6 DEF c
  <2>2. CASE nativeInstall
    <3> DEFINE session == IF owner'.firewall THEN owner'.session ELSE None
               reply == Reply(parsing, session, FALSE, Elements(owner'.checkpoint.rows))
    <3>1. opening # {} /\ opening' = {} /\ parsing' = 0 /\ opened' = opened \cup {reply}
      BY <2>2 DEF nativeInstall, open_log_file
    <3>2. /\ owner'.session \in 1..MaxSession
          /\ owner'.checkpoint.rows \in Seq(Row)
      BY DEF TypeOK, OwnerType, Checkpoint
    <3>3. reply.load \in 1..MaxLoad
      BY <1>0, <3>1, UserAssumption DEF Reply
    <3>4. reply.session \in 0..MaxSession
      BY <3>2, SessionAssumption DEF Reply, None
    <3>5. reply.rows \subseteq Row
      BY <1>1, <3>2 DEF Reply
    <3> HIDE DEF reply
    <3> QED BY <1>0, <3>1, <3>3, <3>4, <3>5, UserAssumption
  <2>3. CASE LoadStep \/ startResolved
    BY <1>0, <2>3
    DEF LoadStep, otherTabLoaded, otherTabFails, loadSelectedLogFile, applyParseResult, loadFails,
        firewallGone, dropReply, startResolved, wires, backend
  <2>4. CASE UserStep
    BY <1>0, <2>4
    DEF UserStep, refreshActiveSource, switchToCachedTab, loadOtherTab, switchToTab, evictSnapshot,
        togglePause, wires, backend
  <2>5. ASSUME applyFirewallTail \/ fileChanges \/ (\E t \in Token : nativeWorker(t))
               \/ UNCHANGED vars
        PROVE  UNCHANGED <<parsing, opening, opened>>
    BY <2>5
    DEF applyFirewallTail, fileChanges, nativeWorker, vars, wires, backend, FileStep, Write,
        Replace, Truncate, WorkerStep, worker_exit, worker_request, worker_read, worker_commit
  <2> QED BY <1>0, <2>1, <2>2, <2>3, <2>4, <2>5 DEF WatchNext, WebviewStep
<1>4. events' \in Seq(Event)
  <2>1. CASE applyFirewallTail
    BY <1>0, <2>1 DEF applyFirewallTail
  <2>2. CASE \E t \in Token : nativeWorker(t)
    <3>1. events' = events \o emitted' /\ emitted' \in Seq(Event)
      BY <2>2 DEF nativeWorker, TypeOK
    <3> QED BY <1>0, <3>1
  <2>3. ASSUME UserStep \/ LoadStep \/ startResolved \/ handleCommand \/ nativeInstall
               \/ fileChanges \/ UNCHANGED vars
        PROVE  events' = events
    BY <2>3
    DEF UserStep, refreshActiveSource, switchToCachedTab, loadOtherTab, switchToTab, evictSnapshot,
        togglePause, LoadStep, otherTabLoaded, otherTabFails, loadSelectedLogFile,
        applyParseResult, loadFails, firewallGone, dropReply, startResolved, handleCommand,
        nativeInstall, fileChanges, vars, wires
  <2> QED BY <1>0, <2>1, <2>2, <2>3 DEF WatchNext, WebviewStep
<1> QED BY <1>2, <1>3, <1>4

\* Every step keeps the types.
LEMMA WatchTypesStep ==
  TypeOK /\ WatchTypesInv /\ [WatchNext]_vars => TypeOK' /\ WatchTypesInv'
<1> SUFFICES ASSUME TypeOK, WatchTypesInv, [WatchNext]_vars PROVE TypeOK' /\ WatchTypesInv'
  OBVIOUS
<1>1. TypeOK'
  BY StepIsNative, NextType
<1>2. /\ source' \in Source /\ source'.epoch >= 1 /\ watch' \subseteq Token
      /\ commands' \in Seq(Command)
  BY SourceTyped, CommandsTyped
<1>3. \A i \in DOMAIN commands' : commands'[i] \in Command
  BY <1>2
<1>4. events' \in Seq(Event) /\ \A i \in DOMAIN events' : events'[i] \in Event
  <2>1. events' \in Seq(Event)
    BY <1>1, RowsTyped
  <2> QED BY <2>1
<1>5. /\ {shown', selected', cached', isPaused', isLoading'} \subseteq BOOLEAN
      /\ toggles' \in 0..MaxToggle /\ switches' \in 0..MaxLoad
      /\ (away' \cup leaving') \subseteq 1..MaxLoad
      /\ started' \subseteq Token
  BY WebviewTyped
<1>6. /\ \A row \in view' : row \in Row
      /\ parsing' \in 0..MaxLoad /\ (opening' # {} => parsing' # 0)
      /\ \A reply \in opened' : /\ reply.load \in 1..MaxLoad /\ reply.session \in 0..MaxSession
                                /\ reply.rows \subseteq Row
  BY <1>1, RowsTyped
<1> QED BY <1>1, <1>2, <1>3, <1>4, <1>5, <1>6, Zenon DEF WatchTypesInv, WatchTypeOK

\* The types hold at first.
LEMMA WatchTypesInit == WatchInit => TypeOK /\ WatchTypesInv
<1> SUFFICES ASSUME WatchInit PROVE TypeOK /\ WatchTypesInv
  OBVIOUS
<1> DEFINE fresh == [session |-> 1, epoch |-> 0, active |-> FALSE]
<1>1. TypeOK
  BY InitType DEF WatchInit
<1>2. fresh \in Source /\ CanBegin(fresh)
  BY SessionAssumption, BeginTypes
<1>3. /\ source = Begin(fresh) /\ watch = Mounted(fresh) /\ commands = WatchCommands(fresh)
      /\ isPaused = FALSE
  BY DEF WatchInit
<1> HIDE DEF fresh
<1>4. source \in Source /\ source.epoch >= 1 /\ watch \subseteq Token /\ commands \in Seq(Command)
  BY <1>2, <1>3, BeginTypes
<1>5. \A row \in view : row \in Row
  <2>1. owner.checkpoint.rows \in Seq(Row)
    BY <1>1 DEF TypeOK, OwnerType, Checkpoint
  <2> QED BY <2>1 DEF WatchInit, Elements
<1>6. events = <<>> /\ events \in Seq(Event) /\ opened = {} /\ opening = {}
  BY DEF WatchInit, Init
<1>7. /\ toggles \in 0..MaxToggle /\ switches \in 0..MaxLoad /\ parsing \in 0..MaxLoad
      /\ (away \cup leaving) \subseteq 1..MaxLoad /\ started \subseteq Token
  BY UserAssumption DEF WatchInit
<1>8. {shown, selected, cached, isPaused, isLoading} \subseteq BOOLEAN
  BY <1>3, Zenon DEF WatchInit
<1>9. \A i \in DOMAIN commands : commands[i] \in Command
  BY <1>4
<1>10. \A i \in DOMAIN events : events[i] \in Event
  BY <1>6
<1> QED BY <1>1, <1>4, <1>5, <1>6, <1>7, <1>8, <1>9, <1>10 DEF WatchTypesInv, WatchTypeOK

\* The webview, the commands, the replies and the events are well typed, whatever order they arrive
\* in: a reply refers to a load that was made, and an event to a watch (log-store.ts,
\* firewall-state.ts, commands/parsing.rs).
THEOREM WatchTypes == WatchSpec => []WatchTypeOK
<1>1. WatchTypesInv => WatchTypeOK
  BY DEF WatchTypesInv
<1> QED BY <1>1, WatchTypesInit, WatchTypesStep, PTL DEF WatchSpec

----------------------------------------------------------------------------
(* No watch outlives its view *)

\* A start or a stop of the watch is on its way to the native side.
StartSent(t) == \E c \in Elements(commands) : c.op = "start" /\ c.token = t
StopSent(t) == \E c \in Elements(commands) : c.op = "stop" /\ c.token = t

\* The native side runs the watch, or will when the start that is on its way arrives.
Runs(t) == (owner.active /\ t = CurrentToken) \/ (Starts(owner, t) /\ StartSent(t))

\* The webview believes the watch to be active.
Shows(t) == source.active /\ SourceToken(source) = t

\* A watch that runs or may still run is the one the webview shows, or its stop is on its way; the
\* one that is shown is the one the mounted effect will stop; the webview knows no later session
\* than the native side.
OrphanInv ==
  /\ source.active => shown /\ watch = {SourceToken(source)}
  /\ source.session <= owner.session
  /\ \A reply \in opened : reply.session <= owner.session
  /\ \A t \in Token : StartSent(t) => t.session <= owner.session
  /\ \A t \in Token : Runs(t) => Shows(t) \/ StopSent(t)

\* What the watch effects send: a start only for the watch they begin, and a stop of the one that
\* was mounted.
LEMMA EffectsSend ==
  /\ \A s \in Source : \A c \in Elements(WatchCommands(s)) :
       c.op = "start" => CanBegin(s) /\ c.token = SourceToken(Begin(s))
  /\ \A tokens : \A c \in Elements(CleanupCommands(tokens)) : c.op # "start"
  /\ \A t \in Token : Control("stop", t) \in Elements(CleanupCommands({t}))
<1>1. \A a : Elements(<<a>>) = {a}
  BY DEF Elements
<1>2. \A a, b : Elements(<<a, b>>) = {a, b}
  <2> SUFFICES ASSUME NEW a, NEW b PROVE Elements(<<a, b>>) = {a, b}
    OBVIOUS
  <2>1. DOMAIN <<a, b>> = {1, 2} /\ <<a, b>>[1] = a /\ <<a, b>>[2] = b
    OBVIOUS
  <2> QED BY <2>1 DEF Elements
<1>3. Elements(<<>>) = {}
  BY DEF Elements
<1>4. ASSUME NEW s \in Source, NEW c \in Elements(WatchCommands(s)), c.op = "start"
      PROVE  CanBegin(s) /\ c.token = SourceToken(Begin(s))
  <2>1. CanBegin(s) /\ WatchCommands(s) = <<Control("start", SourceToken(Begin(s))),
                                            PauseControl(SourceToken(Begin(s)))>>
    BY <1>3, <1>4 DEF WatchCommands
  <2>2. c = Control("start", SourceToken(Begin(s))) \/ c = PauseControl(SourceToken(Begin(s)))
    BY <1>2, <2>1
  <2> QED BY <1>4, <2>1, <2>2 DEF Control, PauseControl
<1>5. ASSUME NEW tokens, NEW c \in Elements(CleanupCommands(tokens))
      PROVE  c.op # "start"
  <2>1. \E t : c = Control("stop", t)
    BY <1>1, <1>3 DEF CleanupCommands
  <2> QED BY <2>1 DEF Control
<1>6. ASSUME NEW t \in Token
      PROVE  Control("stop", t) \in Elements(CleanupCommands({t}))
  <2>1. (CHOOSE u \in {t} : TRUE) = t /\ {t} # {}
    OBVIOUS
  <2> QED BY <1>1, <2>1 DEF CleanupCommands
<1> QED BY <1>4, <1>5, <1>6

\* What a step of the webview may do to the watches.
Orderly ==
  /\ owner' = owner /\ opened' \subseteq opened
  /\ source'.active => shown' /\ watch' = {SourceToken(source)'}
  /\ source'.session <= owner.session
  /\ Elements(commands) \subseteq Elements(commands')
  /\ \A c \in Elements(commands') :
       c.op = "start" => \/ c \in Elements(commands)
                         \/ source'.active /\ c.token = SourceToken(source)'
  /\ \A t \in Token : Shows(t) => Shows(t)' \/ StopSent(t)'

\* An orderly step keeps the watches.
LEMMA OrderlyStep == WatchTypesInv /\ WatchTypesInv' /\ OrphanInv /\ Orderly => OrphanInv'
<1> SUFFICES ASSUME WatchTypesInv, WatchTypesInv', OrphanInv, Orderly PROVE OrphanInv'
  OBVIOUS
<1>1. \A t \in Token : StopSent(t) => StopSent(t)'
  BY DEF Orderly, StopSent
<1>2. \A t \in Token : StartSent(t)' => StartSent(t) \/ Shows(t)'
  BY DEF Orderly, StartSent, Shows
<1>3. \A t \in Token : Shows(t)' => t.session = source'.session
  BY DEF Shows, SourceToken
<1>4. \A t \in Token : Runs(t)' => Runs(t) \/ Shows(t)'
  BY <1>2 DEF Orderly, Runs, CurrentToken
<1>5. \A t \in Token : Shows(t) => Shows(t)' \/ StopSent(t)'
  BY DEF Orderly
<1>6. \A t \in Token : Runs(t)' => Shows(t)' \/ StopSent(t)'
  BY <1>1, <1>4, <1>5 DEF OrphanInv
<1>7. \A t \in Token : StartSent(t)' => t.session <= owner'.session
  BY <1>2, <1>3 DEF OrphanInv, Orderly
<1> QED BY <1>6, <1>7 DEF OrphanInv, Orderly

\* Every step of the webview is orderly: one case per action.
LEMMA WebviewIsOrderly ==
  WatchTypesInv /\ WatchTypesInv' /\ OrphanInv /\ (UserStep \/ WebviewStep) => Orderly
<1> SUFFICES ASSUME WatchTypesInv, WatchTypesInv', OrphanInv, UserStep \/ WebviewStep PROVE Orderly
  OBVIOUS
<1>0. /\ source \in Source /\ source.epoch >= 1 /\ watch \subseteq Token
      /\ commands \in Seq(Command) /\ commands' \in Seq(Command)
      /\ switches' \in 0..MaxLoad /\ SourceToken(source) \in Token
      /\ \A reply \in opened : reply.session \in 0..MaxSession /\ reply.session <= owner.session
      /\ source.active => shown /\ watch = {SourceToken(source)}
      /\ source.session <= owner.session
  <2>1. source \in Source /\ source.epoch >= 1
    BY DEF WatchTypesInv, WatchTypeOK
  <2>2. SourceToken(source) \in Token
    BY <2>1 DEF Source, SourceToken, Token
  <2> QED BY <2>1, <2>2 DEF WatchTypesInv, WatchTypeOK, OrphanInv
<1>1. CleanupCommands(watch) \in Seq(Command)
  BY <1>0, BeginTypes
<1>2. owner' = owner
  BY DEF UserStep, WebviewStep, LoadStep, refreshActiveSource, switchToCachedTab,
     loadOtherTab, switchToTab, evictSnapshot, togglePause, otherTabLoaded, otherTabFails,
     loadSelectedLogFile, applyParseResult, loadFails, firewallGone, dropReply, startResolved,
     applyFirewallTail, backend
<1>3. opened' \subseteq opened
  BY DEF UserStep, WebviewStep, LoadStep, refreshActiveSource, switchToCachedTab,
     loadOtherTab, switchToTab, evictSnapshot, togglePause, otherTabLoaded, otherTabFails,
     loadSelectedLogFile, applyParseResult, loadFails, firewallGone, dropReply, startResolved,
     applyFirewallTail, wires
<1>4. ASSUME UNCHANGED <<source, watch>>, shown' = shown,
             \/ commands' = commands
             \/ \E c \in Command : c.op # "start" /\ commands' = Append(commands, c)
      PROVE  Orderly
  <2>1. /\ Elements(commands) \subseteq Elements(commands')
        /\ \A c \in Elements(commands') : c.op = "start" => c \in Elements(commands)
    <3>1. ASSUME NEW c \in Command, c.op # "start", commands' = Append(commands, c)
          PROVE  /\ Elements(commands) \subseteq Elements(commands')
                 /\ \A d \in Elements(commands') : d.op = "start" => d \in Elements(commands)
      <4>1. Elements(commands') = Elements(commands) \cup {c}
        BY <1>0, <3>1, ElementsJoin
      <4> QED BY <3>1, <4>1
    <3> QED BY <1>4, <3>1
  <2>2. \A t : Shows(t) => Shows(t)'
    BY <1>4 DEF Shows, SourceToken
  <2> QED BY <1>0, <1>2, <1>3, <1>4, <2>1, <2>2 DEF Orderly, SourceToken
<1>5. ASSUME source'.session = source.session, ~source'.active,
             commands' = commands \o CleanupCommands(watch)
      PROVE  Orderly
  <2>1. Elements(commands') = Elements(commands) \cup Elements(CleanupCommands(watch))
    BY <1>0, <1>1, <1>5, ElementsJoin
  <2>2. \A c \in Elements(commands') : c.op = "start" => c \in Elements(commands)
    BY <2>1, EffectsSend
  <2>3. \A t \in Token : Shows(t) => StopSent(t)'
    <3> SUFFICES ASSUME NEW t \in Token, Shows(t) PROVE StopSent(t)'
      OBVIOUS
    <3>1. watch = {t}
      BY <1>0 DEF Shows
    <3>2. Control("stop", t) \in Elements(commands')
      BY <2>1, <3>1, EffectsSend
    <3> QED BY <3>2 DEF StopSent, Control
  <2> QED BY <1>0, <1>2, <1>3, <1>5, <2>1, <2>2, <2>3 DEF Orderly
<1>6. Unmount => Orderly
  <2> SUFFICES ASSUME Unmount PROVE Orderly
    OBVIOUS
  <2>1. source' = endFirewallWatch(source, watch) /\ commands' = commands \o CleanupCommands(watch)
    BY DEF Unmount
  <2>2. source'.session = source.session
    BY <1>0, <2>1 DEF endFirewallWatch, Source
  <2>3. ~source'.active
    BY <1>0, <2>1 DEF endFirewallWatch, Source
  <2> QED BY <1>5, <2>1, <2>2, <2>3
<1>7. CASE switchToCachedTab \/ otherTabLoaded \/ loadFails
  BY <1>4, <1>6, <1>7 DEF switchToCachedTab, otherTabLoaded, loadFails
<1>8. CASE firewallGone
  <2>1. source' = [source EXCEPT !.active = FALSE] /\ commands' = commands \o CleanupCommands(watch)
    BY <1>8 DEF firewallGone
  <2>2. source'.session = source.session /\ ~source'.active
    BY <1>0, <2>1 DEF Source
  <2> QED BY <1>5, <2>1, <2>2
<1>9. CASE loadOtherTab
  <2>1. CASE ~shown
    BY <1>4, <1>9, <2>1 DEF loadOtherTab
  <2>2. CASE shown
    <3> DEFINE last == [op |-> "stop", token |-> SourceToken(source), load |-> switches']
    <3>1. source' = [source EXCEPT !.active = FALSE] /\ commands' = Append(commands, last)
      <4>1. source.epoch > 0
        BY <1>0 DEF Source
      <4> QED BY <1>9, <2>2, <4>1 DEF loadOtherTab
    <3>2. source'.session = source.session /\ ~source'.active
      BY <1>0, <3>1 DEF Source
    <3>3. switches' \in 1..MaxLoad
      BY <1>0, <1>9 DEF loadOtherTab, WatchTypesInv, WatchTypeOK
    <3>4. last \in Command
      BY <1>0, <3>3 DEF Command
    <3>5. Elements(commands') = Elements(commands) \cup {last}
      BY <1>0, <3>1, <3>4, ElementsJoin
    <3>6. last.op = "stop" /\ last.token = SourceToken(source)
      OBVIOUS
    <3> HIDE DEF last
    <3>7. \A t \in Token : Shows(t) => StopSent(t)'
      BY <3>5, <3>6 DEF StopSent, Shows
    <3> QED BY <1>0, <1>2, <1>3, <3>2, <3>5, <3>6, <3>7 DEF Orderly
  <2> QED BY <2>1, <2>2
<1>10. CASE switchToTab
  <2>1. CASE shown \/ ~cached
    BY <1>4, <1>10, <2>1 DEF switchToTab
  <2>2. CASE ~shown /\ cached
    <3>1. /\ shown' = TRUE /\ source' = Begin(source) /\ watch' = Mounted(source)
          /\ commands' = commands \o WatchCommands(source)
      BY <1>10, <2>2 DEF switchToTab
    <3>2. WatchCommands(source) \in Seq(Command) /\ Begin(source).session = source.session
      BY <1>0, BeginTypes
    <3>3. Elements(commands') = Elements(commands) \cup Elements(WatchCommands(source))
      BY <1>0, <3>1, <3>2, ElementsJoin
    <3>4. ~source.active
      BY <1>0, <2>2
    <3>5. source'.active => CanBegin(source)
      BY <3>1, <3>4 DEF Begin
    <3>6. source'.active => watch' = {SourceToken(source)'}
      BY <1>0, <3>1, <3>5, BeginTypes DEF SourceToken
    <3>7. \A c \in Elements(commands') :
            c.op = "start" => \/ c \in Elements(commands)
                              \/ source'.active /\ c.token = SourceToken(source)'
      BY <1>0, <3>1, <3>3, EffectsSend, BeginTypes DEF SourceToken
    <3>8. \A t \in Token : ~Shows(t)
      BY <3>4 DEF Shows
    <3> QED BY <1>0, <1>2, <1>3, <3>1, <3>2, <3>3, <3>6, <3>7, <3>8 DEF Orderly
  <2> QED BY <1>10, <2>1, <2>2 DEF switchToTab
<1>11. CASE applyParseResult
  <2>1. PICK reply \in opened :
          LET fresh == [session |-> reply.session, epoch |-> 0, active |-> FALSE]
          IN /\ reply.session # None /\ shown' = TRUE
             /\ source' = Begin(fresh) /\ watch' = Mounted(fresh)
             /\ commands' = commands \o CleanupCommands(watch) \o WatchCommands(fresh)
    BY <1>11 DEF applyParseResult
  <2> DEFINE fresh == [session |-> reply.session, epoch |-> 0, active |-> FALSE]
             cleaned == commands \o CleanupCommands(watch)
  <2>2. fresh \in Source /\ CanBegin(fresh) /\ fresh.session <= owner.session
    BY <1>0, <2>1, BeginTypes DEF None
  <2>3. /\ source' = Begin(fresh) /\ watch' = Mounted(fresh)
        /\ commands' = cleaned \o WatchCommands(fresh)
    BY <2>1
  <2> HIDE DEF fresh
  <2>4. /\ WatchCommands(fresh) \in Seq(Command) /\ Begin(fresh).session = fresh.session
        /\ Begin(fresh).active /\ Mounted(fresh) = {SourceToken(Begin(fresh))}
    BY <2>2, BeginTypes
  <2>5. /\ cleaned \in Seq(Command)
        /\ Elements(cleaned) = Elements(commands) \cup Elements(CleanupCommands(watch))
    BY <1>0, <1>1, SendTypes, ElementsJoin
  <2> HIDE DEF cleaned
  <2>6. Elements(commands') = Elements(cleaned) \cup Elements(WatchCommands(fresh))
    BY <2>3, <2>4, <2>5, ElementsJoin
  <2>7. \A c \in Elements(commands') :
          c.op = "start" => \/ c \in Elements(commands)
                            \/ source'.active /\ c.token = SourceToken(source)'
    BY <2>2, <2>3, <2>4, <2>5, <2>6, EffectsSend DEF SourceToken
  <2>8. \A t \in Token : Shows(t) => StopSent(t)'
    <3> SUFFICES ASSUME NEW t \in Token, Shows(t) PROVE StopSent(t)'
      OBVIOUS
    <3>1. watch = {t}
      BY <1>0 DEF Shows
    <3>2. Control("stop", t) \in Elements(commands')
      BY <2>5, <2>6, <3>1, EffectsSend
    <3> QED BY <3>2 DEF StopSent, Control
  <2>9. watch' = {SourceToken(source)'} /\ source'.session <= owner.session
    BY <2>2, <2>3, <2>4 DEF SourceToken
  <2> QED BY <1>0, <1>2, <1>3, <2>1, <2>5, <2>6, <2>7, <2>8, <2>9 DEF Orderly
<1>12. CASE refreshActiveSource \/ loadSelectedLogFile
  <2>1. UNCHANGED <<source, watch>> /\ shown' = shown
    BY <1>12 DEF refreshActiveSource, loadSelectedLogFile
  <2>2. \/ commands' = commands
        \/ \E load \in 1..MaxLoad : commands' = Append(commands, [op |-> "open", load |-> load])
    <3>1. leaving \subseteq 1..MaxLoad
      BY DEF WatchTypesInv, WatchTypeOK
    <3>2. switches < MaxLoad => switches + 1 \in 1..MaxLoad
      BY UserAssumption DEF WatchTypesInv, WatchTypeOK
    <3> QED BY <1>12, <3>1, <3>2 DEF refreshActiveSource, loadSelectedLogFile
  <2>3. \A load \in 1..MaxLoad : [op |-> "open", load |-> load] \in Command
    BY DEF Command
  <2> QED BY <1>4, <2>1, <2>2, <2>3
<1>13. CASE togglePause \/ startResolved
  <2>1. UNCHANGED <<source, watch>> /\ shown' = shown
    BY <1>13 DEF togglePause, startResolved, webview
  <2>2. started \subseteq Token
    BY DEF WatchTypesInv, WatchTypeOK
  <2>3. \/ commands' = commands
        \/ \E op \in {"pause", "resume"}, t \in Token :
             commands' = Append(commands, Control(op, t))
    BY <1>0, <1>13, <2>2 DEF togglePause, startResolved, PauseControl
  <2>4. \A op \in {"pause", "resume"}, t \in Token :
          Control(op, t) \in Command /\ Control(op, t).op # "start"
    BY BeginTypes DEF Control
  <2> QED BY <1>4, <2>1, <2>3, <2>4
<1>14. CASE evictSnapshot \/ otherTabFails \/ dropReply \/ applyFirewallTail
  BY <1>4, <1>14 DEF evictSnapshot, otherTabFails, dropReply, applyFirewallTail, webview, wires
<1> QED BY <1>7, <1>8, <1>9, <1>10, <1>11, <1>12, <1>13, <1>14 DEF UserStep, WebviewStep, LoadStep

\* Every step of the native side keeps the watches: one case per action.
LEMMA NativeKeepsOrphans ==
  ASSUME TypeOK, WatchTypesInv, TailedInv, OrphanInv,
         \/ handleCommand \/ nativeInstall \/ (\E t \in Token : nativeWorker(t)) \/ fileChanges
         \/ UNCHANGED vars
  PROVE  OrphanInv'
<1>0. /\ owner \in OwnerType /\ owner.session \in Nat /\ owner.epoch \in Nat
      /\ source.session \in Nat /\ commands \in Seq(Command)
      /\ \A reply \in opened : reply.session \in Nat /\ reply.session <= owner.session
      /\ source.session <= owner.session
      /\ source.active => shown /\ watch = {SourceToken(source)}
      /\ \A t \in Token : StartSent(t) => t.session <= owner.session
      /\ \A t \in Token : Runs(t) => Shows(t) \/ StopSent(t)
  BY DEF TypeOK, OwnerType, WatchTypesInv, WatchTypeOK, Source, OrphanInv
<1>1. UNCHANGED webview
  BY DEF handleCommand, nativeInstall, nativeWorker, fileChanges, vars
<1>2. \A t : Shows(t)' <=> Shows(t)
  BY <1>1 DEF Shows, SourceToken, webview
<1>3. \A t \in Token : t.session \in Nat /\ t.epoch \in Nat /\ t.epoch >= 1
  BY DEF Token
<1>4. ASSUME UNCHANGED opened \/ \A reply \in opened' : reply.session <= owner'.session,
             owner'.session >= owner.session, owner'.session \in Nat,
             Elements(commands') \subseteq Elements(commands),
             \A t \in Token : Runs(t)' => Shows(t) \/ StopSent(t)'
      PROVE  OrphanInv'
  <2>1. \A reply \in opened' : reply.session <= owner'.session
    BY <1>0, <1>4
  <2>2. \A t \in Token : StartSent(t)' => t.session <= owner'.session
    BY <1>0, <1>3, <1>4 DEF StartSent
  <2>3. source'.session <= owner'.session
    BY <1>0, <1>1, <1>4 DEF webview
  <2>4. source'.active => shown' /\ watch' = {SourceToken(source)'}
    BY <1>0, <1>1 DEF webview, SourceToken
  <2> QED BY <1>2, <1>4, <2>1, <2>2, <2>3, <2>4 DEF OrphanInv
<1> DEFINE SameWatch == /\ owner'.session = owner.session /\ owner'.epoch = owner.epoch
                        /\ owner'.active = owner.active /\ owner'.firewall = owner.firewall
<1>5. SameWatch => \A t : (Starts(owner, t)' <=> Starts(owner, t)) /\ CurrentToken' = CurrentToken
  BY DEF Starts, same_session, CurrentToken
<1>6. CASE handleCommand
  <2>1. PICK i \in DOMAIN commands :
          /\ \/ nativeOpen(commands[i]) \/ nativeStart(commands[i])
             \/ nativeStop(commands[i]) \/ nativePause(commands[i])
          /\ commands' = SubSeq(commands, 1, i - 1) \o SubSeq(commands, i + 1, Len(commands))
    BY <1>6 DEF handleCommand
  <2> DEFINE c == commands[i]
  <2>2. c \in Command /\ c \in Elements(commands)
    BY <1>0 DEF Elements
  <2>3. c.op \in {"start", "stop", "pause", "resume"} => c.token \in Token
    BY <2>2 DEF Command
  <2>4. /\ Elements(commands') \subseteq Elements(commands)
        /\ \A d \in Elements(commands) : d # c => d \in Elements(commands')
    <3>1. commands \in Seq(Command) /\ i \in DOMAIN commands
      BY <1>0
    <3>2. commands' = Without(commands, i)
      BY <2>1 DEF Without
    <3> QED BY <3>1, <3>2, ElementsRemove
  <2> HIDE DEF c
  <2>5. /\ \A t : StartSent(t)' => StartSent(t)
        /\ \A t : StopSent(t) => StopSent(t)' \/ (c.op = "stop" /\ c.token = t)
    BY <2>4 DEF StartSent, StopSent
  <2>6. ASSUME SameWatch, c.op # "stop" \/ ~Stops(owner, c.token),
               UNCHANGED opened \/ \A reply \in opened' : reply.session <= owner'.session
        PROVE  OrphanInv'
    <3>1. \A t \in Token : Runs(t)' => Runs(t)
      BY <1>5, <2>5, <2>6 DEF Runs
    <3>2. \A t \in Token : Runs(t) => Stops(owner, t)
      <4>1. owner.active => owner.firewall
        BY DEF TailedInv, ActiveIsFirewall
      <4> QED BY <1>0, <1>3, <4>1 DEF Runs, Stops, Starts, same_session, CurrentToken, Token
    <3>3. \A t \in Token : Runs(t)' => Shows(t) \/ StopSent(t)'
      BY <1>0, <2>5, <2>6, <3>1, <3>2
    <3>4. owner'.session >= owner.session /\ owner'.session \in Nat
      BY <1>0, <2>6
    <3> QED BY <1>4, <2>4, <2>6, <3>3, <3>4
  <2>7. CASE nativeOpen(c)
    <3>1. SameWatch /\ c.op # "stop"
      BY <2>7 DEF nativeOpen, parse_file, open_log_file_fails
    <3>2. UNCHANGED opened \/ opened' = opened \cup {Reply(c.load, None, TRUE, {})}
      BY <2>7 DEF nativeOpen
    <3>3. Reply(c.load, None, TRUE, {}).session = 0
      BY DEF Reply, None
    <3> DEFINE failed == Reply(c.load, None, TRUE, {})
    <3>4. \A reply \in opened' : reply.session <= owner'.session
      <4> HIDE DEF failed
      <4>1. failed.session = 0
        BY <3>3 DEF failed
      <4>2. opened' = opened \/ opened' = opened \cup {failed}
        BY <3>2 DEF failed
      <4>3. owner'.session = owner.session
        BY <3>1
      <4> HIDE DEF SameWatch
      <4> QED BY <1>0, <4>1, <4>2, <4>3
    <3> QED BY <2>6, <3>1, <3>4
  <2>8. CASE nativeStart(c)
    <3>1. c.op = "start" /\ UNCHANGED opened
      BY <2>8 DEF nativeStart
    <3>2. CASE ~Starts(owner, c.token)
      <4>1. UNCHANGED backend
        BY <2>8, <3>2 DEF nativeStart, admit_tail_start_fails
      <4> QED BY <2>6, <3>1, <4>1 DEF backend
    <3>3. CASE Starts(owner, c.token)
      <4>1. /\ owner'.session = owner.session /\ owner'.firewall = owner.firewall
            /\ owner'.epoch = c.token.epoch
        BY <1>0, <2>8, <3>3 DEF nativeStart, admit_tail_start, admit_tail_start_fails, start, stop,
           OwnerType
      <4>2. owner'.active => CurrentToken' = c.token
        <5>1. CurrentToken' = [session |-> owner.session, epoch |-> c.token.epoch]
          BY <4>1 DEF CurrentToken
        <5>2. c.token.session = owner.session
          BY <3>3 DEF Starts, same_session
        <5> QED BY <2>3, <3>1, <5>1, <5>2 DEF Token
      <4>3. \A t \in Token : Starts(owner, t)' => Starts(owner, t)
        BY <1>0, <1>3, <2>3, <3>1, <3>3, <4>1 DEF Starts, same_session
      <4>4. StartSent(c.token)
        BY <2>2, <3>1 DEF StartSent
      <4>5. \A t \in Token : Runs(t)' => Runs(t)
        BY <2>5, <3>3, <4>2, <4>3, <4>4 DEF Runs
      <4>6. \A t \in Token : Runs(t)' => Shows(t) \/ StopSent(t)'
        BY <1>0, <2>5, <3>1, <4>5
      <4> QED BY <1>0, <1>4, <2>4, <3>1, <4>1, <4>6
    <3> QED BY <3>2, <3>3
  <2>9. CASE nativeStop(c)
    <3>1. c.op = "stop" /\ UNCHANGED opened
      BY <2>9 DEF nativeStop
    <3>2. CASE ~Stops(owner, c.token)
      <4>1. UNCHANGED backend
        BY <2>9, <3>2 DEF nativeStop
      <4> QED BY <2>6, <3>1, <3>2, <4>1 DEF backend
    <3>3. CASE Stops(owner, c.token)
      <4>1. /\ owner'.session = owner.session /\ owner'.firewall = owner.firewall
            /\ owner'.epoch = c.token.epoch /\ ~owner'.active
        BY <1>0, <2>9, <3>3 DEF nativeStop, stop_tail, stop, OwnerType
      <4>2. \A t \in Token : Starts(owner, t)' => Starts(owner, t) /\ t # c.token
        BY <1>0, <1>3, <2>3, <3>1, <3>3, <4>1 DEF Starts, Stops, same_session
      <4>3. \A t \in Token : Runs(t)' => Runs(t) /\ t # c.token
        BY <2>5, <4>1, <4>2 DEF Runs
      <4>4. \A t \in Token : Runs(t)' => Shows(t) \/ StopSent(t)'
        BY <1>0, <2>5, <4>3
      <4> QED BY <1>0, <1>4, <2>4, <3>1, <4>1, <4>4
    <3> QED BY <3>2, <3>3
  <2>10. CASE nativePause(c)
    <3>1. SameWatch /\ c.op # "stop" /\ UNCHANGED opened
      BY <1>0, <2>10 DEF nativePause, set_paused, backend, OwnerType
    <3> QED BY <2>6, <3>1
  <2> QED BY <2>1, <2>7, <2>8, <2>9, <2>10 DEF c
<1>7. CASE nativeInstall
  <2>1. PICK ck \in opening : owner' = NewOwner(owner.session + 1, ck)
    BY <1>7 DEF nativeInstall, open_log_file
  <2>2. owner'.session = owner.session + 1 /\ owner'.active = FALSE /\ commands' = commands
    BY <1>7, <2>1 DEF NewOwner, nativeInstall
  <2>3. \A t \in Token : ~Runs(t)'
    BY <1>0, <1>3, <2>2 DEF Runs, Starts, same_session, StartSent
  <2>4. \A reply \in opened' : reply.session <= owner'.session
    <3> DEFINE new == Reply(parsing, IF owner'.firewall THEN owner'.session ELSE None, FALSE,
                            Elements(owner'.checkpoint.rows))
    <3>1. opened' = opened \cup {new}
      BY <1>7 DEF nativeInstall
    <3>2. new.session \in {0, owner'.session}
      BY DEF Reply, None
    <3> HIDE DEF new
    <3> QED BY <1>0, <2>2, <3>1, <3>2
  <2> QED BY <1>0, <1>4, <2>2, <2>3, <2>4
<1>8. ASSUME (\E t \in Token : nativeWorker(t)) \/ fileChanges \/ UNCHANGED vars
      PROVE  OrphanInv'
  <2>1. UNCHANGED <<commands, opened>>
    BY <1>8 DEF nativeWorker, fileChanges, vars, wires
  <2>2. SameWatch
    BY <1>0, <1>8
    DEF nativeWorker, fileChanges, vars, backend, FileStep, Write, Replace, Truncate, WorkerStep,
        worker_exit, worker_request, worker_read, worker_commit, commit, OwnerType
  <2>3. \A t \in Token : /\ Runs(t)' => Runs(t)
                         /\ StopSent(t) => StopSent(t)'
    BY <1>5, <2>1, <2>2 DEF Runs, StartSent, StopSent
  <2>4. owner'.session >= owner.session /\ owner'.session \in Nat
    BY <1>0, <2>2
  <2>5. \A t \in Token : Runs(t)' => Shows(t) \/ StopSent(t)'
    BY <1>0, <2>3
  <2> QED BY <1>4, <2>1, <2>4, <2>5
<1> QED BY <1>6, <1>7, <1>8

\* The watches are orderly at first: the one that begins is the one that is shown.
LEMMA OrphanInit == WatchInit => OrphanInv
<1> SUFFICES ASSUME WatchInit PROVE OrphanInv
  OBVIOUS
<1> DEFINE fresh == [session |-> 1, epoch |-> 0, active |-> FALSE]
<1>1. fresh \in Source /\ CanBegin(fresh)
  BY SessionAssumption, BeginTypes
<1>2. fresh.session = 1
  OBVIOUS
<1>3. source = Begin(fresh) /\ watch = Mounted(fresh) /\ commands = WatchCommands(fresh)
  BY DEF WatchInit
<1> HIDE DEF fresh
<1>4. source.active /\ watch = {SourceToken(source)} /\ source.session = 1
  BY <1>1, <1>2, <1>3, BeginTypes
<1>5. \A t \in Token : StartSent(t) => t = SourceToken(source)
  BY <1>1, <1>3, EffectsSend DEF StartSent
<1>6. /\ owner.session = 1 /\ owner.active = FALSE /\ shown = TRUE /\ opened = {}
  BY DEF WatchInit, Init, NewOwner
<1>7. \A t \in Token : Runs(t) => Shows(t)
  BY <1>4, <1>5, <1>6 DEF Runs, Shows
<1>8. \A t \in Token : StartSent(t) => t.session <= owner.session
  BY <1>4, <1>5, <1>6 DEF SourceToken
<1> QED BY <1>4, <1>6, <1>7, <1>8 DEF OrphanInv

\* Every step keeps the watches.
LEMMA OrphanStep ==
  TypeOK /\ WatchTypesInv /\ TailedInv /\ OrphanInv /\ [WatchNext]_vars => OrphanInv'
<1> SUFFICES ASSUME TypeOK, WatchTypesInv, TailedInv, OrphanInv, [WatchNext]_vars PROVE OrphanInv'
  OBVIOUS
<1>1. WatchTypesInv'
  BY WatchTypesStep
<1>2. CASE UserStep \/ WebviewStep
  BY <1>1, <1>2, WebviewIsOrderly, OrderlyStep
<1>3. CASE \/ handleCommand \/ nativeInstall \/ (\E t \in Token : nativeWorker(t)) \/ fileChanges
           \/ UNCHANGED vars
  BY <1>3, NativeKeepsOrphans
<1> QED BY <1>2, <1>3 DEF WatchNext

\* What the native side keeps holds of the composition.
LEMMA NativeStep ==
  /\ WatchInit => TailedInv /\ FreshIsCommitted /\ StreamInv
  /\ TypeOK /\ WatchTypesInv /\ TailedInv /\ [WatchNext]_vars => TailedInv'
  /\ TypeOK /\ WatchTypesInv /\ FreshIsCommitted /\ [WatchNext]_vars => FreshIsCommitted'
  /\ TypeOK /\ WatchTypesInv /\ FreshIsCommitted /\ StreamInv /\ [WatchNext]_vars => StreamInv'
<1>1. WatchInit => FreshIsCommitted /\ StreamInv
  BY StreamInit DEF WatchInit
<1>2. WatchInit => TailedInv
  BY DEF WatchInit, Init, NewOwner, TailedInv, SessionsAreAdmitted, ActiveIsFirewall,
     ActiveWatchIsTailed
<1> QED BY <1>1, <1>2, StepIsNative, TailedStep, FenceStep, StreamStep

\* When every command has been handled, the native side tails nothing that the webview does not
\* show, in whatever order the commands arrived and whichever of them failed (use-file-watcher.ts,
\* log-source.ts, FirewallOwner::start, stop).
THEOREM NoOrphan == WatchSpec => []NoOrphanWatch
<1>1. TypeOK /\ WatchTypesInv /\ TailedInv /\ OrphanInv => NoOrphanWatch
  <2> SUFFICES ASSUME TypeOK, WatchTypesInv, TailedInv, OrphanInv, commands = <<>>, owner.active
               PROVE  source.active /\ is_current(owner, SourceToken(source))
    BY DEF NoOrphanWatch
  <2>1. CurrentToken \in Token
    BY DEF TypeOK, TailedInv, ActiveWatchIsTailed
  <2>2. Runs(CurrentToken)
    BY DEF Runs
  <2>3. ~StopSent(CurrentToken)
    BY DEF StopSent, Elements
  <2>4. Shows(CurrentToken)
    BY <2>1, <2>2, <2>3 DEF OrphanInv
  <2>5. is_current(owner, CurrentToken)
    BY <2>1 DEF is_current, same_session, CurrentToken, Token, TailedInv, ActiveIsFirewall
  <2> QED BY <2>4, <2>5 DEF Shows
<1> QED
  BY <1>1, WatchTypesInit, WatchTypesStep, NativeStep, OrphanInit, OrphanStep, PTL DEF WatchSpec

----------------------------------------------------------------------------
(* The rows in view are rows of the source *)

\* A row of the source: an id that was given, and when the present generation of the checkpoint
\* covers the id, the row that bears it.
Faithful(row, ck) ==
  /\ row.id < ck.next_id
  /\ row.id >= ck.next_id - Len(ck.rows) => row \in Elements(ck.rows)

\* What a read makes of a checkpoint keeps its rows and what it publishes are rows of it: all of
\* them for a reset, else those that join the earlier ones, with none of which they clash.
Grows(out, ck) ==
  LET old == Elements(ck.rows)
      new == Elements(out.entries)
      rows == Elements(IF out.install THEN out.checkpoint.rows ELSE ck.rows)
  IN /\ IF out.install
          THEN /\ \A row \in Row : Faithful(row, ck) => Faithful(row, out.checkpoint)
               /\ \A row \in Elements(out.entries) : Faithful(row, out.checkpoint)
          ELSE out.entries = <<>>
     /\ rows = IF out.reset THEN new ELSE old \cup new
     /\ ~out.reset => \A row \in new : ~Clash(old, row)
     /\ ~out.changed => rows = old

GrowsInv ==
  \A t \in Token : worker[t].pc = "commit" => Grows(worker[t].outcome, worker[t].checkpoint)

\* The view, the events and the replies of the open source hold its rows; no event is of a source
\* yet to be opened.
FaithfulInv ==
  /\ source.session = owner.session => \A row \in view : Faithful(row, owner.checkpoint)
  /\ \A e \in Elements(events) :
       /\ e.token.session <= owner.session
       /\ e.token.session = owner.session =>
            \A row \in Elements(e.entries) : Faithful(row, owner.checkpoint)
  /\ \A reply \in opened :
       reply.session = owner.session =>
         \A row \in reply.rows : Faithful(row, owner.checkpoint)

\* The rows of a coherent checkpoint are its own.
LEMMA OwnRowsAreFaithful ==
  ASSUME NEW ck \in Checkpoint, Coherent(ck)
  PROVE  \A row \in Elements(ck.rows) : Faithful(row, ck)
<1>1. ck.rows \in Seq(Row) /\ ck.next_id \in Nat /\ ck.raw_offset \in Nat
  BY DEF Checkpoint
<1>2. Len(ck.rows) = ck.raw_offset /\ DOMAIN ck.rows = 1..ck.raw_offset
  BY <1>1 DEF Coherent
<1>3. ASSUME NEW i \in 1..ck.raw_offset
      PROVE  ck.rows[i].id < ck.next_id
  <2>1. ck.rows[i].id = ck.next_id - ck.raw_offset + i - 1
    BY DEF Coherent
  <2> QED BY <1>1, <2>1
<1> QED BY <1>2, <1>3 DEF Elements, Faithful

\* What publishes no row publishes none that clashes.
LEMMA NothingPublished == Elements(<<>>) = {}
BY DEF Elements

\* The append read keeps the rows and adds to them (AppendOutcome).
LEMMA AppendGrows ==
  ASSUME NEW ck \in Checkpoint, NEW f \in FileType, ck.raw_offset <= Len(f.data), Coherent(ck)
  PROVE  Grows(AppendOutcome(ck, f), ck)
<1> DEFINE units == AppendUnits(ck, f)
           out == AppendOutcome(ck, f)
           next == out.checkpoint
<1>1. units \in Seq(Unit) /\ Len(units) \in Nat
  BY AppendUnitsType
<1>2. ck.rows \in Seq(Row) /\ ck.next_id \in Nat /\ Len(ck.rows) \in Nat
  BY DEF Checkpoint
<1>3. out \in Outcome /\ Continues(out, ck)
  BY AppendType, AppendContinues
<1>4. /\ out.install /\ next.rows = ck.rows \o out.entries
      /\ next.next_id = ck.next_id + Len(units)
  BY DEF AppendOutcome
<1>5. next.raw_offset = ck.raw_offset + Len(units)
  BY DEF AppendOutcome
<1> HIDE DEF units, out
<1>6. /\ out.entries \in Seq(Row) /\ next \in Checkpoint /\ Coherent(next)
  BY <1>3, <1>4 DEF Outcome, Continues
<1>7. Elements(next.rows) = Elements(ck.rows) \cup Elements(out.entries)
  BY <1>2, <1>4, <1>6, ElementsJoin
<1>8. Len(next.rows) = Len(ck.rows) + Len(units)
  BY <1>1, <1>2, <1>5, <1>6 DEF Coherent, Checkpoint
<1>9. next.next_id - Len(next.rows) = ck.next_id - Len(ck.rows)
  BY <1>1, <1>2, <1>4, <1>8
<1>10. ASSUME NEW row \in Row, Faithful(row, ck)
       PROVE  Faithful(row, next)
  <2>1. row.id \in Nat
    BY DEF Row
  <2>2. row.id < next.next_id
    BY <1>1, <1>2, <1>4, <1>10, <2>1 DEF Faithful
  <2> QED BY <1>7, <1>9, <1>10, <2>2 DEF Faithful
<1>11. \A row \in Elements(out.entries) : Faithful(row, next)
  BY <1>6, <1>7, OwnRowsAreFaithful
<1>12. ASSUME NEW r \in Elements(ck.rows), NEW row \in Elements(out.entries)
       PROVE  r.line # row.line /\ r.id # row.id
  <2>1. /\ DOMAIN ck.rows = 1..Len(ck.rows) /\ Len(ck.rows) = ck.raw_offset
        /\ Len(out.entries) \in Nat /\ DOMAIN out.entries = 1..Len(out.entries)
    BY <1>2, <1>6 DEF Coherent
  <2>2. PICK i \in 1..Len(ck.rows) : r = ck.rows[i]
    BY <2>1 DEF Elements
  <2>3. PICK j \in 1..Len(out.entries) : row = out.entries[j]
    BY <2>1 DEF Elements
  <2>4. r.line = i /\ r.id < ck.next_id
    <3>1. r.line = i
      BY <2>1, <2>2 DEF Coherent
    <3> QED BY <3>1, OwnRowsAreFaithful DEF Faithful
  <2>5. row.line = Len(ck.rows) + j
    <3>0. Len(next.rows) = Len(ck.rows) + Len(out.entries)
      BY <1>2, <1>4, <1>6, ConcatProperties
    <3>1. /\ Len(ck.rows) + j \in 1..Len(next.rows)
          /\ ~(Len(ck.rows) + j <= Len(ck.rows)) /\ Len(ck.rows) + j - Len(ck.rows) = j
      BY <1>2, <2>1, <3>0
    <3>2. next.rows[Len(ck.rows) + j] = out.entries[j]
      BY <1>2, <1>4, <1>6, <3>1, ConcatProperties
    <3>3. Len(ck.rows) + j \in 1..next.raw_offset
      BY <1>6, <3>1 DEF Coherent
    <3>4. next.rows[Len(ck.rows) + j].line = Len(ck.rows) + j
      BY <1>6, <3>3 DEF Coherent
    <3> QED BY <2>3, <3>2, <3>4
  <2>6. row.id >= ck.next_id /\ row.id \in Int
    <3>1. row.id \in ck.next_id..(next.next_id - 1)
      BY <1>3, <1>4, <2>1, <2>3 DEF Continues
    <3> QED BY <1>2, <3>1
  <2>7. r.line # row.line
    BY <1>2, <2>4, <2>5
  <2>8. r.id \in Nat
    <3>1. r \in Row
      BY <1>2, <2>2
    <3> QED BY <3>1 DEF Row
  <2> QED BY <1>2, <2>4, <2>6, <2>7, <2>8
<1>13. /\ ~out.reset
       /\ ~out.changed => Elements(next.rows) = Elements(ck.rows)
  <2>1. ~out.reset /\ out.changed = (AppendUnits(ck, f) # <<>>)
    BY DEF AppendOutcome, out
  <2>2. Len(out.entries) = Len(units)
    <3>1. Len(next.rows) = Len(ck.rows) + Len(out.entries) /\ Len(out.entries) \in Nat
      BY <1>2, <1>4, <1>6, ConcatProperties
    <3>2. \A a, b, c \in Nat : a + b = a + c => b = c
      OBVIOUS
    <3>3. Len(ck.rows) + Len(out.entries) = Len(ck.rows) + Len(units)
      BY <1>8, <3>1
    <3> QED BY <1>1, <1>2, <3>1, <3>2, <3>3
  <2>3. ~out.changed => out.entries = <<>>
    <3>1. out.changed <=> units # <<>>
      BY <2>1 DEF units
    <3>2. ~out.changed => Len(units) = 0
      BY <3>1
    <3> QED BY <1>6, <2>2, <3>2
  <2>4. Elements(<<>>) = {}
    BY DEF Elements
  <2> QED BY <1>7, <2>1, <2>3, <2>4
<1>14. \A row \in Elements(out.entries) : ~Clash(Elements(ck.rows), row)
  BY <1>12 DEF Clash
<1> QED BY <1>4, <1>7, <1>10, <1>11, <1>13, <1>14 DEF Grows, out

\* A whole-file read gives new ids to every row (ResetOutcome).
LEMMA ResetGrows ==
  ASSUME NEW req \in Worker, NEW f \in FileType, NEW identity \in Nat,
         NEW pending \in Transition, NEW fault \in Fault, NEW saw \in BOOLEAN
  PROVE  Grows(ResetOutcome(req, f, identity, pending, fault, saw), req.checkpoint)
<1> DEFINE force == pending = "windows1252"
           ck == snapshot_bytes(f, req.checkpoint.next_id, force, identity)
           out == ResetOutcome(req, f, identity, pending, fault, saw)
<1>1. req.checkpoint.next_id \in Nat /\ Len(f.data) \in Nat
  BY DEF Worker, Checkpoint, FileType
<1>2. /\ Coherent(ck) /\ ck.next_id = req.checkpoint.next_id + Len(f.data)
      /\ ck \in Checkpoint /\ ck.raw_offset = Len(f.data)
  <2>1. force \in BOOLEAN
    BY Zenon
  <2> HIDE DEF force
  <2>2. ck.raw_offset = Len(f.data)
    BY DEF snapshot_bytes
  <2> HIDE DEF ck
  <2>3. ck = snapshot_bytes(f, req.checkpoint.next_id, force, identity)
    BY DEF ck
  <2> QED BY <1>1, <2>1, <2>2, <2>3, SnapshotCoherent, SnapshotType
<1>3. \/ /\ out.install /\ out.checkpoint = ck /\ out.entries = ck.rows
         /\ out.reset /\ out.changed
      \/ ~out.install /\ out.entries = <<>> /\ ~out.reset
  BY DEF ResetOutcome, GapOutcome
<1> HIDE DEF ck, out
<1>4. ck.next_id - Len(ck.rows) = req.checkpoint.next_id
  BY <1>1, <1>2 DEF Coherent
<1>5. ASSUME NEW row \in Row, Faithful(row, req.checkpoint)
      PROVE  Faithful(row, ck)
  <2>1. row.id \in Nat /\ row.id < req.checkpoint.next_id
    BY <1>5 DEF Row, Faithful
  <2> QED BY <1>1, <1>2, <1>4, <2>1 DEF Faithful
<1>6. \A row \in Elements(ck.rows) : Faithful(row, ck)
  BY <1>2, OwnRowsAreFaithful
<1>7. CASE /\ out.install /\ out.checkpoint = ck /\ out.entries = ck.rows
           /\ out.reset /\ out.changed
  BY <1>5, <1>6, <1>7 DEF Grows, out
<1>8. CASE ~out.install /\ out.entries = <<>> /\ ~out.reset
  BY <1>8, NothingPublished DEF Grows, out
<1> QED BY <1>3, <1>7, <1>8

\* Every read keeps the rows of the checkpoint it was given (read_candidate).
LEMMA ReadGrows ==
  ASSUME NEW req \in Worker, NEW f \in FileType, NEW identity \in Nat,
         NEW fault \in Fault, Coherent(req.checkpoint)
  PROVE  Grows(read_candidate(req, f, identity, fault), req.checkpoint)
<1> DEFINE ck == req.checkpoint
           saw == NewGeneration(ck, f, identity)
           pending == IF saw THEN "generation" ELSE req.pending
           out == read_opened(req, f, identity, pending, fault, saw)
<1>1. ck \in Checkpoint /\ req.pending \in Transition
  BY DEF Worker
<1>2. ck.raw_offset \in Nat /\ Len(f.data) \in Nat
  BY <1>1 DEF Checkpoint, FileType
<1>3. saw \in BOOLEAN
  BY DEF NewGeneration, identities_differ
<1>4. pending \in Transition /\ "windows1252" \in Transition
  BY <1>1 DEF Transition
<1>5. pending = "none" => ck.raw_offset <= Len(f.data)
  BY <1>2 DEF NewGeneration
<1>6. \A p, reason, b : Grows(GapOutcome(req, p, reason, b), ck)
  BY NothingPublished DEF GapOutcome, Grows
<1>7. \A p \in Transition : Grows(ResetOutcome(req, f, identity, p, fault, saw), ck)
  <2> HIDE DEF saw
  <2> QED BY <1>3, ResetGrows
<1>8. pending = "none" => Grows(AppendOutcome(ck, f), ck)
  <2> HIDE DEF pending, ck
  <2>1. Coherent(ck)
    BY DEF ck
  <2> QED BY <1>1, <1>5, <2>1, AppendGrows
<1>9. Grows(out, ck)
  <2>1. \/ out = ResetOutcome(req, f, identity, pending, fault, saw)
        \/ out = GapOutcome(req, pending, "read_failed", saw)
        \/ pending = "none" /\ out = AppendOutcome(ck, f)
        \/ out = GapOutcome(req, pending, "invalid_encoding", saw)
        \/ out = ResetOutcome(req, f, identity, "windows1252", fault, saw)
    <3>1. Explicit(ck, f, AppendUnits(ck, f)) \in BOOLEAN
      BY <1>1 DEF Explicit, Checkpoint, FileType
    <3> HIDE DEF pending, saw
    <3> QED BY <3>1 DEF read_opened
  <2> HIDE DEF pending, saw, out, ck
  <2> QED BY <1>4, <1>6, <1>7, <1>8, <2>1
<1> QED BY <1>6, <1>9 DEF read_candidate

\* Every step of the native side keeps what its reads owe: one case per action.
LEMMA GrowsStep == TypeOK /\ StreamInv /\ GrowsInv /\ [Next]_backend => GrowsInv'
<1> DEFINE Sound(w) == w.pc = "commit" => Grows(w.outcome, w.checkpoint)
<1> SUFFICES ASSUME TypeOK, StreamInv, GrowsInv, [Next]_backend PROVE GrowsInv'
  OBVIOUS
<1>0. worker \in [Token -> Worker] /\ file \in FileType
  BY DEF TypeOK
<1>1. \A t \in Token : Sound(worker[t])
  BY DEF GrowsInv
<1>2. (\A t \in Token : Sound(worker'[t])) => GrowsInv'
  BY DEF GrowsInv
<1> HIDE DEF Sound
<1>3. BumpRevision(worker) \in [Token -> Worker]
      /\ \A t \in Token : Sound(BumpRevision(worker)[t])
  BY <1>0, <1>1, BumpType DEF Sound
<1>4. \A pc \in {"loop", "exited"} : Sound(Idle(pc))
  BY DEF Idle, Sound
<1>5. CASE FileStep \/ parse_file \/ open_log_file_fails \/ UNCHANGED backend
  BY <1>1, <1>2, <1>5
  DEF FileStep, Write, Replace, Truncate, parse_file, open_log_file_fails, backend
<1>6. CASE open_log_file
  BY <1>2, <1>3, <1>6 DEF open_log_file
<1>7. ASSUME NEW t \in Token, admit_tail_start(t)
      PROVE  GrowsInv'
  BY <1>2, <1>3, <1>4, <1>7 DEF admit_tail_start
<1>8. ASSUME NEW t \in Token,
             \/ admit_tail_start_fails(t) \/ stop_tail(t)
             \/ \E paused \in BOOLEAN : set_paused(t, paused)
      PROVE  GrowsInv'
  BY <1>2, <1>3, <1>8 DEF admit_tail_start_fails, stop_tail, set_paused
<1>9. ASSUME NEW t \in Token, worker_exit(t)
      PROVE  GrowsInv'
  BY <1>0, <1>1, <1>2, <1>4, <1>9 DEF worker_exit
<1>10. ASSUME NEW t \in Token, worker_request(t)
       PROVE  GrowsInv'
  <2>1. worker'[t].pc = "read" /\ \A s \in Token \ {t} : worker'[s] = worker[s]
    BY <1>0, <1>10 DEF worker_request
  <2>2. \A s \in Token : Sound(worker'[s])
    BY <1>1, <2>1 DEF Sound
  <2> QED BY <1>2, <2>2
<1>11. ASSUME NEW t \in Token, NEW fault \in Fault, worker_read(t, fault)
       PROVE  GrowsInv'
  <2>1. PICK identity \in Identities(file) :
          worker' = [worker EXCEPT ![t].pc = "commit",
                       ![t].outcome = read_candidate(worker[t], file, identity, fault)]
    BY <1>11 DEF worker_read
  <2> DEFINE out == read_candidate(worker[t], file, identity, fault)
  <2>2. worker[t] \in Worker /\ identity \in Nat
    BY <1>0, IdentityType
  <2>3. Coherent(worker[t].checkpoint)
    BY <1>11 DEF worker_read, StreamInv
  <2>4. Grows(out, worker[t].checkpoint)
    BY <1>0, <2>2, <2>3, ReadGrows
  <2> HIDE DEF out
  <2>5. /\ worker'[t].checkpoint = worker[t].checkpoint /\ worker'[t].outcome = out
        /\ \A s \in Token \ {t} : worker'[s] = worker[s]
    BY <1>0, <2>1 DEF Worker, out
  <2>6. \A s \in Token : Sound(worker'[s])
    BY <1>1, <2>4, <2>5 DEF Sound
  <2> QED BY <1>2, <2>6
<1>12. ASSUME NEW t \in Token, worker_commit(t)
       PROVE  GrowsInv'
  <2>1. \A s \in Token : Sound(worker'[s])
    BY <1>0, <1>1, <1>3, <1>4, <1>12 DEF worker_commit
  <2> QED BY <1>2, <2>1
<1> QED
  BY <1>5, <1>6, <1>7, <1>8, <1>9, <1>10, <1>11, <1>12 DEF Next, CommandStep, WorkerStep

\* Within one session, a worker's step keeps the rows of the committed checkpoint and publishes
\* only rows of it, for the watch that runs.
LEMMA WorkerFaithful ==
  ASSUME TypeOK, FreshIsCommitted, GrowsInv, NEW t \in Token, WorkerStep(t)
  PROVE  /\ owner'.session = owner.session
         /\ \A row \in Row : Faithful(row, owner.checkpoint) => Faithful(row, owner'.checkpoint)
         /\ \A e \in Elements(emitted') :
              /\ e.token.session = owner.session
              /\ \A row \in Elements(e.entries) : Faithful(row, owner'.checkpoint)
<1> DEFINE Goal == /\ owner'.session = owner.session
                   /\ \A row \in Row :
                        Faithful(row, owner.checkpoint) => Faithful(row, owner'.checkpoint)
                   /\ \A e \in Elements(emitted') :
                        /\ e.token.session = owner.session
                        /\ \A row \in Elements(e.entries) : Faithful(row, owner'.checkpoint)
<1>0. worker \in [Token -> Worker] /\ owner \in OwnerType
  BY DEF TypeOK
<1>1. Elements(<<>>) = {} /\ \A a : Elements(<<a>>) = {a}
  BY DEF Elements
<1>2. ASSUME owner' = owner, emitted' = <<>>
      PROVE  Goal
  BY <1>1, <1>2
<1>3. CASE \/ worker_exit(t) \/ worker_request(t)
           \/ \E fault \in Fault : worker_read(t, fault)
  BY <1>2, <1>3 DEF worker_exit, worker_request, worker_read
<1>4. CASE worker_commit(t)
  <2> DEFINE out == worker[t].outcome
             event == [token |-> t, entries |-> out.entries, reset |-> out.reset]
  <2>1. CASE ~Accepts(owner, worker[t], t)
    BY <1>2, <1>4, <2>1 DEF worker_commit
  <2>2. CASE Accepts(owner, worker[t], t)
    <3>1. /\ owner' = commit(owner, out)
          /\ emitted' = <<>> \/ emitted' = <<event>>
      BY <1>4, <2>2 DEF worker_commit, publish
    <3>2. /\ owner'.session = owner.session
          /\ owner'.checkpoint = IF out.install THEN out.checkpoint ELSE owner.checkpoint
      BY <1>0, <3>1 DEF commit, OwnerType
    <3>3. Grows(out, owner.checkpoint) /\ t.session = owner.session
      BY <1>4, <2>2 DEF worker_commit, Accepts, is_current, same_session, FreshIsCommitted, GrowsInv
    <3>4. event.token = t /\ event.entries = out.entries
      OBVIOUS
    <3> HIDE DEF out, event
    <3>5. \A row \in Row : Faithful(row, owner.checkpoint) => Faithful(row, owner'.checkpoint)
      BY <3>2, <3>3 DEF Grows
    <3>6. \A row \in Elements(out.entries) : Faithful(row, owner'.checkpoint)
      BY <1>1, <3>2, <3>3 DEF Grows
    <3>7. \A e \in Elements(emitted') : e = event
      BY <1>1, <3>1
    <3> QED BY <3>2, <3>3, <3>4, <3>5, <3>6, <3>7
  <2> QED BY <2>1, <2>2
<1> QED BY <1>3, <1>4 DEF WorkerStep

\* What a step of the webview may do to the rows.
Shown ==
  /\ owner' = owner /\ opened' \subseteq opened /\ Elements(events') \subseteq Elements(events)
  /\ \/ source'.session = source.session /\ view' \subseteq view
     \/ \E reply \in opened : source'.session = reply.session /\ view' = reply.rows
     \/ \E e \in Elements(events) :
          /\ source'.session = source.session /\ e.token.session = source.session
          /\ view' \subseteq view \cup Elements(e.entries)

\* Every step of the webview does only that.
LEMMA WebviewShows == WatchTypesInv /\ (UserStep \/ WebviewStep) => Shown
<1> SUFFICES ASSUME WatchTypesInv, UserStep \/ WebviewStep PROVE Shown
  OBVIOUS
<1>0. source \in Source /\ events \in Seq(Event)
      /\ \A reply \in opened : reply.session \in 0..MaxSession
  BY DEF WatchTypesInv, WatchTypeOK
<1>1. owner' = owner /\ opened' \subseteq opened
  BY DEF UserStep, WebviewStep, LoadStep, refreshActiveSource, switchToCachedTab,
     loadOtherTab, switchToTab, evictSnapshot, togglePause, otherTabLoaded, otherTabFails,
     loadSelectedLogFile, applyParseResult, loadFails, firewallGone, dropReply, startResolved,
     applyFirewallTail, backend, wires
<1>2. /\ [source EXCEPT !.active = FALSE].session = source.session
      /\ endFirewallWatch(source, watch).session = source.session
      /\ Begin(source).session = source.session
  BY <1>0 DEF Source, endFirewallWatch, Begin
<1>3. CASE applyFirewallTail
  <2>1. /\ events # <<>> /\ events' = Tail(events) /\ source' = source
        /\ view' = IF Applies(source, Head(events))
                   THEN reconcileFirewallRows(view, Head(events)) ELSE view
    BY <1>3 DEF applyFirewallTail
  <2>2. Elements(events') \subseteq Elements(events) /\ Head(events) \in Elements(events)
    <3>1. /\ DOMAIN events = 1..Len(events) /\ Len(events) \in Nat /\ Len(events) >= 1
          /\ DOMAIN Tail(events) = 1..(Len(events) - 1)
          /\ \A i \in 1..(Len(events) - 1) : Tail(events)[i] = events[i + 1]
      BY <1>0, <2>1, HeadTailProperties
    <3>2. Head(events) = events[1] /\ 1 \in DOMAIN events
      BY <1>0, <2>1, <3>1
    <3>3. \A i \in 1..(Len(events) - 1) : i + 1 \in DOMAIN events
      BY <3>1
    <3> QED BY <2>1, <3>1, <3>2, <3>3 DEF Elements
  <2>3. Applies(source, Head(events)) => Head(events).token.session = source.session
    BY DEF Applies, SourceToken
  <2>4. reconcileFirewallRows(view, Head(events)) \subseteq view \cup Elements(Head(events).entries)
    BY DEF reconcileFirewallRows
  <2> QED BY <1>1, <2>1, <2>2, <2>3, <2>4 DEF Shown
<1>4. CASE applyParseResult
  <2>1. PICK reply \in opened :
          LET fresh == [session |-> reply.session, epoch |-> 0, active |-> FALSE]
          IN reply.session # None /\ source' = Begin(fresh) /\ view' = reply.rows
             /\ events' = events
    BY <1>4 DEF applyParseResult
  <2>2. source'.session = reply.session
    BY <1>0, <2>1, BeginTypes DEF None
  <2> QED BY <1>1, <2>1, <2>2 DEF Shown
<1>5. ASSUME \/ UserStep \/ otherTabLoaded \/ otherTabFails \/ loadSelectedLogFile \/ loadFails
             \/ firewallGone \/ dropReply \/ startResolved
      PROVE  source'.session = source.session /\ view' \subseteq view /\ events' = events
  BY <1>2, <1>5
  DEF UserStep, refreshActiveSource, switchToCachedTab, loadOtherTab, switchToTab, evictSnapshot,
      togglePause, otherTabLoaded, otherTabFails, loadSelectedLogFile, loadFails, firewallGone,
      dropReply, startResolved, Unmount, webview, wires
<1> QED BY <1>1, <1>3, <1>4, <1>5 DEF WebviewStep, LoadStep, Shown

\* Every step keeps the rows faithful.
LEMMA FaithfulStep ==
  TypeOK /\ WatchTypesInv /\ OrphanInv /\ FreshIsCommitted /\ StreamInv /\ GrowsInv /\ FaithfulInv
    /\ [WatchNext]_vars => FaithfulInv'
<1> SUFFICES ASSUME TypeOK, WatchTypesInv, OrphanInv, FreshIsCommitted, StreamInv, GrowsInv,
                    FaithfulInv, [WatchNext]_vars
             PROVE  FaithfulInv'
  OBVIOUS
<1>0. /\ owner \in OwnerType /\ owner.session \in Nat /\ owner.session >= 1
      /\ source.session \in Nat /\ source.session <= owner.session
      /\ commands \in Seq(Command) /\ events \in Seq(Event)
      /\ \A reply \in opened : /\ reply.session \in Nat /\ reply.session <= owner.session
                               /\ reply.rows \subseteq Row
      /\ \A row \in view : row \in Row
  BY DEF TypeOK, OwnerType, WatchTypesInv, WatchTypeOK, Source, OrphanInv
<1>1. \A e \in Elements(events) : e.token.session \in Nat /\ Elements(e.entries) \subseteq Row
  <2>1. \A e \in Elements(events) : e \in Event
    BY <1>0 DEF Elements
  <2>2. \A e \in Event : e.token.session \in Nat /\ e.entries \in Seq(Row)
    BY DEF Event, Token
  <2> QED BY <2>1, <2>2 DEF Elements
<1>2. CASE UserStep \/ WebviewStep
  <2>1. Shown
    BY <1>2, WebviewShows
  <2>2. source'.session = owner'.session => \A row \in view' : Faithful(row, owner'.checkpoint)
    BY <2>1 DEF Shown, FaithfulInv
  <2> QED BY <2>1, <2>2 DEF Shown, FaithfulInv
<1>3. ASSUME UNCHANGED <<view, source>>, owner'.session = owner.session,
             \A row \in Row : Faithful(row, owner.checkpoint) => Faithful(row, owner'.checkpoint),
             \A e \in Elements(events') :
               \/ e \in Elements(events)
               \/ /\ e.token.session = owner.session
                  /\ \A row \in Elements(e.entries) : Faithful(row, owner'.checkpoint),
             \A reply \in opened' : reply \in opened \/ reply.session = 0
      PROVE  FaithfulInv'
  <2>1. source'.session = owner'.session => \A row \in view' : Faithful(row, owner'.checkpoint)
    BY <1>0, <1>3 DEF FaithfulInv
  <2>2. \A e \in Elements(events') : e.token.session <= owner'.session
    BY <1>0, <1>3 DEF FaithfulInv
  <2>3. \A e \in Elements(events') :
          e.token.session = owner'.session =>
            \A row \in Elements(e.entries) : Faithful(row, owner'.checkpoint)
    BY <1>1, <1>3 DEF FaithfulInv
  <2>4. \A reply \in opened' :
          reply.session = owner'.session =>
            \A row \in reply.rows : Faithful(row, owner'.checkpoint)
    BY <1>0, <1>3 DEF FaithfulInv
  <2> QED BY <2>1, <2>2, <2>3, <2>4 DEF FaithfulInv
<1>4. CASE handleCommand
  <2>1. UNCHANGED <<view, source>> /\ events' = events
    BY <1>4 DEF handleCommand, webview
  <2>2. PICK i \in DOMAIN commands : \/ nativeOpen(commands[i]) \/ nativeStart(commands[i])
                                     \/ nativeStop(commands[i]) \/ nativePause(commands[i])
    BY <1>4 DEF handleCommand
  <2>3. owner'.session = owner.session /\ owner'.checkpoint = owner.checkpoint
    BY <1>0, <2>2
    DEF nativeOpen, nativeStart, nativeStop, nativePause, parse_file, open_log_file_fails,
        admit_tail_start, admit_tail_start_fails, stop_tail, set_paused, start, stop, backend,
        OwnerType
  <2>4. \A reply \in opened' : reply \in opened \/ reply.session = 0
    BY <2>2 DEF nativeOpen, nativeStart, nativeStop, nativePause, Reply, None
  <2> QED BY <1>3, <2>1, <2>3, <2>4
<1>5. CASE nativeInstall
  <2>1. PICK ck \in opening : owner' = NewOwner(owner.session + 1, ck)
    BY <1>5 DEF nativeInstall, open_log_file
  <2>2. /\ owner'.session = owner.session + 1 /\ owner'.checkpoint = ck
        /\ UNCHANGED <<view, source>> /\ events' = events
    BY <1>5, <2>1 DEF NewOwner, nativeInstall, webview
  <2>3. \A row \in Elements(ck.rows) : Faithful(row, ck)
    BY OwnRowsAreFaithful DEF StreamInv, TypeOK
  <2> DEFINE new == Reply(parsing, IF owner'.firewall THEN owner'.session ELSE None, FALSE,
                          Elements(owner'.checkpoint.rows))
  <2>4. opened' = opened \cup {new} /\ new.rows = Elements(ck.rows)
    BY <1>5, <2>2 DEF nativeInstall, Reply
  <2> HIDE DEF new
  <2>5. \A reply \in opened : reply.session # owner'.session
    BY <1>0, <2>2
  <2>6. \A reply \in opened' :
          reply.session = owner'.session =>
            \A row \in reply.rows : Faithful(row, owner'.checkpoint)
    BY <2>2, <2>3, <2>4, <2>5
  <2>7. source'.session # owner'.session
    BY <1>0, <2>2
  <2>8. \A e \in Elements(events') :
          e.token.session <= owner'.session /\ e.token.session # owner'.session
    BY <1>0, <1>1, <2>2 DEF FaithfulInv
  <2> QED BY <2>6, <2>7, <2>8 DEF FaithfulInv
<1>6. ASSUME NEW t \in Token, nativeWorker(t)
      PROVE  FaithfulInv'
  <2>1. /\ WorkerStep(t) /\ events' = events \o emitted'
        /\ UNCHANGED <<view, source>> /\ opened' = opened
    BY <1>6 DEF nativeWorker, webview
  <2>2. emitted' \in Seq(Event)
    <3>1. TypeOK'
      BY WatchTypesStep
    <3> QED BY <3>1 DEF TypeOK
  <2>3. Elements(events') = Elements(events) \cup Elements(emitted')
    BY <1>0, <2>1, <2>2, ElementsJoin
  <2>4. /\ owner'.session = owner.session
        /\ \A row \in Row : Faithful(row, owner.checkpoint) => Faithful(row, owner'.checkpoint)
        /\ \A e \in Elements(emitted') :
             /\ e.token.session = owner.session
             /\ \A row \in Elements(e.entries) : Faithful(row, owner'.checkpoint)
    BY <2>1, WorkerFaithful
  <2> QED BY <1>3, <2>1, <2>3, <2>4
<1>7. CASE fileChanges \/ UNCHANGED vars
  <2>1. /\ UNCHANGED <<view, source>> /\ owner' = owner /\ opened' = opened /\ events' = events
    BY <1>7 DEF fileChanges, FileStep, Write, Replace, Truncate, vars, backend, webview, wires
  <2> QED BY <1>3, <2>1
<1> QED BY <1>2, <1>4, <1>5, <1>6, <1>7 DEF WatchNext

\* Every row in view was produced by the source in view, and one whose id the present generation of
\* the checkpoint covers is a row of it, whatever loads, replies and events cross
\* (reconcileFirewallRows, applyFirewallTail, read_opened).
THEOREM ViewFaithful == WatchSpec => []ViewIsFaithful
<1> DEFINE Inv == /\ TypeOK /\ WatchTypesInv /\ TailedInv /\ OrphanInv
                  /\ FreshIsCommitted /\ StreamInv /\ GrowsInv /\ FaithfulInv
<1>1. WatchInit => Inv
  <2> SUFFICES ASSUME WatchInit PROVE Inv
    OBVIOUS
  <2>1. /\ TypeOK /\ WatchTypesInv /\ TailedInv /\ OrphanInv
        /\ FreshIsCommitted /\ StreamInv
    BY WatchTypesInit, NativeStep, OrphanInit
  <2>2. GrowsInv
    BY DEF GrowsInv, WatchInit, Init, Idle
  <2>3. \A row \in view : Faithful(row, owner.checkpoint)
    <3>1. owner.checkpoint \in Checkpoint /\ Coherent(owner.checkpoint)
      BY <2>1 DEF TypeOK, OwnerType, StreamInv
    <3> QED BY <3>1, OwnRowsAreFaithful DEF WatchInit
  <2>4. Elements(events) = {} /\ opened = {}
    BY DEF WatchInit, Elements
  <2> QED BY <2>1, <2>2, <2>3, <2>4 DEF FaithfulInv
<1>2. Inv /\ [WatchNext]_vars => Inv'
  BY WatchTypesStep, NativeStep, StepIsNative, OrphanStep, GrowsStep, FaithfulStep
<1>3. Inv => ViewIsFaithful
  BY DEF ViewIsFaithful, FaithfulInv, Faithful, WatchTypesInv
<1> HIDE DEF Inv
<1> QED BY <1>1, <1>2, <1>3, PTL DEF WatchSpec

----------------------------------------------------------------------------
(* A tab that stays in view *)

\* The elements of a queue one element is taken from, by their places.
LEMMA WithoutAt ==
  ASSUME NEW S, NEW s \in Seq(S), NEW i \in DOMAIN s
  PROVE  /\ DOMAIN Without(s, i) = 1..(Len(s) - 1) /\ Len(Without(s, i)) = Len(s) - 1
         /\ \A j \in 1..(Len(s) - 1) : Without(s, i)[j] = IF j < i THEN s[j] ELSE s[j + 1]
<1> DEFINE front == SubSeq(s, 1, i - 1)
           back == SubSeq(s, i + 1, Len(s))
<1>1. Len(s) \in Nat /\ DOMAIN s = 1..Len(s) /\ i \in 1..Len(s)
  OBVIOUS
<1>2. front \in Seq(S) /\ Len(front) = i - 1 /\ \A j \in 1..(i - 1) : front[j] = s[j]
  <2>1. \A j \in 1..(i - 1) : 1 + j - 1 = j
    BY <1>1
  <2>2. front \in Seq(S)
    BY <1>1
  <2>3. Len(front) = i - 1 /\ \A j \in 1..(i - 1) : front[j] = s[1 + j - 1]
    BY <1>1, SubSeqProperties
  <2> QED BY <2>1, <2>2, <2>3
<1>3. back \in Seq(S) /\ Len(back) = Len(s) - i /\ \A j \in 1..(Len(s) - i) : back[j] = s[i + j]
  <2>1. \A j \in 1..(Len(s) - i) : i + 1 + j - 1 = i + j
    BY <1>1
  <2>2. back \in Seq(S)
    BY <1>1
  <2>3. Len(back) = Len(s) - i /\ \A j \in 1..(Len(s) - i) : back[j] = s[i + 1 + j - 1]
    BY <1>1, SubSeqProperties
  <2> QED BY <1>1, <2>1, <2>2, <2>3
<1>4. Without(s, i) = front \o back
  BY DEF Without
<1> HIDE DEF front, back
<1>5. Len(front) + Len(back) = Len(s) - 1
  BY <1>1, <1>2, <1>3
<1>6. /\ Len(front \o back) = Len(s) - 1 /\ DOMAIN (front \o back) = 1..(Len(s) - 1)
      /\ \A j \in 1..(Len(s) - 1) :
           (front \o back)[j] = IF j <= Len(front) THEN front[j] ELSE back[j - Len(front)]
  <2>1. front \in Seq(S) /\ back \in Seq(S)
    BY <1>2, <1>3
  <2>2. /\ Len(front \o back) = Len(front) + Len(back)
        /\ \A j \in 1..(Len(front) + Len(back)) :
             (front \o back)[j] = IF j <= Len(front) THEN front[j] ELSE back[j - Len(front)]
    BY <2>1, ConcatProperties
  <2>3. front \o back \in Seq(S)
    BY <2>1, ConcatProperties
  <2>4. DOMAIN (front \o back) = 1..Len(front \o back)
    BY <2>3
  <2> QED BY <1>5, <2>2, <2>4
<1>7. ASSUME NEW j \in 1..(Len(s) - 1)
      PROVE  (front \o back)[j] = IF j < i THEN s[j] ELSE s[j + 1]
  <2>1. CASE j < i
    <3>1. j \in 1..(i - 1) /\ j <= Len(front)
      BY <1>1, <1>2, <2>1
    <3> QED BY <1>2, <1>6, <2>1, <3>1
  <2>2. CASE ~(j < i)
    <3>1. /\ ~(j <= Len(front)) /\ j - Len(front) \in 1..(Len(s) - i)
          /\ i + (j - Len(front)) = j + 1
      BY <1>1, <1>2, <2>2
    <3> QED BY <1>3, <1>6, <2>2, <3>1
  <2> QED BY <2>1, <2>2
<1> QED BY <1>4, <1>6, <1>7

\* At most one load is on its way to the native side.
OpenSent == \E c \in Elements(commands) : c.op = "open"
Once(s) == \A i, j \in DOMAIN s : s[i].op = "open" /\ s[j].op = "open" => i = j

\* What is sent or taken keeps that, unless a second load is sent.
LEMMA OnceSent ==
  ASSUME NEW s \in Seq(Command), Once(s)
  PROVE  /\ \A c \in Command :
              c.op # "open" \/ (\A d \in Elements(s) : d.op # "open") => Once(Append(s, c))
         /\ \A t \in Seq(Command) : (\A c \in Elements(t) : c.op # "open") => Once(s \o t)
         /\ \A i \in DOMAIN s :
              /\ Once(Without(s, i))
              /\ s[i].op = "open" => \A c \in Elements(Without(s, i)) : c.op # "open"
<1>1. Len(s) \in Nat /\ DOMAIN s = 1..Len(s)
  OBVIOUS
<1>2. ASSUME NEW c \in Command, c.op # "open" \/ (\A d \in Elements(s) : d.op # "open")
      PROVE  Once(Append(s, c))
  <2>1. /\ DOMAIN Append(s, c) = 1..(Len(s) + 1) /\ Append(s, c)[Len(s) + 1] = c
        /\ \A i \in 1..Len(s) : Append(s, c)[i] = s[i]
    BY <1>1, AppendProperties
  <2>2. \A i \in 1..(Len(s) + 1) : i \in 1..Len(s) \/ i = Len(s) + 1
    BY <1>1
  <2> QED BY <1>1, <1>2, <2>1, <2>2 DEF Once, Elements
<1>3. ASSUME NEW t \in Seq(Command), \A c \in Elements(t) : c.op # "open"
      PROVE  Once(s \o t)
  <2>1. /\ DOMAIN (s \o t) = 1..(Len(s) + Len(t))
        /\ \A i \in 1..(Len(s) + Len(t)) :
             (s \o t)[i] = IF i <= Len(s) THEN s[i] ELSE t[i - Len(s)]
    BY ConcatProperties, <1>1
  <2>2. ASSUME NEW i \in 1..(Len(s) + Len(t)), (s \o t)[i].op = "open"
        PROVE  i \in 1..Len(s) /\ (s \o t)[i] = s[i]
    <3>1. CASE i <= Len(s)
      BY <1>1, <2>1, <3>1
    <3>2. CASE ~(i <= Len(s))
      <4>1. i - Len(s) \in DOMAIN t
        BY <1>1, <3>2
      <4> QED BY <1>3, <2>1, <2>2, <3>2, <4>1 DEF Elements
    <3> QED BY <3>1, <3>2
  <2> QED BY <1>1, <2>1, <2>2 DEF Once
<1>4. ASSUME NEW i \in DOMAIN s
      PROVE  /\ Once(Without(s, i))
             /\ s[i].op = "open" => \A c \in Elements(Without(s, i)) : c.op # "open"
  <2> DEFINE r == Without(s, i)
             at(j) == IF j < i THEN j ELSE j + 1
  <2>1. DOMAIN r = 1..(Len(s) - 1) /\ \A j \in DOMAIN r : r[j] = s[at(j)]
    BY WithoutAt
  <2> HIDE DEF r
  <2>2. \A j \in DOMAIN r : at(j) \in DOMAIN s /\ at(j) # i
    BY <1>1, <2>1
  <2>3. \A j, k \in DOMAIN r : at(j) = at(k) => j = k
    BY <1>1, <2>1
  <2> HIDE DEF at
  <2>4. Once(r)
    BY <2>1, <2>2, <2>3 DEF Once
  <2>5. s[i].op = "open" => \A c \in Elements(r) : c.op # "open"
    BY <2>1, <2>2 DEF Once, Elements
  <2> QED BY <2>4, <2>5 DEF r
<1> QED BY <1>2, <1>3, <1>4

\* What the watch effects send opens nothing, and stops only what was mounted.
LEMMA EffectsOnly ==
  /\ \A s \in Source : \A c \in Elements(WatchCommands(s)) : c.op \notin {"open", "stop"}
  /\ \A tokens : \A c \in Elements(CleanupCommands(tokens)) : c.op = "stop" /\ c.token \in tokens
<1>1. /\ \A a : Elements(<<a>>) = {a}
      /\ Elements(<<>>) = {}
  BY DEF Elements
<1>2. \A a, b : Elements(<<a, b>>) = {a, b}
  <2> SUFFICES ASSUME NEW a, NEW b PROVE Elements(<<a, b>>) = {a, b}
    OBVIOUS
  <2>1. DOMAIN <<a, b>> = {1, 2} /\ <<a, b>>[1] = a /\ <<a, b>>[2] = b
    OBVIOUS
  <2> QED BY <2>1 DEF Elements
<1>3. ASSUME NEW s \in Source, NEW c \in Elements(WatchCommands(s))
      PROVE  c.op \notin {"open", "stop"}
  <2>1. c = Control("start", SourceToken(Begin(s))) \/ c = PauseControl(SourceToken(Begin(s)))
    BY <1>1, <1>2 DEF WatchCommands
  <2> QED BY <2>1 DEF Control, PauseControl
<1>4. ASSUME NEW tokens, NEW c \in Elements(CleanupCommands(tokens))
      PROVE  c.op = "stop" /\ c.token \in tokens
  <2>1. tokens # {} /\ c = Control("stop", CHOOSE t \in tokens : TRUE)
    BY <1>1 DEF CleanupCommands
  <2>2. (CHOOSE t \in tokens : TRUE) \in tokens
    BY <2>1
  <2> QED BY <2>1, <2>2 DEF Control
<1> QED BY <1>3, <1>4

\* One load at a time: its open is on its way, being parsed, or answered.
LoadsInv ==
  /\ Once(commands)
  /\ \A c \in Elements(commands) : c.op = "open" => c.load = switches /\ parsing = 0 /\ opened = {}
  /\ parsing # 0 => parsing = switches /\ opened = {}
  /\ \A reply \in opened : reply.load = switches /\ opened = {reply}
  /\ OpenSent \/ parsing # 0 \/ opened # {} => isLoading /\ shown

\* The tab in view is watched, and one that has left it never returns; each source is watched once.
StayingInv ==
  /\ selected /\ away = {} /\ leaving = {}
  /\ shown <=> source.active
  /\ ~shown => watch = {}
  /\ source.epoch = 1 /\ owner.epoch <= 1
  /\ \A t \in Token : StartSent(t) \/ StopSent(t) => t.epoch = 1 /\ t.session <= source.session
  /\ \A t \in Token : Shows(t) => ~StopSent(t)

\* The webview knows the present session, or the reply that tells of it is on its way.
SessionsInv ==
  /\ source.active /\ opened = {} => source.session = owner.session
  /\ \A reply \in opened :
       IF reply.failed
         THEN reply.session = None /\ source.session = owner.session
         ELSE /\ owner.session = source.session + 1 /\ owner.epoch = 0
              /\ reply.session = IF owner.firewall THEN owner.session ELSE None
  /\ source.active /\ source.session = owner.session => owner.firewall

StayInv == LoadsInv /\ StayingInv /\ SessionsInv

\* A step that neither loads, starts nor stops keeps all of this.
LEMMA QuietStep ==
  ASSUME StayInv,
         UNCHANGED <<source, watch, shown, selected, away, leaving, parsing, opened, switches,
                     isLoading>>,
         owner'.session = owner.session, owner'.epoch = owner.epoch,
         owner'.firewall = owner.firewall, Once(commands'),
         \A c \in Elements(commands') :
           c \in Elements(commands) \/ c.op \notin {"open", "start", "stop"}
  PROVE  StayInv'
<1>1. /\ \A t : StartSent(t)' => StartSent(t)
      /\ \A t : StopSent(t)' => StopSent(t)
      /\ \A t : Shows(t)' <=> Shows(t)
      /\ OpenSent' => OpenSent
  BY DEF StartSent, StopSent, Shows, OpenSent, SourceToken
<1>2. LoadsInv'
  BY <1>1 DEF StayInv, LoadsInv
<1>3. StayingInv'
  BY <1>1 DEF StayInv, StayingInv
<1>4. SessionsInv'
  BY DEF StayInv, SessionsInv
<1> QED BY <1>2, <1>3, <1>4 DEF StayInv

\* Every step of the webview keeps it, as long as no other tab takes the view: one case per action.
LEMMA WebviewStays ==
  ASSUME Tabs = {}, WatchTypesInv, WatchTypesInv', OrphanInv, StayInv, UserStep \/ WebviewStep
  PROVE  StayInv'
<1>0. /\ source \in Source /\ source.epoch = 1 /\ watch \subseteq Token
      /\ source.session \in Nat /\ owner.epoch <= 1
      /\ commands \in Seq(Command) /\ SourceToken(source) \in Token
      /\ selected /\ away = {} /\ leaving = {} /\ Once(commands)
      /\ source.active <=> shown
      /\ shown => watch = {SourceToken(source)}
      /\ ~shown => watch = {}
      /\ \A reply \in opened : reply.load = switches /\ opened = {reply}
      /\ \A t \in Token : StartSent(t) \/ StopSent(t) => t.epoch = 1 /\ t.session <= source.session
      /\ \A t \in Token : t.session \in Nat
  <2>1. source \in Source /\ source.epoch = 1
    BY DEF WatchTypesInv, WatchTypeOK, StayInv, StayingInv
  <2>2. SourceToken(source) \in Token
    BY <2>1, EpochAssumption DEF Source, SourceToken, Token
  <2> QED
    BY <2>1, <2>2, SMTT(30) DEF WatchTypesInv, WatchTypeOK, StayInv, StayingInv, LoadsInv,
       OrphanInv, Source, Token
<1>1. owner' = owner
  BY DEF UserStep, WebviewStep, LoadStep, refreshActiveSource, switchToCachedTab,
     loadOtherTab, switchToTab, evictSnapshot, togglePause, otherTabLoaded, otherTabFails,
     loadSelectedLogFile, applyParseResult, loadFails, firewallGone, dropReply, startResolved,
     applyFirewallTail, backend
<1>2. CleanupCommands(watch) \in Seq(Command)
  BY <1>0, BeginTypes
<1>3. ~(switchToCachedTab \/ loadOtherTab \/ switchToTab \/ otherTabLoaded \/ otherTabFails
        \/ loadSelectedLogFile \/ dropReply)
  BY <1>0 DEF switchToCachedTab, loadOtherTab, switchToTab, otherTabLoaded, otherTabFails,
     loadSelectedLogFile, dropReply, isCurrentTabSwitch
<1>4. ASSUME UNCHANGED <<source, watch, shown, selected, away, leaving, parsing, opened, switches,
                         isLoading>>,
             \/ commands' = commands
             \/ \E op \in {"pause", "resume"}, t \in Token :
                  commands' = Append(commands, Control(op, t))
      PROVE  StayInv'
  <2>1. \A c \in Elements(commands') :
          c \in Elements(commands) \/ c.op \notin {"open", "start", "stop"}
    <3>1. ASSUME NEW op \in {"pause", "resume"}, NEW t \in Token,
                 commands' = Append(commands, Control(op, t))
          PROVE  \A c \in Elements(commands') :
                   c \in Elements(commands) \/ c.op \notin {"open", "start", "stop"}
      <4>1. Control(op, t) \in Command /\ Control(op, t).op = op
        BY BeginTypes DEF Control
      <4>2. Elements(commands') = Elements(commands) \cup {Control(op, t)}
        BY <1>0, <3>1, <4>1, ElementsJoin
      <4> QED BY <4>1, <4>2
    <3> QED BY <1>4, <3>1
  <2>2. Once(commands')
    <3>1. \A op \in {"pause", "resume"}, t \in Token :
            Control(op, t) \in Command /\ Control(op, t).op # "open"
      BY BeginTypes DEF Control
    <3>2. \A op \in {"pause", "resume"}, t \in Token : Once(Append(commands, Control(op, t)))
      BY <1>0, <3>1, OnceSent
    <3> QED BY <1>0, <1>4, <3>2
  <2> QED BY <1>1, <1>4, <2>1, <2>2, QuietStep
<1>5. CASE togglePause
  BY <1>0, <1>4, <1>5 DEF togglePause
<1>6. CASE startResolved
  <2>1. started \subseteq Token
    BY DEF WatchTypesInv, WatchTypeOK
  <2>2. \/ commands' = commands
        \/ \E op \in {"pause", "resume"}, t \in Token :
             commands' = Append(commands, Control(op, t))
    BY <1>6, <2>1 DEF startResolved, PauseControl
  <2> QED BY <1>4, <1>6, <2>2 DEF startResolved, webview
<1>7. CASE evictSnapshot \/ applyFirewallTail
  BY <1>4, <1>7 DEF evictSnapshot, applyFirewallTail, wires
<1>8. CASE refreshActiveSource
  <2> DEFINE open == [op |-> "open", load |-> switches']
  <2>1. /\ shown /\ ~isLoading /\ switches' = switches + 1 /\ isLoading' = TRUE
        /\ commands' = Append(commands, open)
        /\ UNCHANGED <<source, watch, shown, selected, away, leaving, parsing, opened>>
    BY <1>8 DEF refreshActiveSource
  <2>2. ~OpenSent /\ parsing = 0 /\ opened = {}
    BY <2>1 DEF StayInv, LoadsInv
  <2>3. open \in Command /\ open.op = "open" /\ open.load = switches'
    <3>1. switches' \in 1..MaxLoad
      BY <1>8, UserAssumption DEF refreshActiveSource, WatchTypesInv, WatchTypeOK
    <3> QED BY <3>1 DEF Command
  <2> HIDE DEF open
  <2>4. Elements(commands') = Elements(commands) \cup {open}
    BY <1>0, <2>1, <2>3, ElementsJoin
  <2>5. Once(commands')
    BY <1>0, <2>1, <2>2, <2>3, OnceSent DEF OpenSent
  <2>6. /\ \A t : StartSent(t)' => StartSent(t)
        /\ \A t : StopSent(t)' => StopSent(t)
        /\ \A t : Shows(t)' <=> Shows(t)
    BY <2>1, <2>3, <2>4 DEF StartSent, StopSent, Shows, SourceToken
  <2>7. LoadsInv'
    BY <2>1, <2>2, <2>3, <2>4, <2>5 DEF LoadsInv, OpenSent
  <2>8. StayingInv'
    BY <1>1, <2>1, <2>6 DEF StayInv, StayingInv
  <2>9. SessionsInv'
    BY <1>1, <2>1, <2>2 DEF StayInv, SessionsInv
  <2> QED BY <2>7, <2>8, <2>9 DEF StayInv
<1>9. \A reply \in opened : parsing = 0 /\ ~OpenSent
  BY DEF StayInv, LoadsInv, OpenSent
<1>10. ASSUME NEW reply \in opened, opened' = opened \ {reply}, ~shown', ~source'.active,
              source'.session = source.session, source'.epoch = 1, watch' = {}, selected' = TRUE,
              UNCHANGED <<away, leaving, parsing>>,
              commands' = commands \o CleanupCommands(watch)
       PROVE  StayInv'
  <2>1. Elements(commands') = Elements(commands) \cup Elements(CleanupCommands(watch))
    BY <1>0, <1>2, <1>10, ElementsJoin
  <2>2. \A c \in Elements(CleanupCommands(watch)) : c.op = "stop" /\ c.token = SourceToken(source)
    BY <1>0, EffectsOnly
  <2>3. Once(commands')
    <3>1. \A c \in Elements(CleanupCommands(watch)) : c.op # "open"
      BY <2>2
    <3> QED BY <1>0, <1>2, <1>10, <3>1, OnceSent
  <2>4. opened' = {}
    BY <1>0, <1>10
  <2>5. ~OpenSent' /\ parsing' = 0
    BY <1>9, <1>10, <2>1, <2>2 DEF OpenSent
  <2>6. \A t \in Token : StartSent(t)' \/ StopSent(t)' => t.epoch = 1 /\ t.session <= source.session
    <3>1. \A t : StartSent(t)' => StartSent(t)
      BY <2>1, <2>2 DEF StartSent
    <3>2. \A t : StopSent(t)' => StopSent(t) \/ t = SourceToken(source)
      BY <2>1, <2>2 DEF StopSent
    <3>3. SourceToken(source).epoch = 1 /\ SourceToken(source).session <= source.session
      BY <1>0 DEF SourceToken
    <3> QED BY <1>0, <3>1, <3>2, <3>3
  <2>7. \A t : ~Shows(t)'
    BY <1>10 DEF Shows
  <2>8. LoadsInv'
    BY <2>3, <2>4, <2>5 DEF LoadsInv, OpenSent
  <2>9. StayingInv'
    BY <1>0, <1>1, <1>10, <2>6, <2>7 DEF StayingInv
  <2>10. SessionsInv'
    BY <1>10, <2>4 DEF SessionsInv
  <2> QED BY <2>8, <2>9, <2>10 DEF StayInv
<1>11. CASE loadFails
  <2>1. PICK reply \in opened :
          /\ opened' = opened \ {reply} /\ UNCHANGED <<selected, away, leaving, parsing>>
          /\ IF shown THEN Unmount /\ isPaused' = FALSE
                      ELSE UNCHANGED <<shown, watch, source, commands, isPaused>>
    BY <1>11 DEF loadFails
  <2>2. shown /\ Unmount
    BY <2>1 DEF StayInv, LoadsInv
  <2>3. /\ shown' = FALSE /\ watch' = {} /\ source' = [source EXCEPT !.active = FALSE]
        /\ commands' = commands \o CleanupCommands(watch)
    BY <1>0, <2>2 DEF Unmount, endFirewallWatch
  <2>4. ~source'.active /\ source'.session = source.session /\ source'.epoch = 1
    BY <1>0, <2>3 DEF Source
  <2>5. selected' = TRUE
    BY <2>1, WatchTypesStep DEF StayInv, StayingInv, WatchTypesInv, WatchTypeOK
  <2> QED BY <1>10, <2>1, <2>3, <2>4, <2>5
<1>12. CASE firewallGone
  <2>1. PICK reply \in opened :
          /\ opened' = opened \ {reply} /\ UNCHANGED <<away, leaving, parsing>>
          /\ shown' = FALSE /\ watch' = {} /\ source' = [source EXCEPT !.active = FALSE]
          /\ commands' = commands \o CleanupCommands(watch) /\ selected' = TRUE
    BY <1>12 DEF firewallGone
  <2>2. ~source'.active /\ source'.session = source.session /\ source'.epoch = 1
    BY <1>0, <2>1 DEF Source
  <2> QED BY <1>10, <2>1, <2>2
<1>13. CASE applyParseResult
  <2>1. PICK reply \in opened :
          LET fresh == [session |-> reply.session, epoch |-> 0, active |-> FALSE]
          IN /\ reply.session # None /\ opened' = opened \ {reply}
             /\ source' = Begin(fresh) /\ watch' = Mounted(fresh)
             /\ shown' = TRUE /\ selected' = TRUE
             /\ commands' = commands \o CleanupCommands(watch) \o WatchCommands(fresh)
             /\ UNCHANGED <<away, leaving, parsing>>
    BY <1>13 DEF applyParseResult
  <2> DEFINE fresh == [session |-> reply.session, epoch |-> 0, active |-> FALSE]
             cleaned == commands \o CleanupCommands(watch)
  <2>2. /\ owner.session = source.session + 1 /\ owner.epoch = 0 /\ owner.firewall
        /\ reply.session = owner.session
    BY <2>1 DEF StayInv, SessionsInv
  <2>3. fresh \in Source /\ CanBegin(fresh) /\ fresh.session = owner.session /\ fresh.epoch = 0
    <3>1. reply.session \in 1..MaxSession
      BY <2>1 DEF WatchTypesInv, WatchTypeOK, None
    <3> QED BY <2>2, <3>1, BeginTypes
  <2>4. /\ source' = Begin(fresh) /\ watch' = Mounted(fresh)
        /\ commands' = cleaned \o WatchCommands(fresh)
    BY <2>1
  <2> HIDE DEF fresh
  <2>5. /\ WatchCommands(fresh) \in Seq(Command) /\ source'.session = owner.session
        /\ source'.active /\ source'.epoch = 1
    <3>1. Begin(fresh) = [fresh EXCEPT !.epoch = 0 + 1, !.active = TRUE]
      BY <2>3 DEF Begin
    <3> QED BY <2>3, <2>4, <3>1, BeginTypes DEF Source
  <2>6. /\ cleaned \in Seq(Command) /\ Once(cleaned)
        /\ Elements(cleaned) = Elements(commands) \cup Elements(CleanupCommands(watch))
    <3>1. \A c \in Elements(CleanupCommands(watch)) : c.op # "open"
      BY EffectsOnly
    <3>2. Once(cleaned)
      BY <1>0, <1>2, <3>1, OnceSent
    <3> QED BY <1>0, <1>2, <3>2, SendTypes, ElementsJoin
  <2> HIDE DEF cleaned
  <2>7. Elements(commands') = Elements(cleaned) \cup Elements(WatchCommands(fresh))
    BY <2>4, <2>5, <2>6, ElementsJoin
  <2>8. \A c \in Elements(WatchCommands(fresh)) :
          /\ c.op \notin {"open", "stop"}
          /\ c.op = "start" => c.token = SourceToken(source)'
    BY <2>3, <2>4, EffectsOnly, EffectsSend DEF SourceToken
  <2>9. \A c \in Elements(CleanupCommands(watch)) : c.op = "stop" /\ c.token = SourceToken(source)
    BY <1>0, EffectsOnly
  <2>10. Once(commands')
    <3>1. \A c \in Elements(WatchCommands(fresh)) : c.op # "open"
      BY <2>8
    <3> QED BY <2>4, <2>5, <2>6, <3>1, OnceSent
  <2>11. ~OpenSent' /\ parsing' = 0 /\ opened' = {}
    BY <1>0, <1>9, <2>1, <2>6, <2>7, <2>8, <2>9 DEF OpenSent
  <2>12. /\ \A t : StartSent(t)' => StartSent(t) \/ t = SourceToken(source)'
         /\ \A t : StopSent(t)' => StopSent(t) \/ t = SourceToken(source)
    BY <2>6, <2>7, <2>8, <2>9 DEF StartSent, StopSent
  <2>13. /\ SourceToken(source).epoch = 1 /\ SourceToken(source).session = source.session
         /\ SourceToken(source)'.epoch = 1 /\ SourceToken(source)'.session = source'.session
    BY <1>0, <2>5 DEF SourceToken
  <2>14. source.session < source'.session /\ source'.session \in Nat
    BY <1>0, <2>2, <2>5
  <2>15. \A t \in Token :
           StartSent(t)' \/ StopSent(t)' => t.epoch = 1 /\ t.session <= source'.session
    BY <1>0, <2>12, <2>13, <2>14
  <2>16. \A t \in Token : StopSent(t)' => t.session < source'.session
    BY <1>0, <2>12, <2>13, <2>14
  <2>17. \A t \in Token : Shows(t)' => ~StopSent(t)'
    <3>1. \A t \in Token : Shows(t)' => t.session = source'.session
      BY <2>13 DEF Shows
    <3> QED BY <2>14, <2>16, <3>1
  <2>18. LoadsInv'
    BY <2>10, <2>11 DEF LoadsInv, OpenSent
  <2>19. StayingInv'
    BY <1>0, <1>1, <2>1, <2>5, <2>15, <2>17 DEF StayingInv
  <2>20. SessionsInv'
    BY <1>1, <2>2, <2>5, <2>11 DEF SessionsInv
  <2> QED BY <2>18, <2>19, <2>20 DEF StayInv
<1> QED
  BY <1>3, <1>5, <1>6, <1>7, <1>8, <1>11, <1>12, <1>13 DEF UserStep, WebviewStep, LoadStep

\* Every step of the native side keeps it: one case per action.
LEMMA NativeStays ==
  ASSUME TypeOK, WatchTypesInv, StayInv,
         \/ handleCommand \/ nativeInstall \/ (\E t \in Token : nativeWorker(t)) \/ fileChanges
         \/ UNCHANGED vars
  PROVE  StayInv'
<1>0. /\ owner \in OwnerType /\ owner.session \in Nat /\ owner.epoch \in Nat /\ owner.epoch <= 1
      /\ source.session \in Nat /\ commands \in Seq(Command) /\ Once(commands)
      /\ \A t \in Token : StartSent(t) \/ StopSent(t) => t.epoch = 1 /\ t.session <= source.session
      /\ \A reply \in opened : reply.load = switches /\ opened = {reply}
      /\ \A t \in Token : t.session \in Nat
      /\ source.active <=> shown
  BY DEF TypeOK, OwnerType, WatchTypesInv, WatchTypeOK, Source, StayInv, StayingInv, LoadsInv, Token
<1>1. UNCHANGED webview
  BY DEF handleCommand, nativeInstall, nativeWorker, fileChanges, vars
<1>2. UNCHANGED <<source, watch, shown, selected, away, leaving, switches, isLoading>>
  BY <1>1 DEF webview
<1>3. \A t : Shows(t)' <=> Shows(t)
  BY <1>2 DEF Shows, SourceToken
<1>4. CASE handleCommand
  <2>1. PICK i \in DOMAIN commands :
          /\ \/ nativeOpen(commands[i]) \/ nativeStart(commands[i])
             \/ nativeStop(commands[i]) \/ nativePause(commands[i])
          /\ commands' = Without(commands, i)
    BY <1>4 DEF handleCommand, Without
  <2> DEFINE c == commands[i]
  <2>2. c \in Command /\ c \in Elements(commands)
    BY <1>0 DEF Elements
  <2>3. /\ c.op \in {"start", "stop", "pause", "resume"} => c.token \in Token
        /\ c.op = "open" => c.load \in 1..MaxLoad
    BY <2>2 DEF Command
  <2>4. /\ Elements(commands') \subseteq Elements(commands) /\ Once(commands')
        /\ c.op = "open" => \A d \in Elements(commands') : d.op # "open"
    BY <1>0, <2>1, ElementsRemove, OnceSent
  <2> HIDE DEF c
  <2>5. /\ \A t : StartSent(t)' => StartSent(t)
        /\ \A t : StopSent(t)' => StopSent(t)
        /\ OpenSent' => OpenSent
    BY <2>4 DEF StartSent, StopSent, OpenSent
  <2>6. CASE nativeOpen(c)
    <3>1. /\ c.op = "open" /\ c.load = switches /\ parsing = 0 /\ opened = {} /\ isLoading /\ shown
          /\ owner' = owner
      BY <2>2, <2>6 DEF nativeOpen, parse_file, open_log_file_fails, StayInv, LoadsInv, OpenSent
    <3>2. source.session = owner.session
      BY <1>0, <3>1 DEF StayInv, SessionsInv
    <3>3. StayingInv'
      BY <1>2, <1>3, <2>5, <3>1 DEF StayInv, StayingInv
    <3>4. ~OpenSent'
      BY <2>4, <3>1 DEF OpenSent
    <3>5. CASE parse_file /\ parsing' = c.load /\ UNCHANGED opened
      <4>1. LoadsInv'
        BY <1>2, <2>4, <3>1, <3>4, <3>5 DEF LoadsInv, OpenSent
      <4>2. SessionsInv'
        BY <1>2, <3>1, <3>5 DEF StayInv, SessionsInv
      <4> QED BY <3>3, <4>1, <4>2 DEF StayInv
    <3>6. CASE open_log_file_fails /\ opened' = opened \cup {Reply(c.load, None, TRUE, {})}
               /\ UNCHANGED parsing
      <4> DEFINE failed == Reply(c.load, None, TRUE, {})
      <4>1. failed.load = switches /\ failed.failed = TRUE /\ failed.session = None
        BY <3>1 DEF Reply
      <4>2. opened' = {failed}
        BY <3>1, <3>6
      <4> HIDE DEF failed
      <4>3. LoadsInv'
        BY <1>2, <2>4, <3>1, <3>4, <3>6, <4>1, <4>2 DEF LoadsInv, OpenSent
      <4>4. SessionsInv'
        BY <1>2, <3>1, <3>2, <4>1, <4>2 DEF StayInv, SessionsInv
      <4> QED BY <3>3, <4>3, <4>4 DEF StayInv
    <3> QED BY <2>6, <3>5, <3>6 DEF nativeOpen
  <2>7. ASSUME UNCHANGED <<parsing, opened>>, owner'.session = owner.session,
               owner'.firewall = owner.firewall,
               \/ owner'.epoch = owner.epoch
               \/ owner'.epoch = 1 /\ owner.session <= source.session
        PROVE  StayInv'
    <3>1. StayingInv'
      BY <1>0, <1>2, <1>3, <2>5, <2>7 DEF StayInv, StayingInv
    <3>2. LoadsInv'
      BY <1>2, <2>4, <2>5, <2>7 DEF StayInv, LoadsInv
    <3>3. SessionsInv'
      BY <1>0, <1>2, <2>7 DEF StayInv, SessionsInv
    <3> QED BY <3>1, <3>2, <3>3 DEF StayInv
  <2>8. ASSUME c.op \in {"start", "stop"}, same_session(owner, c.token)
        PROVE  c.token.epoch = 1 /\ owner.session <= source.session
    <3>1. StartSent(c.token) \/ StopSent(c.token)
      BY <2>2, <2>8 DEF StartSent, StopSent
    <3> QED BY <1>0, <2>3, <2>8, <3>1 DEF same_session
  <2>9. CASE nativeStart(c)
    <3>1. CASE ~Starts(owner, c.token)
      <4>1. UNCHANGED backend
        BY <2>9, <3>1 DEF nativeStart, admit_tail_start_fails
      <4> QED BY <2>7, <2>9, <4>1 DEF nativeStart, backend
    <3>2. CASE Starts(owner, c.token)
      <4>1. c.token.epoch = 1 /\ owner.session <= source.session
        BY <2>8, <2>9, <3>2 DEF nativeStart, Starts
      <4>2. /\ owner'.session = owner.session /\ owner'.firewall = owner.firewall
            /\ owner'.epoch = c.token.epoch
        BY <1>0, <2>9, <3>2 DEF nativeStart, admit_tail_start, admit_tail_start_fails, start, stop,
           OwnerType
      <4> QED BY <2>7, <2>9, <4>1, <4>2 DEF nativeStart
    <3> QED BY <3>1, <3>2
  <2>10. CASE nativeStop(c)
    <3>1. CASE ~Stops(owner, c.token)
      <4>1. UNCHANGED backend
        BY <2>10, <3>1 DEF nativeStop
      <4> QED BY <2>7, <2>10, <4>1 DEF nativeStop, backend
    <3>2. CASE Stops(owner, c.token)
      <4>1. c.token.epoch = 1 /\ owner.session <= source.session
        BY <2>8, <2>10, <3>2 DEF nativeStop, Stops
      <4>2. /\ owner'.session = owner.session /\ owner'.firewall = owner.firewall
            /\ owner'.epoch = c.token.epoch
        BY <1>0, <2>10, <3>2 DEF nativeStop, stop_tail, stop, OwnerType
      <4> QED BY <2>7, <2>10, <4>1, <4>2 DEF nativeStop
    <3> QED BY <3>1, <3>2
  <2>11. CASE nativePause(c)
    <3>1. /\ owner'.session = owner.session /\ owner'.firewall = owner.firewall
          /\ owner'.epoch = owner.epoch
      BY <1>0, <2>11 DEF nativePause, set_paused, backend, OwnerType
    <3> QED BY <2>7, <2>11, <3>1 DEF nativePause
  <2> QED BY <2>1, <2>6, <2>9, <2>10, <2>11 DEF c
<1>5. CASE nativeInstall
  <2>1. PICK ck \in opening : owner' = NewOwner(owner.session + 1, ck)
    BY <1>5 DEF nativeInstall, open_log_file
  <2>2. parsing # 0
    BY <2>1 DEF WatchTypesInv
  <2>3. parsing = switches /\ opened = {} /\ isLoading /\ shown /\ ~OpenSent
    BY <2>2 DEF StayInv, LoadsInv, OpenSent
  <2>4. source.session = owner.session
    BY <1>0, <2>3 DEF StayInv, SessionsInv
  <2>5. owner'.session = owner.session + 1 /\ owner'.epoch = 0
    BY <2>1 DEF NewOwner
  <2> DEFINE new == Reply(parsing, IF owner'.firewall THEN owner'.session ELSE None, FALSE,
                          Elements(owner'.checkpoint.rows))
  <2>6. /\ new.load = parsing /\ new.failed = FALSE
        /\ new.session = IF owner'.firewall THEN owner'.session ELSE None
    BY DEF Reply
  <2>7. opened' = {new} /\ parsing' = 0 /\ commands' = commands
    BY <1>5, <2>3 DEF nativeInstall
  <2> HIDE DEF new
  <2>8. /\ \A t : StartSent(t)' <=> StartSent(t)
        /\ \A t : StopSent(t)' <=> StopSent(t)
        /\ OpenSent' <=> OpenSent
    BY <2>7 DEF StartSent, StopSent, OpenSent
  <2>9. LoadsInv'
    BY <1>0, <1>2, <2>3, <2>6, <2>7, <2>8 DEF LoadsInv, OpenSent
  <2>10. StayingInv'
    BY <1>2, <1>3, <2>5, <2>8 DEF StayInv, StayingInv
  <2>11. SessionsInv'
    BY <1>0, <1>2, <2>4, <2>5, <2>6, <2>7 DEF SessionsInv
  <2> QED BY <2>9, <2>10, <2>11 DEF StayInv
<1>6. ASSUME (\E t \in Token : nativeWorker(t)) \/ fileChanges \/ UNCHANGED vars
      PROVE  StayInv'
  <2>1. UNCHANGED <<commands, opened, parsing>>
    BY <1>6 DEF nativeWorker, fileChanges, vars, wires
  <2>2. /\ owner'.session = owner.session /\ owner'.epoch = owner.epoch
        /\ owner'.firewall = owner.firewall
    BY <1>0, <1>6
    DEF nativeWorker, fileChanges, vars, backend, FileStep, Write, Replace, Truncate, WorkerStep,
        worker_exit, worker_request, worker_read, worker_commit, commit, OwnerType
  <2> QED BY <1>0, <1>2, <2>1, <2>2, QuietStep
<1> QED BY <1>4, <1>5, <1>6

\* The tab that is opened first is in view and watched.
LEMMA StayInit == WatchInit => StayInv
<1> SUFFICES ASSUME WatchInit PROVE StayInv
  OBVIOUS
<1> DEFINE fresh == [session |-> 1, epoch |-> 0, active |-> FALSE]
<1>1. fresh \in Source /\ CanBegin(fresh)
  BY SessionAssumption, BeginTypes
<1>2. fresh.session = 1 /\ fresh.epoch = 0
  OBVIOUS
<1>3. source = Begin(fresh) /\ watch = Mounted(fresh) /\ commands = WatchCommands(fresh)
  BY DEF WatchInit
<1> HIDE DEF fresh
<1>4. source.active /\ source.session = 1 /\ source.epoch = 1
  <2>1. Begin(fresh) = [fresh EXCEPT !.epoch = 0 + 1, !.active = TRUE]
    BY <1>1, <1>2 DEF Begin
  <2> QED BY <1>1, <1>2, <1>3, <2>1 DEF Source
<1>5. /\ \A t \in Token : StartSent(t) => t = SourceToken(source)
      /\ \A t : ~StopSent(t)
      /\ ~OpenSent
  BY <1>1, <1>3, EffectsSend, EffectsOnly DEF StartSent, StopSent, OpenSent
<1>6. /\ owner.session = 1 /\ owner.epoch = 0 /\ owner.firewall
  <2>1. /\ Len(file.data) > 0 /\ owner.session = 1 /\ owner.epoch = 0
        /\ owner.firewall = (owner.checkpoint.raw_offset > 0)
        /\ owner.checkpoint.raw_offset = Len(file.data)
    <3>1. PICK identity \in Identities(file) :
            owner = NewOwner(1, snapshot_bytes(file, 0, FALSE, identity))
      BY DEF WatchInit, Init
    <3>2. file \in FileType /\ file.data # <<>>
      BY InitType DEF WatchInit, TypeOK, Init
    <3>3. Len(file.data) > 0
      BY <3>2 DEF FileType
    <3> QED BY <3>1, <3>3 DEF NewOwner, snapshot_bytes
  <2> QED BY <2>1
<1>7. /\ shown = TRUE /\ opened = {} /\ parsing = 0 /\ selected = TRUE /\ away = {} /\ leaving = {}
  BY DEF WatchInit
<1>8. Once(commands)
  <2>1. commands \in Seq(Command) /\ \A c \in Elements(commands) : c.op # "open"
    BY <1>5, WatchTypesInit DEF OpenSent, WatchTypesInv
  <2> QED BY <2>1 DEF Once, Elements
<1>9. LoadsInv
  BY <1>5, <1>7, <1>8 DEF LoadsInv, OpenSent
<1>10. StayingInv
  <2>1. SourceToken(source).epoch = 1 /\ SourceToken(source).session = 1
    BY <1>4 DEF SourceToken
  <2> QED BY <1>4, <1>5, <1>6, <1>7, <2>1 DEF StayingInv
<1>11. SessionsInv
  BY <1>4, <1>6, <1>7 DEF SessionsInv
<1> QED BY <1>9, <1>10, <1>11 DEF StayInv

\* The watch in view runs, or its start is on its way to an owner that has had none.
HonouredInv ==
  source.active /\ source.session = owner.session =>
    \/ is_current(owner, SourceToken(source))
    \/ owner.epoch = 0 /\ StartSent(SourceToken(source))

\* Every step keeps it: only the commands of the watch itself touch it.
LEMMA HonouredStep ==
  ASSUME Tabs = {}, ~LaunchMayFail, TypeOK, WatchTypesInv, OrphanInv, StayInv, HonouredInv,
         [WatchNext]_vars
  PROVE  HonouredInv'
<1> DEFINE token == SourceToken(source)
<1>0. /\ owner \in OwnerType /\ owner.session \in Nat /\ owner.epoch \in Nat
      /\ source.session \in Nat /\ source.epoch = 1 /\ commands \in Seq(Command)
      /\ \A t \in Token : StartSent(t) \/ StopSent(t) => t.epoch = 1 /\ t.session <= source.session
      /\ \A t \in Token : Shows(t) => ~StopSent(t)
      /\ \A t \in Token : t.session \in Nat
      /\ source \in Source /\ token \in Token
  <2>1. source \in Source /\ source.epoch = 1
    BY DEF WatchTypesInv, WatchTypeOK, StayInv, StayingInv
  <2>2. SourceToken(source) \in Token
    BY <2>1, EpochAssumption DEF Source, SourceToken, Token
  <2> QED
    BY <2>1, <2>2 DEF TypeOK, OwnerType, WatchTypesInv, StayInv, StayingInv, Source, Token
<1>1. WatchTypesInv'
  BY WatchTypesStep
<1>2. CASE applyParseResult
  <2>1. PICK reply \in opened :
          LET fresh == [session |-> reply.session, epoch |-> 0, active |-> FALSE]
          IN /\ reply.session # None /\ source' = Begin(fresh)
             /\ commands' = commands \o CleanupCommands(watch) \o WatchCommands(fresh)
             /\ owner' = owner
    BY <1>2 DEF applyParseResult, backend
  <2> DEFINE fresh == [session |-> reply.session, epoch |-> 0, active |-> FALSE]
             cleaned == commands \o CleanupCommands(watch)
  <2>2. owner.epoch = 0
    BY <2>1 DEF StayInv, SessionsInv
  <2>3. fresh \in Source /\ CanBegin(fresh)
    BY <2>1, BeginTypes DEF None, WatchTypesInv, WatchTypeOK
  <2>4. source' = Begin(fresh) /\ commands' = cleaned \o WatchCommands(fresh)
    BY <2>1
  <2> HIDE DEF fresh
  <2>5. cleaned \in Seq(Command) /\ WatchCommands(fresh) \in Seq(Command)
    <3>1. CleanupCommands(watch) \in Seq(Command)
      BY BeginTypes DEF WatchTypesInv, WatchTypeOK
    <3> QED BY <1>0, <2>3, <3>1, BeginTypes
  <2> HIDE DEF cleaned
  <2>6. Elements(commands') = Elements(cleaned) \cup Elements(WatchCommands(fresh))
    BY <2>4, <2>5, ElementsJoin
  <2>7. Control("start", SourceToken(Begin(fresh))) \in Elements(WatchCommands(fresh))
    <3>1. WatchCommands(fresh)[1] = Control("start", SourceToken(Begin(fresh)))
          /\ 1 \in DOMAIN WatchCommands(fresh)
      BY <2>3 DEF WatchCommands
    <3> QED BY <3>1 DEF Elements
  <2>8. StartSent(SourceToken(source))'
    BY <2>4, <2>6, <2>7 DEF StartSent, Control, SourceToken
  <2> QED BY <2>1, <2>2, <2>8 DEF HonouredInv
<1>3. ASSUME source' = source, owner' = owner, Elements(commands) \subseteq Elements(commands')
      PROVE  HonouredInv'
  BY <1>3 DEF HonouredInv, StartSent, SourceToken
<1>4. ASSUME UserStep \/ WebviewStep, ~applyParseResult
      PROVE  HonouredInv'
  <2>1. Orderly
    BY <1>1, <1>4, WebviewIsOrderly
  <2>2. ~(switchToCachedTab \/ loadOtherTab \/ switchToTab \/ otherTabLoaded)
    BY DEF switchToCachedTab, loadOtherTab, switchToTab, otherTabLoaded, StayInv, StayingInv
  <2>3. source' = source \/ ~source'.active
    <3>1. CASE loadFails
      <4>1. source' = source \/ Unmount
        BY <3>1 DEF loadFails
      <4>2. source.active => SourceToken(source) \in watch
        BY DEF OrphanInv
      <4> QED BY <1>0, <4>1, <4>2 DEF Unmount, endFirewallWatch, Source
    <3>2. CASE firewallGone
      BY <1>0, <3>2 DEF firewallGone, Source
    <3>3. ASSUME \/ refreshActiveSource \/ evictSnapshot \/ togglePause \/ otherTabFails
                 \/ loadSelectedLogFile \/ dropReply \/ startResolved \/ applyFirewallTail
          PROVE  source' = source
      BY <3>3 DEF refreshActiveSource, evictSnapshot, togglePause, otherTabFails,
         loadSelectedLogFile, dropReply, startResolved, applyFirewallTail, webview
    <3> QED BY <1>4, <2>2, <3>1, <3>2, <3>3 DEF UserStep, WebviewStep, LoadStep
  <2> QED BY <1>3, <2>1, <2>3 DEF Orderly, HonouredInv
<1>5. ASSUME UNCHANGED source, commands' = commands, owner'.session = owner.session,
             owner'.epoch = owner.epoch, owner'.active = owner.active,
             owner'.firewall = owner.firewall
      PROVE  HonouredInv'
  BY <1>5 DEF HonouredInv, StartSent, SourceToken, is_current, same_session
<1>6. CASE handleCommand
  <2>1. PICK i \in DOMAIN commands :
          /\ \/ nativeOpen(commands[i]) \/ nativeStart(commands[i])
             \/ nativeStop(commands[i]) \/ nativePause(commands[i])
          /\ commands' = Without(commands, i)
    BY <1>6 DEF handleCommand, Without
  <2> DEFINE c == commands[i]
  <2>2. c \in Command /\ c \in Elements(commands) /\ source' = source
    BY <1>0, <1>6 DEF Elements, handleCommand, webview
  <2>3. c.op \in {"start", "stop", "pause", "resume"} => c.token \in Token
    BY <2>2 DEF Command
  <2>4. \A d \in Elements(commands) : d # c => d \in Elements(commands')
    BY <1>0, <2>1, ElementsRemove
  <2> HIDE DEF c
  <2>5. StartSent(token) => StartSent(token)' \/ (c.op = "start" /\ c.token = token)
    BY <2>2, <2>4 DEF StartSent, SourceToken
  <2>6. ASSUME \/ owner' = owner
               \/ /\ owner'.session = owner.session /\ owner'.epoch = owner.epoch
                  /\ owner'.active = owner.active /\ owner'.firewall = owner.firewall,
               c.op # "start"
        PROVE  HonouredInv'
    BY <2>2, <2>5, <2>6 DEF HonouredInv, SourceToken, is_current, same_session
  <2>7. CASE nativeOpen(c) \/ nativePause(c)
    <3>1. /\ owner'.session = owner.session /\ owner'.epoch = owner.epoch
          /\ owner'.active = owner.active /\ owner'.firewall = owner.firewall
      BY <1>0, <2>7 DEF nativeOpen, nativePause, parse_file, open_log_file_fails, set_paused,
         backend, OwnerType
    <3> QED BY <2>6, <2>7, <3>1 DEF nativeOpen, nativePause
  <2>8. ASSUME source.active, source.session = owner.session,
               c.op \in {"start", "stop"}, same_session(owner, c.token)
        PROVE  c.token = token
    <3>1. StartSent(c.token) \/ StopSent(c.token)
      BY <2>2, <2>8 DEF StartSent, StopSent
    <3>2. c.token.epoch = 1 /\ c.token.session = source.session
      BY <1>0, <2>3, <2>8, <3>1 DEF same_session
    <3>3. c.token = [session |-> c.token.session, epoch |-> c.token.epoch]
      BY <2>3, <2>8 DEF Token
    <3> QED BY <1>0, <3>2, <3>3 DEF SourceToken
  <2>9. CASE nativeStart(c)
    <3>1. CASE ~Starts(owner, c.token)
      <4>1. UNCHANGED owner /\ c.op = "start"
        BY <2>9, <3>1 DEF nativeStart, admit_tail_start_fails, backend
      <4>2. /\ source.active /\ source.session = owner.session /\ owner.epoch = 0
            => c.token # token
        <5>1. source.active /\ source.session = owner.session => owner.firewall
          BY DEF StayInv, SessionsInv
        <5> QED BY <1>0, <3>1, <5>1, EpochAssumption DEF Starts, same_session, SourceToken
      <4> QED BY <2>2, <2>5, <4>1, <4>2 DEF HonouredInv, SourceToken
    <3>2. CASE Starts(owner, c.token)
      <4>1. owner' = start(owner, c.token)
        BY <2>9, <3>2 DEF nativeStart, admit_tail_start_fails, admit_tail_start
      <4>2. /\ owner'.session = owner.session /\ owner'.firewall = owner.firewall
            /\ owner'.epoch = c.token.epoch /\ owner'.active
        BY <1>0, <4>1 DEF start, OwnerType
      <4>3. is_current(owner', c.token)
        BY <3>2, <4>2 DEF is_current, same_session, Starts
      <4>4. source.active /\ source.session = owner.session => c.token = token
        BY <2>8, <2>9, <3>2 DEF nativeStart, Starts
      <4> QED BY <2>2, <4>2, <4>3, <4>4 DEF HonouredInv, SourceToken
    <3> QED BY <3>1, <3>2
  <2>10. CASE nativeStop(c)
    <3>1. CASE ~Stops(owner, c.token)
      BY <2>6, <2>10, <3>1 DEF nativeStop, backend
    <3>2. CASE Stops(owner, c.token)
      <4>1. owner'.session = owner.session
        BY <1>0, <2>10, <3>2 DEF nativeStop, stop_tail, stop, OwnerType
      <4>2. source.active /\ source.session = owner.session => c.token = token
        BY <2>8, <2>10, <3>2 DEF nativeStop, Stops
      <4>3. ~(source.active /\ source.session = owner.session)
        BY <1>0, <2>2, <2>10, <4>2 DEF nativeStop, StopSent, Shows
      <4> QED BY <2>2, <4>1, <4>3 DEF HonouredInv
    <3> QED BY <3>1, <3>2
  <2> QED BY <2>1, <2>7, <2>9, <2>10 DEF c
<1>7. CASE nativeInstall
  <2>1. owner'.session = owner.session + 1 /\ source' = source
    BY <1>7 DEF nativeInstall, open_log_file, NewOwner, webview
  <2>2. source.session <= owner.session
    BY DEF OrphanInv
  <2> QED BY <1>0, <2>1, <2>2 DEF HonouredInv
<1>8. ASSUME (\E t \in Token : nativeWorker(t)) \/ fileChanges \/ UNCHANGED vars
      PROVE  HonouredInv'
  <2>1. UNCHANGED <<commands, source>>
    BY <1>8 DEF nativeWorker, fileChanges, vars, webview, wires
  <2>2. /\ owner'.session = owner.session /\ owner'.epoch = owner.epoch
        /\ owner'.active = owner.active /\ owner'.firewall = owner.firewall
    BY <1>0, <1>8
    DEF nativeWorker, fileChanges, vars, backend, FileStep, Write, Replace, Truncate, WorkerStep,
        worker_exit, worker_request, worker_read, worker_commit, commit, OwnerType
  <2> QED BY <1>5, <2>1, <2>2
<1> QED BY <1>2, <1>4, <1>6, <1>7, <1>8 DEF WatchNext

\* Every step keeps the tab in view.
LEMMA StayStep ==
  ASSUME Tabs = {}
  PROVE  TypeOK /\ WatchTypesInv /\ OrphanInv /\ StayInv /\ [WatchNext]_vars => StayInv'
<1> SUFFICES ASSUME TypeOK, WatchTypesInv, OrphanInv, StayInv, [WatchNext]_vars PROVE StayInv'
  OBVIOUS
<1>1. WatchTypesInv'
  BY WatchTypesStep
<1>2. CASE UserStep \/ WebviewStep
  BY <1>1, <1>2, WebviewStays
<1>3. CASE \/ handleCommand \/ nativeInstall \/ (\E t \in Token : nativeWorker(t)) \/ fileChanges
           \/ UNCHANGED vars
  BY <1>3, NativeStays
<1> QED BY <1>2, <1>3 DEF WatchNext

\* While no other tab takes the view and every worker can be launched, the watch the webview
\* believes to be active is the one the native side runs once all that is under way has been
\* handled, in whatever order it is (use-file-watcher.ts, applyParseResultToStore,
\* admit_tail_start).
THEOREM WatchHonoured ==
  ASSUME Tabs = {}, ~LaunchMayFail
  PROVE  WatchSpec => []WatchIsHonoured
<1> DEFINE Inv == TypeOK /\ WatchTypesInv /\ TailedInv /\ OrphanInv /\ StayInv /\ HonouredInv
<1>1. WatchInit => Inv
  <2> SUFFICES ASSUME WatchInit PROVE Inv
    OBVIOUS
  <2>1. TypeOK /\ WatchTypesInv /\ TailedInv /\ OrphanInv /\ StayInv
    BY WatchTypesInit, NativeStep, OrphanInit, StayInit
  <2> DEFINE fresh == [session |-> 1, epoch |-> 0, active |-> FALSE]
  <2>2. fresh \in Source /\ CanBegin(fresh)
    BY SessionAssumption, BeginTypes
  <2>3. source = Begin(fresh) /\ commands = WatchCommands(fresh)
    BY DEF WatchInit
  <2> HIDE DEF fresh
  <2>4. StartSent(SourceToken(source))
    <3>1. WatchCommands(fresh)[1] = Control("start", SourceToken(Begin(fresh)))
          /\ 1 \in DOMAIN WatchCommands(fresh)
      BY <2>2 DEF WatchCommands
    <3> QED BY <2>3, <3>1 DEF Elements, StartSent, Control
  <2>5. owner.epoch = 0
    BY DEF WatchInit, Init, NewOwner
  <2> QED BY <2>1, <2>4, <2>5 DEF HonouredInv
<1>2. Inv /\ [WatchNext]_vars => Inv'
  BY WatchTypesStep, NativeStep, OrphanStep, StayStep, HonouredStep
<1>3. Inv => WatchIsHonoured
  <2> SUFFICES ASSUME Inv, Settled, shown, source.active
               PROVE  is_current(owner, SourceToken(source))
    BY DEF WatchIsHonoured
  <2>1. source.session = owner.session
    BY DEF Settled, StayInv, SessionsInv
  <2>2. ~StartSent(SourceToken(source))
    BY DEF Settled, StartSent, Elements
  <2> QED BY <2>1, <2>2 DEF HonouredInv
<1> HIDE DEF Inv
<1> QED BY <1>1, <1>2, <1>3, PTL DEF WatchSpec

----------------------------------------------------------------------------
(* The view of a watch is the committed checkpoint *)

\* What an event of the watch makes of the rows in view; another watch's event is dropped.
After(rows, e, token) == IF e.token = token THEN reconcileFirewallRows(rows, e) ELSE rows

\* Applied in their order, the events lead from the rows in view to the last ones.
Leads(rows, evs, token, last) ==
  \E V : /\ V[0] = rows /\ V[Len(evs)] = last
         /\ \A i \in 1..Len(evs) : V[i] = After(V[i - 1], evs[i], token)

\* With no event under way the rows in view are the last ones.
LEMMA LeadsEmpty ==
  ASSUME NEW rows, NEW token, NEW last, Leads(rows, <<>>, token, last)
  PROVE  rows = last
<1>1. Len(<<>>) = 0
  OBVIOUS
<1> QED BY <1>1 DEF Leads

\* The first event may be applied to the view (applyFirewallTail).
LEMMA LeadsTail ==
  ASSUME NEW evs \in Seq(Event), evs # <<>>, NEW rows, NEW token, NEW last,
         Leads(rows, evs, token, last)
  PROVE  Leads(After(rows, Head(evs), token), Tail(evs), token, last)
<1>1. /\ Len(evs) \in Nat /\ Len(evs) >= 1 /\ Head(evs) = evs[1]
      /\ Len(Tail(evs)) = Len(evs) - 1
      /\ \A i \in 1..(Len(evs) - 1) : Tail(evs)[i] = evs[i + 1]
  BY HeadTailProperties
<1>2. PICK V : /\ V[0] = rows /\ V[Len(evs)] = last
               /\ \A i \in 1..Len(evs) : V[i] = After(V[i - 1], evs[i], token)
  BY DEF Leads
<1> DEFINE W == [i \in 0..(Len(evs) - 1) |-> V[i + 1]]
<1>3. \A i \in 0..(Len(evs) - 1) : W[i] = V[i + 1]
  OBVIOUS
<1> HIDE DEF W
<1>4. W[0] = After(rows, Head(evs), token)
  <2>1. 0 \in 0..(Len(evs) - 1) /\ 0 + 1 = 1 /\ 1 \in 1..Len(evs) /\ 1 - 1 = 0
    BY <1>1
  <2>2. W[0] = V[1]
    BY <1>3, <2>1
  <2>3. V[1] = After(V[0], evs[1], token)
    BY <1>2, <2>1
  <2> QED BY <1>1, <1>2, <2>2, <2>3
<1>5. W[Len(Tail(evs))] = last
  <2>1. Len(evs) - 1 \in 0..(Len(evs) - 1) /\ Len(evs) - 1 + 1 = Len(evs)
    BY <1>1
  <2> QED BY <1>1, <1>2, <1>3, <2>1
<1>6. ASSUME NEW i \in 1..Len(Tail(evs))
      PROVE  W[i] = After(W[i - 1], Tail(evs)[i], token)
  <2>1. /\ i \in 1..(Len(evs) - 1) /\ i \in 0..(Len(evs) - 1) /\ i - 1 \in 0..(Len(evs) - 1)
        /\ i + 1 \in 1..Len(evs) /\ i + 1 - 1 = i /\ i - 1 + 1 = i
    BY <1>1
  <2>2. W[i] = V[i + 1] /\ W[i - 1] = V[i] /\ Tail(evs)[i] = evs[i + 1]
    BY <1>1, <1>3, <2>1
  <2>3. V[i + 1] = After(V[i + 1 - 1], evs[i + 1], token)
    BY <1>2, <2>1
  <2> QED BY <2>1, <2>2, <2>3
<1> QED BY <1>4, <1>5, <1>6 DEF Leads

\* One more event may be published (worker_commit).
LEMMA LeadsAppend ==
  ASSUME NEW evs \in Seq(Event), NEW e \in Event, NEW rows, NEW token, NEW last,
         Leads(rows, evs, token, last)
  PROVE  Leads(rows, Append(evs, e), token, After(last, e, token))
<1>1. /\ Len(evs) \in Nat /\ Len(Append(evs, e)) = Len(evs) + 1
      /\ Append(evs, e)[Len(evs) + 1] = e
      /\ \A i \in 1..Len(evs) : Append(evs, e)[i] = evs[i]
  BY AppendProperties
<1>2. PICK V : /\ V[0] = rows /\ V[Len(evs)] = last
               /\ \A i \in 1..Len(evs) : V[i] = After(V[i - 1], evs[i], token)
  BY DEF Leads
<1> DEFINE W == [i \in 0..(Len(evs) + 1) |->
                   IF i <= Len(evs) THEN V[i] ELSE After(last, e, token)]
<1>3. /\ \A i \in 0..Len(evs) : W[i] = V[i]
      /\ W[Len(evs) + 1] = After(last, e, token)
  <2>1. \A i \in 0..Len(evs) : i \in 0..(Len(evs) + 1) /\ i <= Len(evs)
    BY <1>1
  <2>2. Len(evs) + 1 \in 0..(Len(evs) + 1) /\ ~(Len(evs) + 1 <= Len(evs))
    BY <1>1
  <2> QED BY <2>1, <2>2
<1> HIDE DEF W
<1>4. W[0] = rows
  <2>1. 0 \in 0..Len(evs)
    BY <1>1
  <2> QED BY <1>2, <1>3, <2>1
<1>5. ASSUME NEW i \in 1..(Len(evs) + 1)
      PROVE  W[i] = After(W[i - 1], Append(evs, e)[i], token)
  <2>1. i - 1 \in 0..Len(evs)
    BY <1>1
  <2>2. W[i - 1] = V[i - 1]
    BY <1>3, <2>1
  <2>3. CASE i \in 1..Len(evs)
    <3>1. i \in 0..Len(evs)
      BY <2>3
    <3> QED BY <1>1, <1>2, <1>3, <2>2, <2>3, <3>1
  <2>4. CASE i = Len(evs) + 1
    <3>1. i - 1 = Len(evs)
      BY <1>1, <2>4
    <3> QED BY <1>1, <1>2, <1>3, <2>2, <2>4, <3>1
  <2> QED BY <1>1, <2>3, <2>4
<1> QED BY <1>1, <1>3, <1>4, <1>5 DEF Leads

\* The events of other watches change nothing.
LEMMA LeadsOther ==
  ASSUME NEW evs \in Seq(Event), NEW rows, NEW token, \A e \in Elements(evs) : e.token # token
  PROVE  Leads(rows, evs, token, rows)
<1> DEFINE W == [i \in 0..Len(evs) |-> rows]
<1>1. Len(evs) \in Nat /\ DOMAIN evs = 1..Len(evs)
  OBVIOUS
<1>2. \A i \in 0..Len(evs) : W[i] = rows
  OBVIOUS
<1> HIDE DEF W
<1>3. \A i \in 1..Len(evs) : W[i] = After(W[i - 1], evs[i], token)
  <2>1. \A i \in 1..Len(evs) : i \in 0..Len(evs) /\ i - 1 \in 0..Len(evs)
    BY <1>1
  <2>2. \A i \in 1..Len(evs) : evs[i].token # token
    BY <1>1 DEF Elements
  <2> QED BY <1>2, <2>1, <2>2 DEF After
<1>4. 0 \in 0..Len(evs) /\ Len(evs) \in 0..Len(evs)
  BY <1>1
<1> QED BY <1>2, <1>3, <1>4 DEF Leads

\* The rows whose emission failed are older than the next id; a source not watched yet has none.
UnsentInv ==
  /\ \A row \in UnsentRows : row.id < owner.checkpoint.next_id
  /\ owner.epoch = 0 => unsent = {}

\* What is emitted, or fails to be: a payload whose rows are all the rows of the next checkpoint, or
\* join those of the last one; they clash with none of them and bear new ids.
Continued(e, before, now, next_id) ==
  LET new == Elements(e.entries)
  IN /\ now = IF e.reset THEN new ELSE before \cup new
     /\ ~e.reset => \A row \in new : ~Clash(before, row)
     /\ \A row \in new : row.id >= next_id

\* What a worker publishes, or cannot publish, is of the watch that runs and turns the rows of the
\* checkpoint into those of the next one; when it publishes nothing, the rows stay.
LEMMA WorkerPictures ==
  ASSUME TypeOK, FreshIsCommitted, StreamInv, GrowsInv, NEW t \in Token, WorkerStep(t)
  PROVE  /\ owner'.session = owner.session /\ owner'.epoch = owner.epoch
         /\ owner'.checkpoint.next_id >= owner.checkpoint.next_id
         /\ \/ /\ emitted' = <<>> /\ unsent' = unsent
               /\ Elements(owner'.checkpoint.rows) = Elements(owner.checkpoint.rows)
            \/ /\ is_current(owner, t)
               /\ \E e \in Event :
                    /\ e.token = t
                    /\ Continued(e, Elements(owner.checkpoint.rows),
                                 Elements(owner'.checkpoint.rows), owner.checkpoint.next_id)
                    /\ \A row \in Elements(e.entries) : row.id < owner'.checkpoint.next_id
                    /\ \/ emitted' = <<e>> /\ unsent' = IF e.reset THEN {} ELSE unsent
                       \/ emitted' = <<>> /\ unsent' = unsent \cup {e}
<1>0. /\ worker \in [Token -> Worker] /\ owner \in OwnerType
      /\ owner.checkpoint.next_id \in Nat
  BY DEF TypeOK, OwnerType, Checkpoint
<1>1. CASE \/ worker_exit(t) \/ worker_request(t)
           \/ \E fault \in Fault : worker_read(t, fault)
  BY <1>0, <1>1 DEF worker_exit, worker_request, worker_read
<1>2. CASE worker_commit(t)
  <2> DEFINE out == worker[t].outcome
             event == [token |-> t, entries |-> out.entries, reset |-> out.reset]
  <2>1. CASE ~Accepts(owner, worker[t], t)
    BY <1>0, <1>2, <2>1 DEF worker_commit
  <2>2. CASE Accepts(owner, worker[t], t)
    <3>1. /\ owner' = commit(owner, out)
          /\ IF Reports(owner, out) THEN publish(event)
                                    ELSE emitted' = <<>> /\ UNCHANGED <<faults, unsent>>
      BY <1>2, <2>2 DEF worker_commit
    <3>2. /\ owner'.session = owner.session /\ owner'.epoch = owner.epoch
          /\ owner'.checkpoint = IF out.install THEN out.checkpoint ELSE owner.checkpoint
      BY <1>0, <3>1 DEF commit, OwnerType
    <3>3. Grows(out, owner.checkpoint) /\ Continues(out, owner.checkpoint) /\ is_current(owner, t)
      BY <1>2, <2>2 DEF worker_commit, Accepts, FreshIsCommitted, GrowsInv, StreamInv
    <3>4. out \in Outcome
      BY <1>0 DEF Worker
    <3>5. /\ event.token = t /\ event.entries = out.entries /\ event.reset = out.reset
          /\ event \in Event
      BY <3>4 DEF Event, Outcome
    <3> HIDE DEF out, event
    <3>6. Elements(owner'.checkpoint.rows)
            = Elements(IF out.install THEN out.checkpoint.rows ELSE owner.checkpoint.rows)
      BY <3>2
    <3>7. /\ owner'.checkpoint.next_id >= owner.checkpoint.next_id
          /\ \A row \in Elements(out.entries) : /\ row.id >= owner.checkpoint.next_id
                                                /\ row.id < owner'.checkpoint.next_id
      <4>1. CASE out.install
        <5>1. owner'.checkpoint = out.checkpoint /\ out.checkpoint.next_id \in Nat
          BY <3>2, <3>4, <4>1 DEF Outcome, Checkpoint
        <5>2. /\ out.checkpoint.next_id >= owner.checkpoint.next_id
              /\ \A row \in Elements(out.entries) :
                   row.id \in owner.checkpoint.next_id..(out.checkpoint.next_id - 1)
          BY <3>3, <4>1 DEF Continues, Elements
        <5> QED BY <1>0, <5>1, <5>2
      <4>2. CASE ~out.install
        <5>1. out.entries = <<>> /\ owner'.checkpoint = owner.checkpoint
          BY <3>2, <3>3, <4>2 DEF Continues
        <5> QED BY <1>0, <5>1, NothingPublished
      <4> QED BY <4>1, <4>2
    <3>8. Continued(event, Elements(owner.checkpoint.rows), Elements(owner'.checkpoint.rows),
                    owner.checkpoint.next_id)
      BY <3>3, <3>5, <3>6, <3>7 DEF Grows, Continued
    <3>9. CASE Reports(owner, out)
      <4>1. \/ emitted' = <<event>> /\ unsent' = IF event.reset THEN {} ELSE unsent
            \/ emitted' = <<>> /\ unsent' = unsent \cup {event}
        BY <3>1, <3>9 DEF publish
      <4> QED BY <3>2, <3>3, <3>5, <3>7, <3>8, <4>1
    <3>10. CASE ~Reports(owner, out)
      <4>1. Elements(owner'.checkpoint.rows) = Elements(owner.checkpoint.rows)
        BY <3>3, <3>6, <3>10 DEF Grows, Reports
      <4> QED BY <3>1, <3>2, <3>7, <3>10, <4>1
    <3> QED BY <3>9, <3>10
  <2> QED BY <2>1, <2>2
<1> QED BY <1>1, <1>2 DEF WorkerStep

\* Every step of the native side keeps this: a worker gives new rows new ids, an open starts anew.
LEMMA UnsentStep ==
  TypeOK /\ TypeOK' /\ FreshIsCommitted /\ StreamInv /\ GrowsInv /\ UnsentInv /\ [Next]_backend
    => UnsentInv'
<1> SUFFICES ASSUME TypeOK, TypeOK', FreshIsCommitted, StreamInv, GrowsInv, UnsentInv,
                    [Next]_backend
             PROVE  UnsentInv'
  OBVIOUS
<1>0. /\ owner \in OwnerType /\ owner.epoch \in Nat /\ owner.checkpoint.next_id \in Nat
      /\ owner'.checkpoint.next_id \in Nat
      /\ \A e \in unsent : \A row \in Elements(e.entries) : row.id \in Nat
  <2>1. \A e \in unsent : e.entries \in Seq(Row)
    BY DEF TypeOK, Event
  <2>2. \A e \in unsent : \A row \in Elements(e.entries) : row \in Row
    BY <2>1 DEF Elements
  <2> QED BY <2>2 DEF TypeOK, OwnerType, Checkpoint, Row
<1>1. ASSUME owner'.checkpoint = owner.checkpoint, unsent' = unsent,
             owner'.epoch = owner.epoch \/ owner'.epoch # 0
      PROVE  UnsentInv'
  <2>1. owner.epoch # 0 \/ unsent = {}
    BY DEF UnsentInv
  <2> QED BY <1>1, <2>1 DEF UnsentInv, UnsentRows
<1>2. CASE FileStep \/ parse_file \/ open_log_file_fails \/ UNCHANGED backend
  BY <1>1, <1>2
  DEF FileStep, Write, Replace, Truncate, parse_file, open_log_file_fails, backend
<1>3. CASE open_log_file
  BY <1>3 DEF open_log_file, UnsentInv, UnsentRows
<1>4. ASSUME NEW t \in Token, \/ admit_tail_start(t) \/ admit_tail_start_fails(t) \/ stop_tail(t)
                              \/ \E paused \in BOOLEAN : set_paused(t, paused)
      PROVE  UnsentInv'
  <2>1. owner'.checkpoint = owner.checkpoint /\ unsent' = unsent
    BY <1>0, <1>4 DEF admit_tail_start, admit_tail_start_fails, stop_tail, set_paused, start,
       stop, OwnerType
  <2>2. owner'.epoch = owner.epoch \/ (owner'.epoch = t.epoch /\ 0 < t.epoch)
    BY <1>0, <1>4 DEF admit_tail_start, admit_tail_start_fails, stop_tail, set_paused, start,
       stop, OwnerType, Starts, Stops, same_session
  <2> QED BY <1>1, <2>1, <2>2
<1>5. ASSUME NEW t \in Token, WorkerStep(t)
      PROVE  UnsentInv'
  <2>1. /\ owner'.epoch = owner.epoch /\ owner'.checkpoint.next_id >= owner.checkpoint.next_id
        /\ \/ unsent' = unsent
           \/ /\ is_current(owner, t)
              /\ \E e \in Event :
                   /\ \A row \in Elements(e.entries) : row.id < owner'.checkpoint.next_id
                   /\ unsent' \in {{}, unsent, unsent \cup {e}}
    BY <1>5, WorkerPictures
  <2>2. \A e \in unsent : \A row \in Elements(e.entries) : row.id < owner'.checkpoint.next_id
    <3>1. \A e \in unsent : \A row \in Elements(e.entries) : row.id < owner.checkpoint.next_id
      BY DEF UnsentInv, UnsentRows
    <3>2. \A a, b, c \in Nat : a < b /\ c >= b => a < c
      OBVIOUS
    <3> QED BY <1>0, <2>1, <3>1, <3>2
  <2>3. \A e \in unsent' : \A row \in Elements(e.entries) : row.id < owner'.checkpoint.next_id
    BY <2>1, <2>2
  <2>4. is_current(owner, t) => owner.epoch # 0
    BY <1>0 DEF is_current, same_session
  <2>5. owner'.epoch = 0 => unsent' = {}
    BY <2>1, <2>4 DEF UnsentInv
  <2> QED BY <2>3, <2>5 DEF UnsentInv, UnsentRows
<1> QED BY <1>2, <1>3, <1>4, <1>5 DEF Next, CommandStep

\* The rows that join the checkpoint join the view as well, whatever emissions failed before.
LEMMA ContinuedViews ==
  ASSUME NEW e, NEW before, NEW now, NEW next_id, NEW lost, Continued(e, before, now, next_id)
  PROVE  /\ e.reset => \A rows : reconcileFirewallRows(rows, e) = now
         /\ ~e.reset => reconcileFirewallRows(before \ lost, e)
                          = (before \ lost) \cup Elements(e.entries)
BY Zenon DEF Continued, reconcileFirewallRows, Clash

\* The events under way turn the view of the source into the committed checkpoint but for the rows
\* whose emission failed, while that of no reset did; none is of a source the webview has not seen;
\* a reply that tells of a new source holds its checkpoint.
PicturedInv ==
  /\ source.active /\ source.session = owner.session =>
       \E last : /\ Leads(view, events, SourceToken(source), last)
                 /\ NoResetUnsent => last = Elements(owner.checkpoint.rows) \ UnsentRows
  /\ \A e \in Elements(events) : e.token.session <= source.session
  /\ \A reply \in opened :
       reply.session # None => reply.rows = Elements(owner.checkpoint.rows)
  /\ owner.epoch # 0 => owner.session <= source.session

\* The rows of the checkpoint, and those whose emission failed, bear ids that were given.
LEMMA IdsAreGiven ==
  ASSUME TypeOK, StreamInv, UnsentInv
  PROVE  \A row \in Elements(owner.checkpoint.rows) \cup UnsentRows :
           row.id < owner.checkpoint.next_id /\ row.id \in Nat
<1>1. owner.checkpoint \in Checkpoint /\ owner.checkpoint.rows \in Seq(Row)
  BY DEF TypeOK, OwnerType, Checkpoint
<1>2. \A row \in Elements(owner.checkpoint.rows) : row.id < owner.checkpoint.next_id
  BY <1>1, OwnRowsAreFaithful DEF StreamInv, Faithful
<1>3. \A row \in Elements(owner.checkpoint.rows) : row.id \in Nat
  <2>1. \A row \in Elements(owner.checkpoint.rows) : row \in Row
    BY <1>1 DEF Elements
  <2> QED BY <2>1 DEF Row
<1>4. \A row \in UnsentRows : row.id \in Nat
  <2>1. \A e \in unsent : e.entries \in Seq(Row)
    BY DEF TypeOK, Event
  <2>2. \A e \in unsent : \A row \in Elements(e.entries) : row \in Row
    BY <2>1 DEF Elements
  <2> QED BY <2>2 DEF UnsentRows, Row
<1> QED BY <1>2, <1>3, <1>4 DEF UnsentInv

\* Every step keeps the picture, as long as no other tab takes the view.
LEMMA PicturedStep ==
  ASSUME Tabs = {}, TypeOK, WatchTypesInv, OrphanInv, FreshIsCommitted, StreamInv, GrowsInv,
         UnsentInv, StayInv, PicturedInv, [WatchNext]_vars
  PROVE  PicturedInv'
<1> DEFINE token == SourceToken(source)
<1>0. /\ owner \in OwnerType /\ owner.session \in Nat /\ owner.epoch \in Nat
      /\ source \in Source /\ source.session \in Nat /\ source.epoch = 1 /\ owner.epoch <= 1
      /\ source.session <= owner.session
      /\ commands \in Seq(Command) /\ events \in Seq(Event)
      /\ \A t \in Token : StartSent(t) \/ StopSent(t) => t.epoch = 1 /\ t.session <= source.session
      /\ \A t \in Token : t.session \in Nat /\ t.epoch \in Nat
      /\ \A reply \in opened : reply.session \in 0..MaxSession
  BY DEF TypeOK, OwnerType, WatchTypesInv, WatchTypeOK, Source, OrphanInv, StayInv, StayingInv,
      Token
<1>1. \A e \in Elements(events) : e.token \in Token
  <2>1. \A e \in Elements(events) : e \in Event
    BY <1>0 DEF Elements
  <2> QED BY <2>1 DEF Event
<1>2. WatchTypesInv' /\ TypeOK'
  BY WatchTypesStep
<1>3. ASSUME source'.session = source.session, source' = source \/ ~source'.active,
             view' = view \/ ~source'.active, events' = events, owner' = owner,
             unsent' = unsent, opened' \subseteq opened
      PROVE  PicturedInv'
  BY <1>3 DEF PicturedInv, SourceToken, NoResetUnsent, UnsentRows
<1>4. CASE applyFirewallTail
  <2>1. /\ events # <<>> /\ events' = Tail(events) /\ source' = source /\ owner' = owner
        /\ opened' = opened /\ unsent' = unsent
        /\ view' = IF Applies(source, Head(events))
                   THEN reconcileFirewallRows(view, Head(events)) ELSE view
    BY <1>4 DEF applyFirewallTail, backend
  <2>2. source.active => shown
    BY DEF OrphanInv
  <2>3. source.active => view' = After(view, Head(events), SourceToken(source))
    BY <2>1, <2>2 DEF Applies, After
  <2>4. Elements(events') \subseteq Elements(events)
    <3>1. /\ DOMAIN events = 1..Len(events) /\ Len(events) \in Nat
          /\ DOMAIN Tail(events) = 1..(Len(events) - 1)
          /\ \A i \in 1..(Len(events) - 1) : Tail(events)[i] = events[i + 1]
      BY <1>0, <2>1, HeadTailProperties
    <3>2. \A i \in 1..(Len(events) - 1) : i + 1 \in DOMAIN events
      BY <3>1
    <3> QED BY <2>1, <3>1, <3>2 DEF Elements
  <2>5. ASSUME source.active, source.session = owner.session
        PROVE  \E last : /\ Leads(After(view, Head(events), SourceToken(source)), Tail(events),
                                  SourceToken(source), last)
                         /\ NoResetUnsent => last = Elements(owner.checkpoint.rows) \ UnsentRows
    <3>1. PICK last : /\ Leads(view, events, SourceToken(source), last)
                      /\ NoResetUnsent => last = Elements(owner.checkpoint.rows) \ UnsentRows
      BY <2>5 DEF PicturedInv
    <3>2. Leads(After(view, Head(events), SourceToken(source)), Tail(events), SourceToken(source),
                last)
      BY <1>0, <2>1, <3>1, LeadsTail
    <3> QED BY <3>1, <3>2
  <2>6. source'.active /\ source'.session = owner'.session =>
          \E last : /\ Leads(view', events', SourceToken(source)', last)
                    /\ NoResetUnsent' => last = Elements(owner'.checkpoint.rows) \ UnsentRows'
    BY <2>1, <2>3, <2>5 DEF SourceToken, NoResetUnsent, UnsentRows
  <2> QED BY <2>1, <2>4, <2>6 DEF PicturedInv
<1>5. CASE applyParseResult
  <2>1. PICK reply \in opened :
          LET fresh == [session |-> reply.session, epoch |-> 0, active |-> FALSE]
          IN /\ reply.session # None /\ opened' = opened \ {reply}
             /\ source' = Begin(fresh) /\ view' = reply.rows
             /\ owner' = owner /\ events' = events /\ unsent' = unsent
    BY <1>5 DEF applyParseResult, backend
  <2>2. owner.session = source.session + 1 /\ owner.epoch = 0 /\ reply.session = owner.session
    BY <2>1 DEF StayInv, SessionsInv
  <2>3. source'.session = owner.session
    <3>1. reply.session \in 1..MaxSession
      BY <1>0, <2>1 DEF None
    <3> QED BY <2>1, <2>2, <3>1, BeginTypes
  <2>4. view' = Elements(owner'.checkpoint.rows) \ UnsentRows'
    <3>1. UnsentRows' = {}
      BY <2>1, <2>2 DEF UnsentInv, UnsentRows
    <3> QED BY <2>1, <3>1 DEF PicturedInv
  <2>5. \A e \in Elements(events) : e.token.session < source'.session
    BY <1>0, <1>1, <2>2, <2>3 DEF PicturedInv
  <2>6. \A e \in Elements(events) : e.token # SourceToken(source)'
    BY <1>0, <1>1, <2>2, <2>3, <2>5 DEF SourceToken
  <2>7. Leads(view', events, SourceToken(source)', view')
    BY <1>0, <2>6, LeadsOther
  <2>8. \A e \in Elements(events') : e.token.session <= source'.session
    <3>1. \A a, b \in Nat : a < b => a <= b
      OBVIOUS
    <3>2. source'.session \in Nat /\ \A e \in Elements(events) : e.token.session \in Nat
      BY <1>0, <1>1, <2>3
    <3> QED BY <2>1, <2>5, <3>1, <3>2
  <2>9. owner'.epoch = 0 /\ opened' \subseteq opened
    BY <2>1, <2>2
  <2> QED BY <2>1, <2>4, <2>7, <2>8, <2>9 DEF PicturedInv
<1>6. ASSUME UserStep \/ WebviewStep, ~applyParseResult, ~applyFirewallTail
      PROVE  PicturedInv'
  <2>1. ~(switchToCachedTab \/ loadOtherTab \/ switchToTab \/ otherTabLoaded)
    BY DEF switchToCachedTab, loadOtherTab, switchToTab, otherTabLoaded, StayInv, StayingInv
  <2>2. CASE loadFails
    <3>1. \/ source' = source
          \/ source' = endFirewallWatch(source, watch)
      BY <2>2 DEF loadFails, Unmount
    <3>2. source.active => SourceToken(source) \in watch
      BY DEF OrphanInv
    <3>3. source'.session = source.session /\ (source' = source \/ ~source'.active)
      BY <1>0, <3>1, <3>2 DEF endFirewallWatch, Source
    <3>4. /\ view' = view /\ events' = events /\ owner' = owner /\ unsent' = unsent
          /\ opened' \subseteq opened
      BY <2>2 DEF loadFails, backend
    <3> QED BY <1>3, <3>3, <3>4
  <2>3. CASE firewallGone
    <3>1. source'.session = source.session /\ ~source'.active
      BY <1>0, <2>3 DEF firewallGone, Source
    <3>2. events' = events /\ owner' = owner /\ unsent' = unsent /\ opened' \subseteq opened
      BY <2>3 DEF firewallGone, backend
    <3> QED BY <1>3, <3>1, <3>2
  <2>4. ASSUME \/ refreshActiveSource \/ evictSnapshot \/ togglePause \/ otherTabFails
               \/ loadSelectedLogFile \/ dropReply \/ startResolved
        PROVE  PicturedInv'
    <3>1. /\ source' = source /\ view' = view /\ events' = events /\ owner' = owner
          /\ unsent' = unsent /\ opened' \subseteq opened
      BY <2>4 DEF refreshActiveSource, evictSnapshot, togglePause, otherTabFails,
         loadSelectedLogFile, dropReply, startResolved, webview, wires, backend
    <3> QED BY <1>3, <3>1
  <2> QED BY <1>6, <2>1, <2>2, <2>3, <2>4 DEF UserStep, WebviewStep, LoadStep
<1>7. ASSUME UNCHANGED <<source, view, events>>, owner'.session = owner.session,
             owner'.checkpoint = owner.checkpoint, unsent' = unsent,
             \A reply \in opened' : reply \in opened \/ reply.session = None,
             owner'.epoch = owner.epoch \/ owner.session <= source.session
      PROVE  PicturedInv'
  BY <1>7 DEF PicturedInv, SourceToken, NoResetUnsent, UnsentRows
<1>8. CASE handleCommand
  <2>1. PICK i \in DOMAIN commands : \/ nativeOpen(commands[i]) \/ nativeStart(commands[i])
                                     \/ nativeStop(commands[i]) \/ nativePause(commands[i])
    BY <1>8 DEF handleCommand
  <2> DEFINE c == commands[i]
  <2>2. c \in Command /\ c \in Elements(commands) /\ UNCHANGED <<source, view, events>>
    BY <1>0, <1>8 DEF Elements, handleCommand, webview
  <2>3. c.op \in {"start", "stop", "pause", "resume"} => c.token \in Token
    BY <2>2 DEF Command
  <2> HIDE DEF c
  <2>4. \/ nativeOpen(c) \/ nativeStart(c) \/ nativeStop(c) \/ nativePause(c)
    BY <2>1 DEF c
  <2>5. /\ owner'.session = owner.session /\ owner'.checkpoint = owner.checkpoint
        /\ unsent' = unsent
    BY <1>0, <2>4
    DEF nativeOpen, nativeStart, nativeStop, nativePause, parse_file, open_log_file_fails,
        admit_tail_start, admit_tail_start_fails, stop_tail, set_paused, start, stop, backend,
        OwnerType
  <2>6. \A reply \in opened' : reply \in opened \/ reply.session = None
    BY <2>4 DEF nativeOpen, nativeStart, nativeStop, nativePause, Reply, None
  <2>7. ASSUME c.op \in {"start", "stop"}, same_session(owner, c.token)
        PROVE  owner.session <= source.session
    <3>1. StartSent(c.token) \/ StopSent(c.token)
      BY <2>2, <2>7 DEF StartSent, StopSent
    <3> QED BY <1>0, <2>3, <2>7, <3>1 DEF same_session
  <2>8. owner'.epoch = owner.epoch \/ owner.session <= source.session
    <3>1. CASE nativeOpen(c) \/ nativePause(c)
      BY <1>0, <3>1 DEF nativeOpen, nativePause, parse_file, open_log_file_fails, set_paused,
         backend, OwnerType
    <3>2. CASE nativeStart(c)
      <4>1. owner' = owner \/ Starts(owner, c.token)
        BY <3>2 DEF nativeStart, admit_tail_start_fails, backend
      <4> QED BY <2>7, <3>2, <4>1 DEF nativeStart, Starts
    <3>3. CASE nativeStop(c)
      <4>1. owner' = owner \/ Stops(owner, c.token)
        BY <3>3 DEF nativeStop, backend
      <4> QED BY <2>7, <3>3, <4>1 DEF nativeStop, Stops
    <3> QED BY <2>4, <3>1, <3>2, <3>3
  <2> QED BY <1>7, <2>2, <2>5, <2>6, <2>8
<1>9. CASE nativeInstall
  <2>1. PICK ck \in opening : owner' = NewOwner(owner.session + 1, ck)
    BY <1>9 DEF nativeInstall, open_log_file
  <2>2. opened = {}
    BY <2>1 DEF StayInv, LoadsInv, WatchTypesInv
  <2> DEFINE new == Reply(parsing, IF owner'.firewall THEN owner'.session ELSE None, FALSE,
                          Elements(owner'.checkpoint.rows))
  <2>3. /\ opened' = opened \cup {new} /\ new.rows = Elements(owner'.checkpoint.rows)
        /\ UNCHANGED <<source, view, events>>
    BY <1>9 DEF nativeInstall, Reply, webview
  <2> HIDE DEF new
  <2>4. owner'.session = owner.session + 1 /\ owner'.epoch = 0
    BY <2>1 DEF NewOwner
  <2>5. source'.session # owner'.session
    BY <1>0, <2>3, <2>4
  <2> QED BY <2>2, <2>3, <2>4, <2>5 DEF PicturedInv
<1>10. ASSUME NEW t \in Token, nativeWorker(t)
       PROVE  PicturedInv'
  <2>1. /\ WorkerStep(t) /\ events' = events \o emitted'
        /\ UNCHANGED <<view, source>> /\ opened' = opened
    BY <1>10 DEF nativeWorker, webview
  <2> DEFINE before == Elements(owner.checkpoint.rows)
             now == Elements(owner'.checkpoint.rows)
  <2>2. /\ owner'.session = owner.session /\ owner'.epoch = owner.epoch
        /\ \/ emitted' = <<>> /\ unsent' = unsent /\ now = before
           \/ /\ is_current(owner, t)
              /\ \E e \in Event :
                   /\ e.token = t /\ Continued(e, before, now, owner.checkpoint.next_id)
                   /\ \/ emitted' = <<e>> /\ unsent' = IF e.reset THEN {} ELSE unsent
                      \/ emitted' = <<>> /\ unsent' = unsent \cup {e}
    BY <2>1, WorkerPictures
  <2>3. CASE emitted' = <<>> /\ unsent' = unsent /\ now = before
    <3>1. events' = events
      BY <1>0, <2>1, <2>3, ConcatEmptySeq
    <3> QED BY <2>1, <2>2, <2>3, <3>1 DEF PicturedInv, SourceToken, NoResetUnsent, UnsentRows
  <2>4. ASSUME is_current(owner, t), NEW e \in Event, e.token = t,
               Continued(e, before, now, owner.checkpoint.next_id),
               \/ emitted' = <<e>> /\ unsent' = IF e.reset THEN {} ELSE unsent
               \/ emitted' = <<>> /\ unsent' = unsent \cup {e}
        PROVE  PicturedInv'
    <3>1. /\ t.session = owner.session /\ t.epoch = owner.epoch /\ owner.epoch = 1
          /\ owner.session = source.session
      BY <1>0, <2>4 DEF is_current, same_session, PicturedInv
    <3>2. t = SourceToken(source)
      BY <1>0, <3>1 DEF SourceToken, Token
    <3>3. \A row \in Elements(e.entries) : row \notin before /\ row \notin UnsentRows
      <4>1. \A row \in before \cup UnsentRows :
              row.id < owner.checkpoint.next_id /\ row.id \in Nat
        BY IdsAreGiven
      <4>2. \A row \in Elements(e.entries) : row.id >= owner.checkpoint.next_id
        BY <2>4 DEF Continued
      <4>3. owner.checkpoint.next_id \in Nat
        BY <1>0 DEF OwnerType, Checkpoint
      <4>4. \A a, b \in Nat : ~(a < b /\ a >= b)
        OBVIOUS
      <4> HIDE DEF before
      <4> QED BY <4>1, <4>2, <4>3, <4>4
    <3>4. ASSUME source.active
          PROVE  \E last : /\ Leads(view', events', SourceToken(source), last)
                           /\ NoResetUnsent' => last = now \ UnsentRows'
      <4>1. PICK last : /\ Leads(view, events, SourceToken(source), last)
                        /\ NoResetUnsent => last = before \ UnsentRows
        BY <3>1, <3>4 DEF PicturedInv
      <4>2. CASE emitted' = <<e>> /\ unsent' = IF e.reset THEN {} ELSE unsent
        <5>1. events' = Append(events, e)
          BY <1>0, <2>1, <4>2
        <5>2. Leads(view', events', SourceToken(source), reconcileFirewallRows(last, e))
          <6>1. Leads(view, Append(events, e), SourceToken(source),
                      After(last, e, SourceToken(source)))
            BY <1>0, <4>1, LeadsAppend
          <6> QED BY <2>1, <2>4, <3>2, <5>1, <6>1 DEF After
        <5>3. CASE e.reset
          <6>1. UnsentRows' = {}
            BY <4>2, <5>3 DEF UnsentRows
          <6>2. reconcileFirewallRows(last, e) = now
            BY <2>4, <5>3, ContinuedViews
          <6> HIDE DEF now
          <6> QED BY <5>2, <6>1, <6>2
        <5>4. CASE ~e.reset
          <6>1. UnsentRows' = UnsentRows /\ (NoResetUnsent' <=> NoResetUnsent)
            BY <4>2, <5>4 DEF UnsentRows, NoResetUnsent
          <6>2. now = before \cup Elements(e.entries)
            BY <2>4, <5>4 DEF Continued
          <6> HIDE DEF now, before
          <6>3. reconcileFirewallRows(before \ UnsentRows, e)
                  = (before \ UnsentRows) \cup Elements(e.entries)
            <7>1. Continued(e, before, now, owner.checkpoint.next_id)
              BY <2>4
            <7> QED BY <5>4, <7>1, ContinuedViews, Zenon
          <6>4. now \ UnsentRows = (before \ UnsentRows) \cup Elements(e.entries)
            BY <3>3, <6>2
          <6> QED BY <4>1, <5>2, <6>1, <6>3, <6>4
        <5> QED BY <5>3, <5>4
      <4>3. CASE emitted' = <<>> /\ unsent' = unsent \cup {e}
        <5>1. view' = view /\ events' = events
          BY <1>0, <2>1, <4>3, ConcatEmptySeq
        <5>2. NoResetUnsent' => NoResetUnsent /\ ~e.reset
          BY <4>3 DEF NoResetUnsent
        <5>3. UnsentRows' = UnsentRows \cup Elements(e.entries)
          BY <4>3 DEF UnsentRows
        <5>4. ~e.reset => now = before \cup Elements(e.entries)
          BY <2>4 DEF Continued
        <5> HIDE DEF now, before
        <5>5. ~e.reset => now \ UnsentRows' = before \ UnsentRows
          BY <3>3, <5>3, <5>4
        <5> QED BY <4>1, <5>1, <5>2, <5>5
      <4> QED BY <2>4, <4>2, <4>3
    <3>5. SourceToken(source)' = SourceToken(source) /\ source' = source
      BY <2>1 DEF SourceToken
    <3>6. \A d \in Elements(events') : d.token.session <= source'.session
      <4>1. Elements(<<e>>) = {e} /\ Elements(<<>>) = {}
        BY DEF Elements
      <4>2. Elements(events') \subseteq Elements(events) \cup {e}
        <5>1. CASE emitted' = <<e>>
          <6>1. events' = Append(events, e)
            BY <1>0, <2>1, <5>1
          <6> QED BY <1>0, <6>1, ElementsJoin
        <5>2. CASE emitted' = <<>>
          BY <1>0, <2>1, <5>2, ConcatEmptySeq
        <5> QED BY <2>4, <5>1, <5>2
      <4> QED BY <1>0, <2>1, <2>4, <3>1, <4>2 DEF PicturedInv
    <3>7. \A reply \in opened' : reply.session = None
      BY <2>1, <3>1 DEF StayInv, SessionsInv
    <3> QED BY <1>0, <2>1, <2>2, <3>1, <3>4, <3>5, <3>6, <3>7 DEF PicturedInv
  <2> QED BY <2>2, <2>3, <2>4
<1>11. CASE fileChanges \/ UNCHANGED vars
  <2>1. /\ UNCHANGED <<view, source, unsent>> /\ owner' = owner /\ opened' = opened
        /\ events' = events
    BY <1>11 DEF fileChanges, FileStep, Write, Replace, Truncate, vars, backend, webview, wires
  <2> QED BY <1>3, <2>1
<1> QED BY <1>4, <1>5, <1>6, <1>8, <1>9, <1>10, <1>11 DEF WatchNext

\* While no other tab takes the view and the emission of no reset failed since the last one was
\* emitted, the view of an active watch with no event under way holds exactly the rows of the
\* committed checkpoint but those whose own emission failed, however reads, resets, reopenings,
\* failed emissions and failed launches are interleaved (commit, start_session, read_opened,
\* reconcileFirewallRows, applyFirewallTail).
THEOREM ViewPictures ==
  ASSUME Tabs = {}
  PROVE  WatchSpec => []ViewIsCheckpoint
<1> DEFINE Inv == /\ TypeOK /\ WatchTypesInv /\ TailedInv /\ OrphanInv /\ FreshIsCommitted
                  /\ StreamInv /\ GrowsInv /\ UnsentInv /\ StayInv /\ PicturedInv
<1>1. WatchInit => Inv
  <2> SUFFICES ASSUME WatchInit PROVE Inv
    OBVIOUS
  <2>1. /\ TypeOK /\ WatchTypesInv /\ TailedInv /\ OrphanInv /\ FreshIsCommitted
        /\ StreamInv /\ StayInv
    BY WatchTypesInit, NativeStep, OrphanInit, StayInit
  <2>2. GrowsInv /\ UnsentInv /\ UnsentRows = {}
    BY DEF GrowsInv, WatchInit, Init, Idle, UnsentInv, UnsentRows
  <2>3. /\ view = Elements(owner.checkpoint.rows) /\ events = <<>> /\ opened = {}
        /\ owner.epoch = 0
    BY DEF WatchInit, Init, NewOwner
  <2>4. Elements(events) = {} /\ events \in Seq(Event)
    BY <2>3 DEF Elements
  <2>5. Leads(view, events, SourceToken(source), view)
    BY <2>4, LeadsOther
  <2> QED BY <2>1, <2>2, <2>3, <2>4, <2>5 DEF PicturedInv
<1>2. Inv /\ [WatchNext]_vars => Inv'
  BY WatchTypesStep, NativeStep, StepIsNative, OrphanStep, GrowsStep, UnsentStep, StayStep,
     PicturedStep
<1>3. Inv => ViewIsCheckpoint
  <2> SUFFICES ASSUME Inv, source.active, is_current(owner, SourceToken(source)), events = <<>>,
                      NoResetUnsent
               PROVE  view = Elements(owner.checkpoint.rows) \ UnsentRows
    BY DEF ViewIsCheckpoint
  <2>1. source.session = owner.session
    BY DEF is_current, same_session, SourceToken
  <2>2. PICK last : /\ Leads(view, events, SourceToken(source), last)
                    /\ last = Elements(owner.checkpoint.rows) \ UnsentRows
    BY <2>1 DEF PicturedInv
  <2> QED BY <2>2, LeadsEmpty
<1> HIDE DEF Inv
<1> QED BY <1>1, <1>2, <1>3, PTL DEF WatchSpec

----------------------------------------------------------------------------
(* The pause of the watch in view *)

\* The command that brings the pause button to the watch, and the commands that decide its pause.
PauseOf(paused, t) == Control(IF paused THEN "pause" ELSE "resume", t)
About(c, t) == c.op \in {"start", "pause", "resume"} /\ c.token = t
AboutSent(t) == \E c \in Elements(commands) : About(c, t)

\* The last command about the watch is the one that says what the button says.
Concludes(s, t, paused) ==
  \E i \in DOMAIN s : /\ s[i] = PauseOf(paused, t)
                      /\ \A j \in DOMAIN s : j > i => ~About(s[j], t)

\* It stays the last when a command about something else follows, and is the last when it has just
\* been sent, alone or at the end of others.
LEMMA ConcludesSent ==
  ASSUME NEW s \in Seq(Command), NEW t \in Token, NEW paused \in BOOLEAN
  PROVE  /\ \A c \in Command :
              ~About(c, t) /\ Concludes(s, t, paused) => Concludes(Append(s, c), t, paused)
         /\ PauseOf(paused, t) \in Command => Concludes(Append(s, PauseOf(paused, t)), t, paused)
         /\ \A u \in Seq(Command) : Concludes(u, t, paused) => Concludes(s \o u, t, paused)
<1>1. Len(s) \in Nat /\ DOMAIN s = 1..Len(s)
  OBVIOUS
<1>2. \A c \in Command :
        /\ DOMAIN Append(s, c) = 1..(Len(s) + 1) /\ Append(s, c)[Len(s) + 1] = c
        /\ \A i \in 1..Len(s) : Append(s, c)[i] = s[i]
  BY <1>1, AppendProperties
<1>3. ASSUME NEW c \in Command, ~About(c, t), Concludes(s, t, paused)
      PROVE  Concludes(Append(s, c), t, paused)
  <2>1. PICK i \in 1..Len(s) : /\ s[i] = PauseOf(paused, t)
                               /\ \A j \in 1..Len(s) : j > i => ~About(s[j], t)
    BY <1>1, <1>3 DEF Concludes
  <2>2. i \in 1..(Len(s) + 1) /\ \A j \in 1..(Len(s) + 1) : j \in 1..Len(s) \/ j = Len(s) + 1
    BY <1>1
  <2>3. \A j \in 1..(Len(s) + 1) : j > i => ~About(Append(s, c)[j], t)
    BY <1>2, <1>3, <2>1, <2>2
  <2> QED BY <1>2, <2>1, <2>2, <2>3 DEF Concludes
<1>4. ASSUME PauseOf(paused, t) \in Command
      PROVE  Concludes(Append(s, PauseOf(paused, t)), t, paused)
  <2> DEFINE r == Append(s, PauseOf(paused, t))
  <2>1. DOMAIN r = 1..(Len(s) + 1) /\ r[Len(s) + 1] = PauseOf(paused, t)
    BY <1>2, <1>4
  <2> HIDE DEF r
  <2>2. Len(s) + 1 \in 1..(Len(s) + 1) /\ \A j \in 1..(Len(s) + 1) : ~(j > Len(s) + 1)
    BY <1>1
  <2>3. Concludes(r, t, paused)
    BY <2>1, <2>2 DEF Concludes
  <2> QED BY <2>3 DEF r
<1>5. ASSUME NEW u \in Seq(Command), Concludes(u, t, paused)
      PROVE  Concludes(s \o u, t, paused)
  <2>1. Len(u) \in Nat /\ DOMAIN u = 1..Len(u)
    OBVIOUS
  <2>2. /\ DOMAIN (s \o u) = 1..(Len(s) + Len(u))
        /\ \A j \in 1..(Len(s) + Len(u)) :
             (s \o u)[j] = IF j <= Len(s) THEN s[j] ELSE u[j - Len(s)]
    BY <1>1, ConcatProperties
  <2>3. PICK i \in 1..Len(u) : /\ u[i] = PauseOf(paused, t)
                               /\ \A j \in 1..Len(u) : j > i => ~About(u[j], t)
    BY <1>5, <2>1 DEF Concludes
  <2>4. /\ Len(s) + i \in 1..(Len(s) + Len(u)) /\ ~(Len(s) + i <= Len(s))
        /\ Len(s) + i - Len(s) = i
    BY <1>1, <2>1
  <2>5. ASSUME NEW j \in 1..(Len(s) + Len(u)), j > Len(s) + i
        PROVE  ~About((s \o u)[j], t)
    <3>1. ~(j <= Len(s)) /\ j - Len(s) \in 1..Len(u) /\ j - Len(s) > i
      BY <1>1, <2>1, <2>5
    <3> QED BY <2>2, <2>3, <3>1
  <2>6. (s \o u)[Len(s) + i] = PauseOf(paused, t)
    BY <2>2, <2>3, <2>4
  <2> QED BY <2>2, <2>4, <2>5, <2>6 DEF Concludes
<1> QED BY <1>3, <1>4, <1>5

\* When the first command is taken it stays the last, or it was the one taken and no other is left.
LEMMA ConcludesTaken ==
  ASSUME NEW s \in Seq(Command), NEW t \in Token, NEW paused \in BOOLEAN, 1 \in DOMAIN s,
         Concludes(s, t, paused)
  PROVE  \/ Concludes(Without(s, 1), t, paused)
         \/ s[1] = PauseOf(paused, t) /\ \A c \in Elements(Without(s, 1)) : ~About(c, t)
<1> DEFINE r == Without(s, 1)
<1>1. Len(s) \in Nat /\ DOMAIN s = 1..Len(s)
  OBVIOUS
<1>2. DOMAIN r = 1..(Len(s) - 1) /\ \A j \in 1..(Len(s) - 1) : r[j] = s[j + 1]
  <2>1. \A j \in 1..(Len(s) - 1) : ~(j < 1)
    BY <1>1
  <2> QED BY <2>1, WithoutAt
<1> HIDE DEF r
<1>3. PICK i \in 1..Len(s) : /\ s[i] = PauseOf(paused, t)
                             /\ \A j \in 1..Len(s) : j > i => ~About(s[j], t)
  BY <1>1 DEF Concludes
<1>4. \A j \in 1..(Len(s) - 1) : j + 1 \in 1..Len(s) /\ j + 1 > 1
  BY <1>1
<1>5. CASE i = 1
  <2>1. \A c \in Elements(r) : ~About(c, t)
    BY <1>2, <1>3, <1>4, <1>5 DEF Elements
  <2> QED BY <1>3, <1>5, <2>1 DEF r
<1>6. CASE i # 1
  <2>1. i - 1 \in 1..(Len(s) - 1) /\ i - 1 + 1 = i
    BY <1>1, <1>6
  <2>2. r[i - 1] = PauseOf(paused, t)
    BY <1>2, <1>3, <2>1
  <2>3. \A j \in 1..(Len(s) - 1) : j > i - 1 => j + 1 > i
    BY <1>1
  <2>4. \A j \in 1..(Len(s) - 1) : j > i - 1 => ~About(r[j], t)
    BY <1>2, <1>3, <1>4, <2>3
  <2>5. Concludes(r, t, paused)
    BY <1>2, <2>1, <2>2, <2>4 DEF Concludes
  <2> QED BY <2>5 DEF r
<1> QED BY <1>5, <1>6

\* The effects of a watch end with what the button says.
LEMMA EffectsPause ==
  ASSUME NEW s \in Source, CanBegin(s)
  PROVE  Concludes(WatchCommands(s), SourceToken(Begin(s)), isPaused)
<1> DEFINE t == SourceToken(Begin(s))
           a == Control("start", t)
           b == PauseControl(t)
<1>1. WatchCommands(s) = <<a, b>>
  BY DEF WatchCommands
<1>2. b = PauseOf(isPaused, t)
  BY DEF PauseControl, PauseOf
<1> HIDE DEF a, b, t
<1>3. DOMAIN <<a, b>> = {1, 2} /\ <<a, b>>[2] = b
  OBVIOUS
<1>4. Concludes(<<a, b>>, t, isPaused)
  BY <1>2, <1>3 DEF Concludes
<1> QED BY <1>1, <1>4 DEF t

\* What the native side knows of the pause of the watch in view is what the button says, or the last
\* command about that watch on its way says so.
PauseInv ==
  source.active =>
    \/ Concludes(commands, SourceToken(source), isPaused)
    \/ /\ ~AboutSent(SourceToken(source))
       /\ is_current(owner, SourceToken(source)) => owner.paused = isPaused

\* Every step of the webview keeps it: one case per action.
LEMMA WebviewPauses ==
  ASSUME WatchTypesInv, WatchTypesInv', OrphanInv, PauseInv, UserStep \/ WebviewStep
  PROVE  PauseInv'
<1>0. /\ source \in Source /\ commands \in Seq(Command) /\ watch \subseteq Token
      /\ isPaused \in BOOLEAN /\ isPaused' \in BOOLEAN /\ SourceToken(source) \in Token
      /\ source.active => shown /\ watch = {SourceToken(source)}
      /\ switches' \in 0..MaxLoad /\ leaving \subseteq 1..MaxLoad /\ started \subseteq Token
      /\ \A reply \in opened : reply.session \in 0..MaxSession
  <2>1. source \in Source /\ source.epoch >= 1
    BY DEF WatchTypesInv, WatchTypeOK
  <2>2. SourceToken(source) \in Token
    BY <2>1 DEF Source, SourceToken, Token
  <2> QED BY <2>1, <2>2 DEF WatchTypesInv, WatchTypeOK, OrphanInv
<1>1. owner' = owner
  BY DEF UserStep, WebviewStep, LoadStep, refreshActiveSource, switchToCachedTab,
     loadOtherTab, switchToTab, evictSnapshot, togglePause, otherTabLoaded, otherTabFails,
     loadSelectedLogFile, applyParseResult, loadFails, firewallGone, dropReply, startResolved,
     applyFirewallTail, backend
<1>2. ASSUME source' = source, isPaused' = isPaused,
             \/ commands' = commands
             \/ \E c \in Command :
                  c.op \notin {"start", "pause", "resume"} /\ commands' = Append(commands, c)
      PROVE  PauseInv'
  <2> DEFINE t == SourceToken(source)
  <2>1. SourceToken(source)' = t
    BY <1>2 DEF SourceToken
  <2>2. CASE commands' = commands
    BY <1>1, <1>2, <2>1, <2>2 DEF PauseInv, AboutSent
  <2>3. ASSUME NEW c \in Command, c.op \notin {"start", "pause", "resume"},
               commands' = Append(commands, c)
        PROVE  PauseInv'
    <3>1. ~About(c, t)
      BY <2>3 DEF About
    <3>2. Concludes(commands, t, isPaused) => Concludes(commands', t, isPaused)
      BY <1>0, <2>3, <3>1, ConcludesSent
    <3>3. ~AboutSent(t) => \A d \in Elements(commands') : ~About(d, t)
      <4>1. Elements(commands') = Elements(commands) \cup {c}
        BY <1>0, <2>3, ElementsJoin
      <4> QED BY <3>1, <4>1 DEF AboutSent
    <3> QED BY <1>1, <1>2, <2>1, <3>2, <3>3 DEF PauseInv, AboutSent
  <2> QED BY <1>2, <2>2, <2>3
<1>3. ~source'.active => PauseInv'
  BY DEF PauseInv
<1>4. ASSUME source' = source, commands' = Append(commands, PauseOf(isPaused', SourceToken(source)))
      PROVE  PauseInv'
  <2>1. PauseOf(isPaused', SourceToken(source)) \in Command
    <3>1. \A op \in {"pause", "resume"} : Control(op, SourceToken(source)) \in Command
      BY <1>0, BeginTypes
    <3> QED BY <3>1 DEF PauseOf
  <2>2. Concludes(commands', SourceToken(source), isPaused')
    BY <1>0, <1>4, <2>1, ConcludesSent
  <2> QED BY <1>4, <2>2 DEF PauseInv, SourceToken
<1>5. ASSUME NEW s \in Source, CanBegin(s), NEW pre \in Seq(Command), source' = Begin(s),
             commands' = pre \o WatchCommands(s), isPaused' = isPaused
      PROVE  PauseInv'
  <2>1. /\ WatchCommands(s) \in Seq(Command)
        /\ Concludes(WatchCommands(s), SourceToken(Begin(s)), isPaused)
    BY <1>5, BeginTypes, EffectsPause
  <2>2. SourceToken(Begin(s)) \in Token
    BY <1>5, BeginTypes
  <2>3. Concludes(commands', SourceToken(Begin(s)), isPaused)
    BY <1>0, <1>5, <2>1, <2>2, ConcludesSent
  <2> QED BY <1>5, <2>3 DEF PauseInv, SourceToken
<1>6. Unmount => PauseInv'
  <2>1. source.active => SourceToken(source) \in watch
    BY <1>0
  <2>2. Unmount => ~source'.active
    BY <1>0, <2>1 DEF Unmount, endFirewallWatch, Source
  <2> QED BY <1>3, <2>2
<1>7. CASE switchToCachedTab \/ otherTabLoaded \/ loadFails
  <2>1. Unmount \/ (UNCHANGED <<source, commands, isPaused>>)
    BY <1>7 DEF switchToCachedTab, otherTabLoaded, loadFails
  <2> QED BY <1>2, <1>6, <2>1
<1>8. CASE firewallGone
  <2>1. ~source'.active
    BY <1>0, <1>8 DEF firewallGone, Source
  <2> QED BY <1>3, <2>1
<1>9. CASE loadOtherTab
  <2>1. ~source'.active \/ UNCHANGED <<source, commands, isPaused>>
    BY <1>0, <1>9 DEF loadOtherTab, Source
  <2> QED BY <1>2, <1>3, <2>1
<1>10. CASE switchToTab
  <2>1. CASE shown \/ ~cached
    BY <1>2, <1>10, <2>1 DEF switchToTab
  <2>2. CASE ~shown /\ cached
    <3>1. source' = Begin(source) /\ commands' = commands \o WatchCommands(source)
          /\ isPaused' = isPaused
      BY <1>10, <2>2 DEF switchToTab
    <3>2. CASE CanBegin(source)
      BY <1>0, <1>5, <3>1, <3>2
    <3>3. CASE ~CanBegin(source)
      BY <1>0, <1>3, <2>2, <3>1, <3>3 DEF Begin
    <3> QED BY <3>2, <3>3
  <2> QED BY <1>10, <2>1, <2>2 DEF switchToTab
<1>11. CASE applyParseResult
  <2>1. PICK reply \in opened :
          LET fresh == [session |-> reply.session, epoch |-> 0, active |-> FALSE]
          IN /\ reply.session # None /\ source' = Begin(fresh) /\ isPaused' = isPaused
             /\ commands' = commands \o CleanupCommands(watch) \o WatchCommands(fresh)
    BY <1>11 DEF applyParseResult
  <2> DEFINE fresh == [session |-> reply.session, epoch |-> 0, active |-> FALSE]
             cleaned == commands \o CleanupCommands(watch)
  <2>2. fresh \in Source /\ CanBegin(fresh)
    BY <1>0, <2>1, BeginTypes DEF None
  <2>3. source' = Begin(fresh) /\ commands' = cleaned \o WatchCommands(fresh)
    BY <2>1
  <2>4. cleaned \in Seq(Command)
    <3>1. CleanupCommands(watch) \in Seq(Command)
      BY <1>0, BeginTypes
    <3> QED BY <1>0, <3>1
  <2> HIDE DEF fresh, cleaned
  <2> QED BY <1>5, <2>1, <2>2, <2>3, <2>4
<1>12. CASE refreshActiveSource \/ loadSelectedLogFile
  <2>1. source' = source /\ isPaused' = isPaused
    BY <1>12 DEF refreshActiveSource, loadSelectedLogFile
  <2>2. \/ commands' = commands
        \/ \E load \in 1..MaxLoad : commands' = Append(commands, [op |-> "open", load |-> load])
    <3>1. switches < MaxLoad => switches + 1 \in 1..MaxLoad
      BY UserAssumption DEF WatchTypesInv, WatchTypeOK
    <3> QED BY <1>0, <1>12, <3>1 DEF refreshActiveSource, loadSelectedLogFile
  <2>3. \A load \in 1..MaxLoad :
          /\ [op |-> "open", load |-> load] \in Command
          /\ [op |-> "open", load |-> load].op \notin {"start", "pause", "resume"}
    BY DEF Command
  <2> QED BY <1>2, <2>1, <2>2, <2>3
<1>13. CASE togglePause
  <2>1. CASE shown /\ source.active
    <3>1. source' = source /\ isPaused' = ~isPaused
          /\ commands' = Append(commands, Control(IF isPaused THEN "resume" ELSE "pause",
                                                  SourceToken(source)))
      BY <1>13, <2>1 DEF togglePause
    <3>2. PauseOf(isPaused', SourceToken(source))
            = Control(IF isPaused THEN "resume" ELSE "pause", SourceToken(source))
      BY <1>0, <3>1 DEF PauseOf
    <3> QED BY <1>4, <3>1, <3>2
  <2>2. CASE ~(shown /\ source.active)
    <3>1. ~source'.active
      BY <1>0, <1>13, <2>2 DEF togglePause
    <3> QED BY <1>3, <3>1
  <2> QED BY <2>1, <2>2
<1>14. CASE startResolved
  <2>1. PICK t \in started : /\ source' = source /\ isPaused' = isPaused
                             /\ commands' = IF source.active /\ SourceToken(source) = t
                                            THEN Append(commands, PauseControl(t)) ELSE commands
    BY <1>14 DEF startResolved, webview
  <2>2. CASE source.active /\ SourceToken(source) = t
    <3>1. PauseControl(t) = PauseOf(isPaused', SourceToken(source))
      BY <2>1, <2>2 DEF PauseControl, PauseOf
    <3> QED BY <1>4, <2>1, <2>2, <3>1
  <2>3. CASE ~(source.active /\ SourceToken(source) = t)
    BY <1>2, <2>1, <2>3
  <2> QED BY <2>2, <2>3
<1>15. CASE evictSnapshot \/ otherTabFails \/ dropReply \/ applyFirewallTail
  <2>1. UNCHANGED <<source, commands, isPaused>>
    BY <1>15 DEF evictSnapshot, otherTabFails, dropReply, applyFirewallTail, webview, wires
  <2> QED BY <1>2, <2>1
<1> QED
  BY <1>7, <1>8, <1>9, <1>10, <1>11, <1>12, <1>13, <1>14, <1>15 DEF UserStep, WebviewStep, LoadStep

\* Every step of the native side keeps it, when the commands are handled in the order sent: one case
\* per action.
LEMMA NativePauses ==
  ASSUME InOrder, TypeOK, WatchTypesInv, PauseInv,
         \/ handleCommand \/ nativeInstall \/ (\E t \in Token : nativeWorker(t)) \/ fileChanges
         \/ UNCHANGED vars
  PROVE  PauseInv'
<1> DEFINE token == SourceToken(source)
<1>0. /\ owner \in OwnerType /\ owner.epoch \in Nat /\ commands \in Seq(Command)
      /\ isPaused \in BOOLEAN /\ token \in Token
  <2>1. source \in Source /\ source.epoch >= 1
    BY DEF WatchTypesInv, WatchTypeOK
  <2>2. SourceToken(source) \in Token
    BY <2>1 DEF Source, SourceToken, Token
  <2> QED BY <2>2 DEF TypeOK, OwnerType, WatchTypesInv, WatchTypeOK
<1>1. UNCHANGED <<source, isPaused>>
  BY DEF handleCommand, nativeInstall, nativeWorker, fileChanges, vars, webview
<1>2. SourceToken(source)' = token /\ source'.active = source.active
  BY <1>1 DEF SourceToken
<1>3. ASSUME commands' = commands,
             is_current(owner', token) => is_current(owner, token) /\ owner'.paused = owner.paused
      PROVE  PauseInv'
  BY <1>1, <1>2, <1>3 DEF PauseInv, AboutSent
<1>4. CASE handleCommand
  <2>1. PICK i \in {1} \cap DOMAIN commands :
          /\ \/ nativeOpen(commands[i]) \/ nativeStart(commands[i])
             \/ nativeStop(commands[i]) \/ nativePause(commands[i])
          /\ commands' = Without(commands, i)
    BY <1>4 DEF handleCommand, Without
  <2> DEFINE c == commands[1]
  <2>2. /\ 1 \in DOMAIN commands /\ commands' = Without(commands, 1)
        /\ nativeOpen(c) \/ nativeStart(c) \/ nativeStop(c) \/ nativePause(c)
    BY <2>1
  <2>3. c \in Command /\ c \in Elements(commands)
    BY <1>0, <2>2 DEF Elements
  <2>4. c.op \in {"start", "stop", "pause", "resume"} => c.token \in Token
    BY <2>3 DEF Command
  <2>5. Elements(commands') \subseteq Elements(commands)
    BY <1>0, <2>2, ElementsRemove
  <2>6. Concludes(commands, token, isPaused) =>
          \/ Concludes(commands', token, isPaused)
          \/ c = PauseOf(isPaused, token) /\ \A d \in Elements(commands') : ~About(d, token)
    BY <1>0, <2>2, ConcludesTaken
  <2> HIDE DEF c, token
  <2>7. ASSUME ~About(c, token), is_current(owner', token)
        PROVE  is_current(owner, token) /\ owner'.paused = owner.paused
    <3>1. CASE nativeOpen(c)
      BY <2>7, <3>1 DEF nativeOpen, parse_file, open_log_file_fails
    <3>2. CASE nativeStart(c)
      <4>1. owner' = owner \/ (Starts(owner, c.token) /\ owner' = start(owner, c.token))
            \/ (Starts(owner, c.token) /\ owner' = stop(start(owner, c.token), c.token))
        BY <3>2 DEF nativeStart, admit_tail_start, admit_tail_start_fails, backend
      <4>2. ASSUME Starts(owner, c.token), owner' = start(owner, c.token)
            PROVE  FALSE
        <5>1. owner'.session = owner.session /\ owner'.epoch = c.token.epoch
          BY <1>0, <4>2 DEF start, OwnerType
        <5>2. token.session = c.token.session /\ token.epoch = c.token.epoch
          BY <2>7, <4>2, <5>1 DEF Starts, is_current, same_session
        <5>3. token = c.token
          BY <1>0, <2>4, <3>2, <5>2 DEF nativeStart, Token
        <5> QED BY <2>7, <3>2, <5>3 DEF nativeStart, About
      <4>3. ASSUME owner' = stop(start(owner, c.token), c.token)
            PROVE  FALSE
        <5>1. owner'.active = FALSE
          BY <1>0, <4>3 DEF start, stop, OwnerType
        <5> QED BY <2>7, <5>1 DEF is_current
      <4> QED BY <2>7, <4>1, <4>2, <4>3
    <3>3. CASE nativeStop(c)
      <4>1. owner' = owner \/ owner' = stop(owner, c.token)
        BY <3>3 DEF nativeStop, stop_tail, backend
      <4>2. ASSUME owner' = stop(owner, c.token)
            PROVE  FALSE
        <5>1. owner'.active = FALSE
          BY <1>0, <4>2 DEF stop, OwnerType
        <5> QED BY <2>7, <5>1 DEF is_current
      <4> QED BY <2>7, <4>1, <4>2
    <3>4. CASE nativePause(c)
      <4>1. CASE ~is_current(owner, c.token)
        BY <2>7, <3>4, <4>1 DEF nativePause, backend
      <4>2. CASE is_current(owner, c.token)
        <5>1. owner' = [owner EXCEPT !.paused = (c.op = "pause")]
          BY <3>4, <4>2 DEF nativePause, set_paused
        <5>2. /\ owner'.session = owner.session /\ owner'.epoch = owner.epoch
              /\ owner'.active = owner.active /\ owner'.firewall = owner.firewall
          BY <1>0, <5>1 DEF OwnerType
        <5>3. token.session = c.token.session /\ token.epoch = c.token.epoch
          BY <2>7, <4>2, <5>2 DEF is_current, same_session
        <5>4. token = c.token
          BY <1>0, <2>4, <3>4, <5>3 DEF nativePause, Token
        <5> QED BY <2>7, <3>4, <5>4 DEF nativePause, About
      <4> QED BY <4>1, <4>2
    <3> QED BY <2>2, <3>1, <3>2, <3>3, <3>4
  <2>8. ASSUME c = PauseOf(isPaused, token), is_current(owner', token)
        PROVE  owner'.paused = isPaused
    <3>1. c.token = token /\ c.op = IF isPaused THEN "pause" ELSE "resume"
      BY <2>8 DEF PauseOf, Control
    <3>2. nativePause(c)
      BY <2>2, <3>1 DEF nativeOpen, nativeStart, nativeStop
    <3>3. CASE ~is_current(owner, token)
      <4>1. owner' = owner
        BY <3>1, <3>2, <3>3 DEF nativePause, backend
      <4> QED BY <2>8, <3>3, <4>1
    <3>4. CASE is_current(owner, token)
      <4>1. owner' = [owner EXCEPT !.paused = (c.op = "pause")]
        BY <3>1, <3>2, <3>4 DEF nativePause, set_paused
      <4>2. owner'.paused = (c.op = "pause")
        BY <1>0, <4>1 DEF OwnerType
      <4>3. (c.op = "pause") = isPaused
        BY <1>0, <3>1
      <4> QED BY <4>2, <4>3
    <3> QED BY <3>3, <3>4
  <2>9. ASSUME source.active, Concludes(commands, token, isPaused)
        PROVE  PauseInv'
    BY <1>1, <1>2, <2>6, <2>8, <2>9 DEF PauseInv, AboutSent
  <2>10. ASSUME source.active, ~AboutSent(token),
                is_current(owner, token) => owner.paused = isPaused
         PROVE  PauseInv'
    <3>1. ~About(c, token)
      BY <2>3, <2>10 DEF AboutSent
    <3>2. is_current(owner', token) => owner'.paused = isPaused
      BY <2>7, <2>10, <3>1
    <3> QED BY <1>1, <1>2, <2>5, <2>10, <3>2 DEF PauseInv, AboutSent
  <2> QED BY <1>2, <2>9, <2>10 DEF PauseInv, token
<1>5. CASE nativeInstall
  <2>1. owner'.active = FALSE /\ commands' = commands
    BY <1>5 DEF nativeInstall, open_log_file, NewOwner
  <2> QED BY <1>3, <2>1 DEF is_current
<1>6. ASSUME (\E t \in Token : nativeWorker(t)) \/ fileChanges \/ UNCHANGED vars
      PROVE  PauseInv'
  <2>1. commands' = commands
    BY <1>6 DEF nativeWorker, fileChanges, vars, wires
  <2>2. /\ owner'.session = owner.session /\ owner'.epoch = owner.epoch
        /\ owner'.active = owner.active /\ owner'.firewall = owner.firewall
        /\ owner'.paused = owner.paused
    <3>1. owner' = owner \/ \E t \in Token : owner' = commit(owner, worker[t].outcome)
      BY <1>6 DEF nativeWorker, fileChanges, vars, backend, FileStep, Write, Replace, Truncate,
         WorkerStep, worker_exit, worker_request, worker_read, worker_commit
    <3> QED BY <1>0, <3>1 DEF commit, OwnerType
  <2> QED BY <1>3, <2>1, <2>2 DEF is_current, same_session
<1> QED BY <1>4, <1>5, <1>6

\* When every command and reply has been handled in the order sent, the worker of the active watch
\* is paused exactly when the button says so, whatever tabs, loads and failed launches came between
\* (use-file-watcher.ts, setLiveTailPaused, FirewallOwner::start, control_tail).
THEOREM PauseHonoured ==
  ASSUME InOrder
  PROVE  WatchSpec => []PauseIsHonoured
<1> DEFINE Inv == TypeOK /\ WatchTypesInv /\ TailedInv /\ OrphanInv /\ PauseInv
<1>1. WatchInit => Inv
  <2> SUFFICES ASSUME WatchInit PROVE Inv
    OBVIOUS
  <2>1. TypeOK /\ WatchTypesInv /\ TailedInv /\ OrphanInv
    BY WatchTypesInit, NativeStep, OrphanInit
  <2> DEFINE fresh == [session |-> 1, epoch |-> 0, active |-> FALSE]
  <2>2. fresh \in Source /\ CanBegin(fresh)
    BY SessionAssumption, BeginTypes
  <2>3. source = Begin(fresh) /\ commands = WatchCommands(fresh)
    BY DEF WatchInit
  <2> HIDE DEF fresh
  <2>4. Concludes(commands, SourceToken(source), isPaused)
    BY <2>2, <2>3, EffectsPause
  <2> QED BY <2>1, <2>4 DEF PauseInv
<1>2. Inv /\ [WatchNext]_vars => Inv'
  <2> SUFFICES ASSUME Inv, [WatchNext]_vars PROVE Inv'
    OBVIOUS
  <2>1. TypeOK' /\ WatchTypesInv' /\ TailedInv' /\ OrphanInv'
    BY WatchTypesStep, NativeStep, OrphanStep
  <2>2. CASE UserStep \/ WebviewStep
    BY <2>1, <2>2, WebviewPauses
  <2>3. CASE \/ handleCommand \/ nativeInstall \/ (\E t \in Token : nativeWorker(t))
             \/ fileChanges \/ UNCHANGED vars
    BY <2>1, <2>3, NativePauses
  <2> QED BY <2>1, <2>2, <2>3 DEF WatchNext
<1>3. Inv => PauseIsHonoured
  <2> SUFFICES ASSUME Inv, Settled, is_current(owner, SourceToken(source))
               PROVE  owner.paused = isPaused
    BY DEF PauseIsHonoured
  <2>1. commands = <<>> /\ owner.active
    BY DEF Settled, is_current
  <2>2. Elements(commands) = {} /\ DOMAIN commands = {}
    BY <2>1 DEF Elements
  <2>3. source.active
    <3>1. CurrentToken \in Token
      BY <2>1 DEF TypeOK, TailedInv, ActiveWatchIsTailed
    <3>2. Runs(CurrentToken) /\ ~StopSent(CurrentToken)
      BY <2>1, <2>2 DEF Runs, StopSent
    <3> QED BY <3>1, <3>2 DEF OrphanInv, Shows
  <2> QED BY <2>2, <2>3 DEF PauseInv, Concludes
<1> HIDE DEF Inv
<1> QED BY <1>1, <1>2, <1>3, PTL DEF WatchSpec
=============================================================================
