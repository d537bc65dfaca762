----------------------------- MODULE TailReader -----------------------------
(***************************************************************************)
(* The ordinary live tail of one file (src-tauri/src/watcher/tail.rs): the *)
(* TailReader, which reads what was appended since its byte offset, and    *)
(* the session thread that polls it.  Two framings are modelled: "line"    *)
(* (one physical line is one entry) and "inventory" (the Device Inventory  *)
(* logical records of LogicalRecords).                                     *)
(*                                                                         *)
(* The file is a sequence of bytes.  "l" followed by "t" encodes the       *)
(* character "u"; "b" is a byte that no UTF-8 text contains.               *)
(***************************************************************************)
EXTENDS LogicalRecords, FiniteSets

CONSTANTS Framing,         \* "line" or "inventory"
          Bytes,           \* the bytes other programs write
          Writers,         \* what else they do: "replace", "truncate"
          MaxLen,          \* bytes written to the file, in all its generations
          MaxOpen,         \* bytes the initial open may have read
          MaxGen,          \* generations of the file
          MaxFault,        \* how many reads fail
          MaxToggle,       \* how many times the user toggles pause
          OpenAtLineEnd,   \* whether the opened file ends with a newline
          IdentityMayFail  \* whether the platform may not know the identity

ASSUME FramingAssumption == Framing \in {"line", "inventory"}
ASSUME BytesAssumption == Bytes \subseteq {"h", "x", "n", "l", "t", "b"}
ASSUME WritersAssumption == Writers \subseteq {"replace", "truncate"}
ASSUME BoundsAssumption == /\ MaxLen \in Nat /\ MaxOpen \in 0..MaxLen /\ MaxGen \in Nat \ {0}
                           /\ MaxFault \in Nat /\ MaxToggle \in Nat
ASSUME SwitchAssumption == OpenAtLineEnd \in BOOLEAN /\ IdentityMayFail \in BOOLEAN

VARIABLES
  file,     \* the log on disk: its bytes, its identity, its generation and how
            \* many bytes were ever written to it
  reader,   \* the TailReader
  session,  \* the TailSession: stop and pause flags, and its thread: whether it
            \* runs, and whether it waits to poll after finding no stop
  view,     \* what consumers hold: the entries and errors since the last reset
  batch,    \* the last TailBatch
  start,    \* history: the byte after which `view' begins
  seen,     \* history: the generation and identity `view' was read from
  leftover, \* history: the entries and errors of `view' that a truncation left over
  owed,     \* history: a read observed a generation end, no reset since
  faults    \* failures left

vars == <<file, reader, session, view, batch, start, seen, leftover, owed, faults>>

----------------------------------------------------------------------------
(* Types *)

Unknown == 0
PendingReset == {"none", "Truncated", "Replaced"}
File == [data : Seq(Bytes), identity : 1..MaxGen, gen : 1..MaxGen, written : 0..MaxLen]
Entry == [id : Nat, line : Nat \ {0}, text : Seq(Char)]
Reader == [byte_offset : 0..MaxLen, file_identity : 0..MaxGen, pending_reset : PendingReset,
           next_id : Nat, next_line : Nat \ {0}, fragment : Seq(Char), continuation : BOOLEAN,
           pending : Seq(Seq(Char)), carry : Seq({"l"})]
Session == [stop : BOOLEAN, paused : BOOLEAN, running : BOOLEAN, waits : BOOLEAN,
            toggles : 0..MaxToggle]
Batch == [entries : Seq(Entry), errors : Nat, reset : BOOLEAN]

EmptyBatch == [entries |-> <<>>, errors |-> 0, reset |-> FALSE]

----------------------------------------------------------------------------
(* Decoding *)

\* decode_tail_bytes: an incomplete character at the end is held back; any
\* other invalid byte refuses the whole read.
Incomplete(bytes) == bytes # <<>> /\ Last(bytes) = "l"
Decodes(bytes) ==
  /\ \A i \in DOMAIN bytes : bytes[i] # "b"
  /\ \A i \in DOMAIN bytes : bytes[i] = "t" <=> (i > 1 /\ bytes[i - 1] = "l")
decode(bytes) ==
  LET whole == IF Incomplete(bytes) THEN Front(bytes) ELSE bytes
      leads == Without(whole, "t")
  IN [i \in DOMAIN leads |-> IF leads[i] = "l" THEN "u" ELSE leads[i]]
carry_dropped(bytes) == <<>>
carry_of(bytes) == IF Incomplete(bytes) THEN <<"l">> ELSE <<>>

----------------------------------------------------------------------------
(* Framing what was read *)

\* What the framing of a reader has pending, and the records completed so far.
FramingOf(r) == [done |-> <<>>, pending |-> r.pending, fragment |-> r.fragment,
                 continuation |-> r.continuation]
Start(f, line) == LineStart([done |-> f.done, pending |-> f.pending], line)
Continue(f, text) == LineContinuation([done |-> f.done, pending |-> f.pending], text)
With(g, fragment, continuation) ==
  [done |-> g.done, pending |-> g.pending, fragment |-> fragment, continuation |-> continuation]

\* The room left for more of an unterminated line.
Held(f) == (IF f.pending = None THEN 0 ELSE Size(f.pending[1]) + 1) + Size(f.fragment)
room_of_fragment(f) == IF Size(f.fragment) > Cap THEN 0 ELSE Cap - Size(f.fragment)
Available(f) == IF Held(f) > Cap THEN 0 ELSE Cap - Held(f)

\* process_inventory_line_segment: of a line that outgrows the bound, what fits
\* is framed as its start and the rest as its continuation.
AddPiece(f, content, terminated, take) ==
  CASE take < Len(content) ->
         With(Continue(Start(f, f.fragment \o SubSeq(content, 1, take)),
                       SubSeq(content, take + 1, Len(content))), <<>>, ~terminated)
    [] take = Len(content) /\ terminated -> With(Start(f, f.fragment \o content), <<>>, FALSE)
    [] OTHER -> [f EXCEPT !.fragment = @ \o content]
process_inventory_line_segment(f, content, terminated) ==
  CASE f.continuation -> With(Continue(f, content), f.fragment, ~terminated)
    [] ~f.continuation /\ terminated /\ f.fragment = <<>> -> With(Start(f, content), <<>>, FALSE)
    [] OTHER -> AddPiece(f, content, terminated, utf8_prefix_at_most(content, Available(f)))

\* process_inventory_text: every line that ends in the text, then its last piece.
FrameRest(f, rest) ==
  IF rest = <<>> THEN f ELSE process_inventory_line_segment(f, rest, FALSE)
process_inventory_text(f, text) ==
  LET pieces == Pieces(text)
  IN FrameRest(FoldLeft(LAMBDA g, line : process_inventory_line_segment(g, line, TRUE),
                        f, Front(pieces)), Last(pieces))

\* flush_pending_text: at the end of the input the unterminated line starts, and
\* the pending record is complete.
flush_pending_text(f) ==
  With(flush_pending(IF f.fragment = <<>> THEN [done |-> f.done, pending |-> f.pending]
                     ELSE Start(f, f.fragment)), <<>>, FALSE)

\* collect_complete_lines: every terminated line is a record; the rest waits.
collect_complete_lines(f, text) ==
  LET pieces == Pieces(f.fragment \o text)
  IN [f EXCEPT !.done = [i \in DOMAIN Front(pieces) |-> complete(pieces[i])],
               !.fragment = Last(pieces)]

FrameText(f, text) == IF Framing = "inventory" THEN process_inventory_text(f, text)
                      ELSE collect_complete_lines(f, text)

\* The parse of a whole text: what opening a file gives.
parse(text) ==
  IF Framing = "inventory" THEN parse_lines(text)
  ELSE ParseRecords([i \in DOMAIN Lines(text) |-> complete(Lines(text)[i])])

\* Without a logical framing the unterminated line is dropped.
FlushText(f) == IF Framing = "inventory" THEN flush_pending_text(f)
                ELSE [f EXCEPT !.fragment = <<>>]

\* assign_framed_entry_identity: the reader after its completed records have
\* been numbered, with the entries and the errors they give.
Identified(r, f, parsed) ==
  [reader |-> [r EXCEPT !.next_id = @ + Len(parsed.entries), !.next_line = parsed.next,
                        !.pending = f.pending, !.fragment = f.fragment,
                        !.continuation = f.continuation],
   entries |-> [i \in DOMAIN parsed.entries |->
                  [id |-> r.next_id + i - 1, line |-> parsed.entries[i].line,
                   text |-> parsed.entries[i].text]],
   errors |-> overflow_count(f.done)]
Numbered(r, f) == Identified(r, f, parse_framed_records(f.done, r.next_line))

\* finalize_pending_input: a held-back incomplete character is one error.
finalize_pending_input(r) ==
  LET flushed == Numbered([r EXCEPT !.carry = <<>>], FlushText(FramingOf(r)))
  IN [flushed EXCEPT !.errors = @ + Len(r.carry)]

----------------------------------------------------------------------------
(* read_new_entries *)

current_identity == {file.identity} \cup IF IdentityMayFail THEN {Unknown} ELSE {}
size_only(previous, current) == FALSE
identities_differ(previous, current) ==
  previous # Unknown /\ current # Unknown /\ previous # current

\* The transition a read observes, and the one it then owes.
reset_forgotten(r, identity) ==
  CASE identities_differ(r.file_identity, identity) -> "Replaced"
    [] ~identities_differ(r.file_identity, identity) /\ Len(file.data) < r.byte_offset -> "Truncated"
    [] OTHER -> "none"
observed_reset(r, identity) ==
  CASE identities_differ(r.file_identity, identity) -> "Replaced"
    [] /\ ~identities_differ(r.file_identity, identity)
       /\ Len(file.data) < r.byte_offset /\ r.pending_reset = "none" -> "Truncated"
    [] OTHER -> r.pending_reset

\* What is read: the carry and everything after the offset, or the whole file.
ToDecode(r, reset) ==
  IF reset = "none" THEN r.carry \o SubSeq(file.data, r.byte_offset + 1, Len(file.data))
  ELSE file.data

\* At a reset the pending input of a truncated file is finalized into the
\* batch, that of a replaced one is dropped, and line numbers start again.
LeftBehind(r, reset) ==
  IF reset = "Truncated" THEN finalize_pending_input(r)
  ELSE [reader |-> r, entries |-> <<>>, errors |-> 0]
reset_keeps_fragment(r) == [r EXCEPT !.continuation = FALSE, !.pending = None, !.next_line = 1]
Restarted(r) ==
  [r EXCEPT !.fragment = <<>>, !.continuation = FALSE, !.pending = None, !.next_line = 1]

\* A read that succeeds: the reader after it, and its batch.
Took(r, text) == Numbered(r, FrameText(FramingOf(r), text))
Delivered(reset, left, new) ==
  [reader |-> new.reader,
   batch |-> [entries |-> left.entries \o new.entries,
              errors |-> left.errors + new.errors, reset |-> reset # "none"]]
ReadAs(reset, left, bytes) ==
  Delivered(reset, left,
            Took(IF reset = "none" THEN left.reader ELSE Restarted(left.reader), decode(bytes)))
read_new_entries(r, identity) ==
  LET reset == observed_reset(r, identity)
      bytes == ToDecode(r, reset)
      read == ReadAs(reset, LeftBehind(r, reset), bytes)
  IN [read EXCEPT !.reader.file_identity = identity, !.reader.pending_reset = "none",
                  !.reader.byte_offset = Len(file.data), !.reader.carry = carry_of(bytes)]

----------------------------------------------------------------------------
(* The session thread *)

Applied(v, b) ==
  [entries |-> IF b.reset THEN b.entries ELSE v.entries \o b.entries,
   errors |-> IF b.reset THEN b.errors ELSE v.errors + b.errors]

\* The reader is polled, by a change notice or the timer, unless paused.  The
\* stop flag is only looked at before the wait, so one poll may follow a stop.
Polls == session.running /\ session.waits /\ ~session.paused
LoopsBack == session' = [session EXCEPT !.waits = ~session.stop]

\* There is something to read, and it can be decoded.
Due(identity) == observed_reset(reader, identity) # "none" \/ Len(file.data) > reader.byte_offset
Readable(identity) ==
  Due(identity) /\ Decodes(ToDecode(reader, observed_reset(reader, identity)))

\* Nothing was appended: only the identity is taken over.
pollNothing ==
  /\ Polls
  /\ \E identity \in current_identity :
       /\ ~Due(identity)
       /\ reader' = [reader EXCEPT !.file_identity = identity]
  /\ LoopsBack
  /\ batch' = EmptyBatch
  /\ UNCHANGED <<file, view, start, seen, leftover, owed, faults>>

pollReads ==
  /\ Polls
  /\ \E identity \in current_identity :
       LET reset == observed_reset(reader, identity)
           read == read_new_entries(reader, identity)
       IN /\ Readable(identity)
          /\ reader' = read.reader
          /\ batch' = read.batch
          /\ view' = Applied(view, read.batch)
          /\ start' = IF reset = "none" THEN start ELSE 0
          /\ seen' = IF reset = "none" THEN seen ELSE [gen |-> file.gen, identity |-> file.identity]
          /\ leftover' =
               IF reset = "none" THEN leftover
               ELSE LET old == LeftBehind(reader, reset)
                    IN [entries |-> Len(old.entries), errors |-> old.errors]
  /\ LoopsBack
  /\ owed' = FALSE
  /\ UNCHANGED <<file, faults>>

\* The read or the decoding fails: the error is ignored, the observed
\* transition stays owed and nothing else is taken over.
pollFails ==
  /\ Polls
  /\ \E identity \in current_identity :
       /\ Due(identity)
       /\ \/ ~Readable(identity) /\ UNCHANGED faults
          \/ faults > 0 /\ faults' = faults - 1
       /\ reader' = [reader EXCEPT !.pending_reset = observed_reset(reader, identity)]
       /\ owed' = (owed \/ identities_differ(reader.file_identity, identity)
                        \/ Len(file.data) < reader.byte_offset)
  /\ LoopsBack
  /\ batch' = EmptyBatch
  /\ UNCHANGED <<file, view, start, seen, leftover>>

set_paused ==
  /\ session.running /\ ~session.stop
  /\ session.toggles < MaxToggle
  /\ session' = [session EXCEPT !.paused = ~@, !.toggles = @ + 1]
  /\ batch' = EmptyBatch
  /\ UNCHANGED <<file, reader, view, start, seen, leftover, owed, faults>>

stop ==
  /\ session.running /\ ~session.stop
  /\ session' = [session EXCEPT !.stop = TRUE]
  /\ batch' = EmptyBatch
  /\ UNCHANGED <<file, reader, view, start, seen, leftover, owed, faults>>

\* emit_final_tail_batch: the thread ends, and its pending input is emitted.
emit_final_tail_batch ==
  /\ session.running /\ session.stop
  /\ LET final == finalize_pending_input(reader)
     IN /\ reader' = final.reader
        /\ batch' = [entries |-> final.entries, errors |-> final.errors, reset |-> FALSE]
        /\ view' = Applied(view, batch')
  /\ session' = [session EXCEPT !.running = FALSE]
  /\ UNCHANGED <<file, start, seen, leftover, owed, faults>>

----------------------------------------------------------------------------
(* Other programs *)

appendByte ==
  /\ file.written < MaxLen
  /\ \E byte \in Bytes : file' = [file EXCEPT !.data = Append(@, byte), !.written = @ + 1]
  /\ batch' = EmptyBatch
  /\ UNCHANGED <<reader, session, view, start, seen, leftover, owed, faults>>

\* The file is renamed away and created again, or emptied in place.
replaceFile ==
  /\ "replace" \in Writers /\ file.gen < MaxGen
  /\ file' = [file EXCEPT !.data = <<>>, !.identity = file.gen + 1, !.gen = @ + 1]
  /\ batch' = EmptyBatch
  /\ UNCHANGED <<reader, session, view, start, seen, leftover, owed, faults>>
truncateFile ==
  /\ "truncate" \in Writers /\ file.gen < MaxGen
  /\ file' = [file EXCEPT !.data = <<>>, !.gen = @ + 1]
  /\ batch' = EmptyBatch
  /\ UNCHANGED <<reader, session, view, start, seen, leftover, owed, faults>>

----------------------------------------------------------------------------
(* The specification *)

\* The file has been opened: TailStart describes the state the initial parse
\* reached, which counts an unterminated last line as a line.
Opened == {data \in UNION {[1..n -> Bytes] : n \in 0..MaxOpen} :
             /\ Decodes(data) /\ ~Incomplete(data)
             /\ OpenAtLineEnd /\ data # <<>> => Last(data) = "n"}
Init ==
  /\ \E data \in Opened :
       /\ file = [data |-> data, identity |-> 1, gen |-> 1, written |-> Len(data)]
       /\ reader = [byte_offset |-> Len(data), file_identity |-> 1, pending_reset |-> "none",
                    next_id |-> Len(parse(decode(data)).entries),
                    next_line |-> Len(Lines(decode(data))) + 1, fragment |-> <<>>,
                    continuation |-> FALSE, pending |-> None, carry |-> <<>>]
       /\ start = Len(data)
  /\ session = [stop |-> FALSE, paused |-> FALSE, running |-> TRUE, waits |-> TRUE, toggles |-> 0]
  /\ view = [entries |-> <<>>, errors |-> 0]
  /\ batch = EmptyBatch
  /\ seen = [gen |-> 1, identity |-> 1]
  /\ leftover = [entries |-> 0, errors |-> 0]
  /\ owed = FALSE
  /\ faults = MaxFault

Poll == pollNothing \/ pollReads \/ pollFails
FileStep == appendByte \/ replaceFile \/ truncateFile
Next == Poll \/ set_paused \/ stop \/ emit_final_tail_batch \/ FileStep

Spec == Init /\ [][Next]_vars

\* The session thread runs, and its timer polls even when no change is noticed:
\* weak fairness of pollReads, with what enables it written out.
CanRead == Polls /\ \E identity \in current_identity : Readable(identity)
FairSpec == Spec /\ ([]<>~CanRead \/ []<><<pollReads>>_vars)

----------------------------------------------------------------------------
(* Properties *)

\* The type invariant.
TypeOK ==
  /\ file \in File
  /\ reader \in Reader /\ Len(reader.pending) <= 1 /\ Len(reader.carry) <= 1
  /\ session \in Session
  /\ view.entries \in Seq(Entry) /\ view.errors \in Nat
  /\ batch \in Batch
  /\ start \in 0..MaxLen /\ seen \in [gen : 1..MaxGen, identity : 1..MaxGen]
  /\ leftover \in [entries : Nat, errors : Nat]
  /\ owed \in BOOLEAN /\ faults \in 0..MaxFault

\* What the tail has read of the present generation; without a logical framing
\* an unterminated line is not an entry yet.
TailBytes == SubSeq(file.data, start + 1, reader.byte_offset)
TailText ==
  LET text == decode(TailBytes)
  IN IF Framing = "inventory" THEN text
     ELSE SubSeq(text, 1, Len(text) - Len(Last(Pieces(text))))
FirstLine == Newlines(SubSeq(file.data, 1, start)) + 1

\* What consumers would hold of the present generation if the tail ended now.
Final == finalize_pending_input(reader)
Shown == LET all == view.entries \o Final.entries IN SubSeq(all, leftover.entries + 1, Len(all))
Errors == view.errors + Final.errors - leftover.errors
Texts(entries) == Without(FlattenSeq([i \in DOMAIN entries |-> entries[i].text]), "n")

\* Every line fits into the size bound beside the record it may join.
Fits(text) ==
  \A i \in DOMAIN Lines(text) :
    LET before == FoldLeft(LineStart, Framed(None), SubSeq(Lines(text), 1, i - 1))
    IN Held([pending |-> before.pending, fragment |-> Lines(text)[i]]) <= Cap

\* However the writer's appends and the polls interleave, the entries of the
\* tail, their lines and its parse errors are those that opening the same text
\* would give (tail.rs: "inventory framing is chunk invariant").
MatchesOpen ==
  LET opened == parse(TailText)
  IN /\ [i \in DOMAIN Shown |-> [line |-> Shown[i].line, text |-> Shown[i].text]]
          = Rebased(opened.entries, FirstLine)
     /\ Errors = opened.errors + (IF Incomplete(TailBytes) THEN 1 ELSE 0)

\* As long as the tail has seen the file there is, that holds of every text without a line that is
\* cut by the size bound.
TailMatchesOpen == seen.gen = file.gen /\ Fits(TailText) => MatchesOpen

\* Even where records are cut by the size bound, every character of the file
\* is in exactly one entry, in order, and every physical line is counted once.
TailIsLossless ==
  seen.gen = file.gen =>
    /\ Texts(Shown) = Without(TailText, "n")
    /\ Final.reader.next_line = FirstLine + Len(Lines(TailText))

\* The text held back for a later read never exceeds the size bound, however
\* long the file leaves a record or a line unfinished.
PendingIsBounded ==
  /\ TypeOK
  /\ Framing = "inventory" =>
       LET logical == IF reader.pending = None THEN 0 ELSE Size(reader.pending[1])
           joint == IF reader.pending # None /\ reader.fragment # <<>> THEN 1 ELSE 0
       IN logical + joint + Size(reader.fragment) <= Cap

\* A truncation or replacement that a failed read observed is delivered by the
\* next successful one, even if the file has grown past the old offset since.
DeliversReset ==
  owed /\ session'.running /\ (batch'.entries # <<>> \/ ~owed') => batch'.reset
ObservedResetIsDelivered == [][DeliversReset]_vars

\* Once the writers, the user and the failures come to rest, a running tail
\* that is not paused has read the present file to its end, from its beginning if
\* it replaced another one.
TailCatchesUp ==
  <>[](session.running /\ ~session.stop /\ ~session.paused =>
         seen.identity = file.identity /\ reader.byte_offset = Len(file.data))
=============================================================================
