--------------------------- MODULE LogicalRecords ---------------------------
(***************************************************************************)
(* Framing of the Device Inventory logs into bounded logical records, and  *)
(* their projection to entries (crates/cmtraceopen-parser/src/intune/      *)
(* device/windows/inventory/mod.rs).  The whole-file parse and the tail    *)
(* share these operators.                                                  *)
(*                                                                         *)
(* Text is a sequence of characters: "h" (of a record header), "x", "u"    *)
(* (two bytes long in UTF-8) and "n" (the newline).  A line is a header    *)
(* when it starts with HeaderLen characters "h".  An option is a sequence  *)
(* of at most one element.                                                 *)
(***************************************************************************)
EXTENDS Integers, Sequences, SequencesExt

CONSTANTS Cap,        \* MAX_LOGICAL_RECORD_BYTES
          HeaderLen   \* characters that make a line a header

ASSUME CapAssumption == Cap \in Nat /\ Cap >= 2 \* the widest character fits
ASSUME HeaderAssumption == HeaderLen \in Nat \ {0}

Char == {"h", "x", "u", "n"}
None == <<>>
Some(value) == <<value>>

----------------------------------------------------------------------------
(* Text *)

Width(c) == IF c = "u" THEN 2 ELSE 1
Size(text) == FoldLeft(LAMBDA size, c : size + Width(c), 0, text)
Newlines(text) == FoldLeft(LAMBDA count, c : IF c = "n" THEN count + 1 ELSE count, 0, text)
Without(text, c) ==
  FoldLeft(LAMBDA kept, d : IF d = c THEN kept ELSE Append(kept, d), <<>>, text)

\* text.split('\n'): the pieces between newlines, the last one included.
Pieces(text) ==
  FoldLeft(LAMBDA pieces, c : IF c = "n" THEN Append(pieces, <<>>)
                              ELSE [pieces EXCEPT ![Len(pieces)] = Append(@, c)],
           <<<<>>>>, text)

\* text.lines(): a newline ends a line, so an empty last piece is not one.
Ended(pieces) == IF Last(pieces) = <<>> THEN Front(pieces) ELSE pieces
Lines(text) == Ended(Pieces(text))

\* The largest number of leading characters that fit in the given bytes.
utf8_prefix_at_most(text, maximum) ==
  CHOOSE n \in 0..Len(text) :
    /\ Size(SubSeq(text, 1, n)) <= maximum
    /\ n < Len(text) => Size(SubSeq(text, 1, n + 1)) > maximum

is_record_header(line) ==
  Len(line) >= HeaderLen /\ \A i \in 1..HeaderLen : line[i] = "h"

----------------------------------------------------------------------------
(* Framing: the completed records and the pending one *)

\* FramedLogicalRecord: `split' tells a piece cut by the size bound, which does
\* not own the line it was cut from.
complete(content) == [content |-> content, split |-> FALSE]
split(content) == [content |-> content, split |-> TRUE]
physical_lines_of_whole(record) == Newlines(record.content) + 1
physical_lines(record) == Newlines(record.content) + (IF record.split THEN 0 ELSE 1)

Framed(pending) == [done |-> <<>>, pending |-> pending]

flush_pending(f) ==
  IF f.pending = None THEN f
  ELSE [done |-> Append(f.done, complete(f.pending[1])), pending |-> None]

\* append_bounded: a record that cannot take the next character is cut there.
append_character(f, c) ==
  IF Size(f.pending[1]) + Width(c) <= Cap
  THEN [f EXCEPT !.pending = Some(Append(@[1], c))]
  ELSE [done |-> Append(f.done, split(f.pending[1])), pending |-> Some(<<c>>)]
append_bounded(f, text) ==
  FoldLeft(append_character, [f EXCEPT !.pending = IF @ = None THEN Some(<<>>) ELSE @], text)

\* frame_logical_records of one segment: the start of a line, or more of it.
AddLine(f, line) == append_bounded(f, IF f.pending = None THEN line ELSE <<"n">> \o line)
LineStart(f, line) == AddLine(IF is_record_header(line) THEN flush_pending(f) ELSE f, line)
LineContinuation(f, text) == append_bounded(f, text)

----------------------------------------------------------------------------
(* Projection to entries *)

\* project_logical_record: a header starts an entry, other lines join it.
ProjectLine(entries, i, line) ==
  CASE line # <<>> /\ (entries = <<>> \/ is_record_header(line)) ->
         Append(entries, [line |-> i, text |-> line])
    [] entries # <<>> /\ ~is_record_header(line) ->
         [entries EXCEPT ![Len(entries)].text = @ \o <<"n">> \o line]
    [] OTHER -> entries
ProjectLines(lines) ==
  FoldLeftDomain(LAMBDA entries, i : ProjectLine(entries, i, lines[i]), <<>>, lines)
project_logical_record(record) ==
  LET pieces == Pieces(record.content)
  IN ProjectLines(IF record.split /\ Len(pieces) > 1 THEN Ended(pieces) ELSE pieces)

\* parse_framed_records: the entries of records that start at a line.
Rebased(entries, start) ==
  [i \in DOMAIN entries |-> [entries[i] EXCEPT !.line = start + @ - 1]]
parse_framed_records(records, start) ==
  FoldLeft(LAMBDA parsed, record :
             [entries |-> parsed.entries \o Rebased(project_logical_record(record), parsed.next),
              next |-> parsed.next + physical_lines(record)],
           [entries |-> <<>>, next |-> start], records)

\* Each piece cut by the bound is reported as a parse error.
overflow_count(records) ==
  FoldLeft(LAMBDA count, record : IF record.split THEN count + 1 ELSE count, 0, records)

\* parse_lines: the parse of a whole text, which opening a file uses.
ParseRecords(records) ==
  [entries |-> parse_framed_records(records, 1).entries, errors |-> overflow_count(records)]
parse_lines(text) ==
  ParseRecords(flush_pending(FoldLeft(LineStart, Framed(None), Lines(text))).done)
=============================================================================
