-------------------------- MODULE TailReaderProofs --------------------------
(***************************************************************************)
(* The ordinary tail for every framing bound, every file and every         *)
(* schedule: its types, what it may hold back, that it loses no character  *)
(* and no line, that its entries are those of opening the file, and the    *)
(* reset a tail owes.  What the operators compute is proved in             *)
(* TailReaderReads.                                                        *)
(***************************************************************************)
EXTENDS TailReaderReads

----------------------------------------------------------------------------
(* Types, and the bound of what is held back *)

\* The file has no more bytes than were written, and its identity is that of a generation; the
\* reader holds back what a framing can hold back.
FileOK == file \in File /\ Len(file.data) <= file.written /\ file.identity <= file.gen
RestOK ==
  /\ session \in Session
  /\ view.entries \in Seq(Entry) /\ view.errors \in Nat
  /\ batch \in Batch
  /\ start \in 0..MaxLen /\ seen \in [gen : 1..MaxGen, identity : 1..MaxGen]
  /\ leftover \in [entries : Nat, errors : Nat]
  /\ owed \in BOOLEAN /\ faults \in 0..MaxFault
TailTypes == FileOK /\ ReaderOK(reader) /\ RestOK

LEMMA FileParts ==
  ASSUME FileOK
  PROVE  /\ file.data \in Seq(Bytes) /\ Len(file.data) \in 0..MaxLen /\ file.gen \in 1..MaxGen
         /\ current_identity \subseteq 0..MaxGen /\ file.written \in 0..MaxLen
         /\ file.identity \in 1..MaxGen
<1>1. /\ file.data \in Seq(Bytes) /\ file.gen \in 1..MaxGen /\ file.written \in 0..MaxLen
      /\ file.identity \in 1..MaxGen
  BY DEF FileOK, File
<1>2. Len(file.data) \in Nat /\ Len(file.data) <= file.written
  BY <1>1, LenProperties DEF FileOK
<1>3. Len(file.data) \in 0..MaxLen
  BY <1>1, <1>2, BoundsAssumption
<1>4. current_identity \subseteq 0..MaxGen
  BY <1>1, BoundsAssumption DEF current_identity, Unknown
<1> QED BY <1>1, <1>3, <1>4

LEMMA EmptyBatchType == EmptyBatch \in Batch
BY EmptySeq DEF EmptyBatch, Batch

\* What a consumer holds after one more batch.
LEMMA AppliedGives ==
  ASSUME NEW b \in Batch, view.entries \in Seq(Entry), view.errors \in Nat
  PROVE  Applied(view, b).entries \in Seq(Entry) /\ Applied(view, b).errors \in Nat
<1>1. b.entries \in Seq(Entry) /\ b.errors \in Nat
  BY DEF Batch
<1>2. view.entries \o b.entries \in Seq(Entry) /\ view.errors + b.errors \in Nat
  BY <1>1, ConcatProperties
<1> QED BY <1>1, <1>2 DEF Applied

\* The initial open leaves a reader at the end of the file that holds nothing back.
LEMMA InitGives ==
  ASSUME Init
  PROVE  /\ TailTypes /\ Emptied(reader) /\ reader.carry = <<>>
         /\ file.data \in Opened /\ start = Len(file.data) /\ reader.byte_offset = start
         /\ reader.next_line = Len(Lines(decode(file.data))) + 1
         /\ file.data \in Seq(Valid) /\ ~Incomplete(file.data)
         /\ view.entries = <<>> /\ leftover.entries = 0
<1>1. PICK data \in Opened :
        /\ file = [data |-> data, identity |-> 1, gen |-> 1, written |-> Len(data)]
        /\ reader = [byte_offset |-> Len(data), file_identity |-> 1, pending_reset |-> "none",
                     next_id |-> Len(parse(decode(data)).entries),
                     next_line |-> Len(Lines(decode(data))) + 1, fragment |-> <<>>,
                     continuation |-> FALSE, pending |-> None, carry |-> <<>>]
        /\ start = Len(data)
  BY DEF Init
<1>2. /\ session = [stop |-> FALSE, paused |-> FALSE, running |-> TRUE, waits |-> TRUE,
                    toggles |-> 0]
      /\ view = [entries |-> <<>>, errors |-> 0] /\ batch = EmptyBatch
      /\ seen = [gen |-> 1, identity |-> 1] /\ leftover = [entries |-> 0, errors |-> 0]
      /\ owed = FALSE /\ faults = MaxFault
  BY DEF Init
<1>3. /\ data \in UNION {[1..n -> Bytes] : n \in 0..MaxOpen}
      /\ Decodes(data) /\ ~Incomplete(data)
  BY DEF Opened
<1>4. PICK k \in 0..MaxOpen : data \in [1..k -> Bytes]
  BY <1>3
<1>5. data \in Seq(Bytes) /\ Len(data) = k /\ k \in 0..MaxLen /\ DOMAIN data = 1..k
  <2>1. k \in Nat /\ k <= MaxLen
    BY BoundsAssumption
  <2> QED BY <1>4, <2>1, SeqDef
<1>6. data \in Seq(Valid)
  <2>1. \A i \in 1..k : data[i] \in Valid
    <3>1. \A i \in 1..k : data[i] # "b"
      BY <1>3, <1>5 DEF Decodes
    <3>2. \A i \in 1..k : data[i] \in Bytes
      BY <1>4
    <3> QED BY <3>1, <3>2, BytesAssumption DEF Valid, Byte
  <2>2. data \in [1..k -> Valid]
    BY <1>4, <2>1
  <2> QED BY <1>5, <2>2, SeqDef
<1> DEFINE T == decode(data)
           E == parse(T).entries
           N == Len(Lines(T)) + 1
           I == Len(E)
<1>7. N \in Nat \ {0} /\ I \in Nat
  <2>1. T \in Seq(Char)
    BY <1>6, DecodeGives
  <2> HIDE DEF T
  <2>2. E \in Seq(Projected)
    BY <2>1, ParseGives
  <2>3. Lines(T) \in Seq(Seq(Plain))
    BY <2>1, LinesParts
  <2> HIDE DEF E
  <2>4. I \in Nat /\ Len(Lines(T)) \in Nat
    BY <2>2, <2>3, LenProperties
  <2> QED BY <2>4
<1> HIDE DEF N, I
<1>8. reader = [byte_offset |-> k, file_identity |-> 1, pending_reset |-> "none", next_id |-> I,
                next_line |-> N, fragment |-> <<>>, continuation |-> FALSE, pending |-> None,
                carry |-> <<>>]
  BY <1>1, <1>5 DEF I, N
<1>9. /\ reader \in Reader /\ Emptied(reader) /\ reader.carry = <<>> /\ reader.next_line = N
      /\ reader.byte_offset = k
  <2>1. <<>> \in Seq(Char) /\ None \in Seq(Seq(Char)) /\ <<>> \in Seq({"l"})
    BY EmptySeq DEF None
  <2>2. 1 \in 0..MaxGen /\ "none" \in PendingReset
    BY BoundsAssumption DEF PendingReset
  <2> QED BY <1>5, <1>7, <1>8, <2>1, <2>2 DEF Reader, Emptied
<1>10. ReaderOK(reader)
  <2>1. Len(<<>>) <= 1
    OBVIOUS
  <2> QED BY <1>9, <2>1, EmptiedIsOK
<1>11. FileOK
  <2>1. 1 \in 1..MaxGen
    BY BoundsAssumption
  <2> QED BY <1>1, <1>5, <2>1 DEF FileOK, File
<1>12. RestOK
  <2>1. session \in Session
    BY <1>2, BoundsAssumption DEF Session
  <2>2. view.entries \in Seq(Entry) /\ view.errors \in Nat
    BY <1>2, EmptySeq
  <2>3. start \in 0..MaxLen /\ seen \in [gen : 1..MaxGen, identity : 1..MaxGen]
    BY <1>1, <1>2, <1>5, BoundsAssumption
  <2>4. owed \in BOOLEAN /\ faults \in 0..MaxFault /\ leftover \in [entries : Nat, errors : Nat]
    <3>1. owed \in BOOLEAN
      BY <1>2
    <3>2. faults \in 0..MaxFault
      BY <1>2, BoundsAssumption
    <3>3. leftover \in [entries : Nat, errors : Nat]
      BY <1>2
    <3> QED BY <3>1, <3>2, <3>3
  <2> QED BY <1>2, <2>1, <2>2, <2>3, <2>4, EmptyBatchType DEF RestOK
<1>13. reader.next_line = Len(Lines(decode(file.data))) + 1
  BY <1>1, <1>9 DEF N
<1> QED BY <1>1, <1>2, <1>3, <1>5, <1>6, <1>9, <1>10, <1>11, <1>12, <1>13 DEF TailTypes

LEMMA LoopsBackType ==
  ASSUME session \in Session, LoopsBack
  PROVE  session' \in Session /\ session'.running = session.running
BY DEF LoopsBack, Session

\* Every step keeps the types.
LEMMA StepTypes ==
  ASSUME TailTypes, [Next]_vars
  PROVE  TailTypes'
<1>0. FileOK /\ ReaderOK(reader) /\ RestOK
  BY DEF TailTypes
<1>a. /\ file.data \in Seq(Bytes) /\ Len(file.data) \in 0..MaxLen /\ file.gen \in 1..MaxGen
      /\ current_identity \subseteq 0..MaxGen /\ file.written \in 0..MaxLen
      /\ file.identity \in 1..MaxGen
  BY <1>0, FileParts
<1>b. /\ session \in Session /\ view.entries \in Seq(Entry) /\ view.errors \in Nat
      /\ batch \in Batch /\ faults \in 0..MaxFault
  BY <1>0 DEF RestOK
<1>c. UNCHANGED file => FileOK'
  BY <1>0 DEF FileOK
<1>d. UNCHANGED reader => ReaderOK(reader)'
  BY <1>0 DEF ReaderOK
<1>e. ASSUME NEW r, ReaderOK(r), reader' = r
      PROVE  ReaderOK(reader)'
  BY <1>e DEF ReaderOK
<1>1. CASE pollNothing
  <2>1. PICK identity \in current_identity : reader' = [reader EXCEPT !.file_identity = identity]
    BY <1>1 DEF pollNothing
  <2>2. ReaderOK(reader)'
    <3> DEFINE q == [reader EXCEPT !.file_identity = identity]
    <3>1. reader \in Reader
      BY <1>0, ReaderParts
    <3>2. identity \in 0..MaxGen
      BY <1>a
    <3>3. /\ q \in Reader /\ q.carry = reader.carry /\ q.pending = reader.pending
          /\ q.fragment = reader.fragment /\ q.continuation = reader.continuation
      BY <3>1, <3>2 DEF Reader
    <3>4. reader' = q
      BY <2>1
    <3> HIDE DEF q
    <3>5. FramingOf(q) = FramingOf(reader)
      BY <3>3 DEF FramingOf
    <3>6. ReaderOK(q)
      BY <1>0, <3>3, <3>5 DEF ReaderOK
    <3> QED BY <1>e, <3>4, <3>6
  <2>3. RestOK'
    <3>1. batch' = EmptyBatch /\ UNCHANGED <<view, start, seen, leftover, owed, faults>> /\ LoopsBack
      BY <1>1 DEF pollNothing
    <3>2. batch' \in Batch
      BY <3>1, EmptyBatchType
    <3>3. session' \in Session
      BY <1>b, <3>1, LoopsBackType
    <3> QED BY <1>0, <3>1, <3>2, <3>3 DEF RestOK
  <2> QED BY <1>1, <1>c, <2>2, <2>3 DEF TailTypes, pollNothing
<1>2. CASE pollReads
  <2>1. PICK identity \in current_identity :
          LET reset == observed_reset(reader, identity)
              read == read_new_entries(reader, identity)
          IN /\ Readable(identity)
             /\ reader' = read.reader
             /\ batch' = read.batch
             /\ view' = Applied(view, read.batch)
             /\ start' = IF reset = "none" THEN start ELSE 0
             /\ seen' = IF reset = "none" THEN seen
                        ELSE [gen |-> file.gen, identity |-> file.identity]
             /\ leftover' =
                  IF reset = "none" THEN leftover
                  ELSE LET old == LeftBehind(reader, reset)
                       IN [entries |-> Len(old.entries), errors |-> old.errors]
    BY <1>2 DEF pollReads
  <2> DEFINE reset == observed_reset(reader, identity)
             out == read_new_entries(reader, identity)
             left == LeftBehind(reader, reset)
             new == NewIn(reader, reset, ToDecode(reader, reset))
  <2>2. /\ out.batch = [entries |-> left.entries \o new.entries,
                        errors |-> left.errors + new.errors, reset |-> reset # "none"]
        /\ left.entries \in Seq(Entry) /\ new.entries \in Seq(Entry)
        /\ left.errors \in Nat /\ new.errors \in Nat
        /\ ReaderOK(out.reader)
    <3>1. Decodes(ToDecode(reader, observed_reset(reader, identity)))
      BY <2>1 DEF Readable
    <3>2. identity \in 0..MaxGen
      BY <1>a
    <3> QED BY <1>0, <1>a, <3>1, <3>2, ReadGives
  <2>3. reader' = out.reader /\ batch' = out.batch /\ view' = Applied(view, out.batch)
    BY <2>1
  <2>4. ReaderOK(reader)'
    <3> HIDE DEF out
    <3> QED BY <1>e, <2>2, <2>3
  <2>5. batch' \in Batch
    <3> HIDE DEF out, left, new
    <3>1. left.entries \o new.entries \in Seq(Entry) /\ left.errors + new.errors \in Nat
      BY <2>2, ConcatProperties
    <3>2. (reset # "none") \in BOOLEAN
      OBVIOUS
    <3> HIDE DEF reset
    <3> QED BY <2>2, <2>3, <3>1, <3>2 DEF Batch
  <2>6. view'.entries \in Seq(Entry) /\ view'.errors \in Nat
    <3> HIDE DEF out
    <3>1. out.batch \in Batch
      BY <2>3, <2>5
    <3> QED BY <1>b, <2>3, <3>1, AppliedGives
  <2>7. start' \in 0..MaxLen
    <3>1. start \in 0..MaxLen /\ 0 \in 0..MaxLen
      BY <1>0, BoundsAssumption DEF RestOK
    <3> QED BY <2>1, <3>1
  <2>8. seen' \in [gen : 1..MaxGen, identity : 1..MaxGen]
    <3>1. seen \in [gen : 1..MaxGen, identity : 1..MaxGen]
      BY <1>0 DEF RestOK
    <3> QED BY <1>a, <2>1, <3>1
  <2>9. leftover' \in [entries : Nat, errors : Nat]
    <3>1. leftover \in [entries : Nat, errors : Nat]
      BY <1>0 DEF RestOK
    <3>2. leftover' = IF reset = "none" THEN leftover
                      ELSE [entries |-> Len(left.entries), errors |-> left.errors]
      BY <2>1
    <3> HIDE DEF left, reset
    <3>3. Len(left.entries) \in Nat
      BY <2>2, LenProperties
    <3> QED BY <2>2, <3>1, <3>2, <3>3
  <2>10. session' \in Session /\ owed' \in BOOLEAN /\ faults' \in 0..MaxFault
    BY <1>2, <1>b, LoopsBackType DEF pollReads
  <2>11. RestOK'
    BY <2>5, <2>6, <2>7, <2>8, <2>9, <2>10 DEF RestOK
  <2> QED BY <1>2, <1>c, <2>4, <2>11 DEF TailTypes, pollReads
<1>3. CASE pollFails
  <2>1. PICK identity \in current_identity :
          /\ \/ UNCHANGED faults
             \/ faults > 0 /\ faults' = faults - 1
          /\ reader' = [reader EXCEPT !.pending_reset = observed_reset(reader, identity)]
          /\ owed' = (owed \/ identities_differ(reader.file_identity, identity)
                           \/ Len(file.data) < reader.byte_offset)
    BY <1>3 DEF pollFails
  <2>2. ReaderOK(reader)'
    <3> DEFINE o == observed_reset(reader, identity)
               q == [reader EXCEPT !.pending_reset = o]
    <3>1. reader \in Reader
      BY <1>0, ReaderParts
    <3>2. o \in PendingReset
      <4>1. reader.pending_reset \in PendingReset
        BY <3>1 DEF Reader
      <4>2. CASE identities_differ(reader.file_identity, identity)
        BY <4>2 DEF observed_reset, PendingReset
      <4>3. CASE /\ ~identities_differ(reader.file_identity, identity)
                 /\ Len(file.data) < reader.byte_offset /\ reader.pending_reset = "none"
        BY <4>3 DEF observed_reset, PendingReset
      <4>4. CASE /\ ~identities_differ(reader.file_identity, identity)
                 /\ ~(Len(file.data) < reader.byte_offset /\ reader.pending_reset = "none")
        BY <4>1, <4>4 DEF observed_reset
      <4> QED BY <4>2, <4>3, <4>4
    <3> HIDE DEF o
    <3>3. /\ q \in Reader /\ q.carry = reader.carry /\ q.pending = reader.pending
          /\ q.fragment = reader.fragment /\ q.continuation = reader.continuation
      BY <3>1, <3>2 DEF Reader
    <3>4. reader' = q
      BY <2>1 DEF o
    <3> HIDE DEF q
    <3>5. FramingOf(q) = FramingOf(reader)
      BY <3>3 DEF FramingOf
    <3>6. ReaderOK(q)
      BY <1>0, <3>3, <3>5 DEF ReaderOK
    <3> QED BY <1>e, <3>4, <3>6
  <2>3. RestOK'
    <3>1. batch' = EmptyBatch /\ UNCHANGED <<view, start, seen, leftover>> /\ LoopsBack
      BY <1>3 DEF pollFails
    <3>2. batch' \in Batch
      BY <3>1, EmptyBatchType
    <3>3. session' \in Session
      BY <1>b, <3>1, LoopsBackType
    <3>4. faults' \in 0..MaxFault
      BY <1>b, <2>1, BoundsAssumption
    <3>5. owed' \in BOOLEAN
      BY <2>1
    <3> QED BY <1>0, <3>1, <3>2, <3>3, <3>4, <3>5 DEF RestOK
  <2> QED BY <1>3, <1>c, <2>2, <2>3 DEF TailTypes, pollFails
<1>4. CASE set_paused
  <2>1. session' = [[session EXCEPT !.paused = ~session.paused] EXCEPT
                      !.toggles = session.toggles + 1]
    BY <1>4 DEF set_paused
  <2>2. session.toggles < MaxToggle
    BY <1>4 DEF set_paused
  <2>3. session' \in Session
    <3> DEFINE p == ~session.paused
               t == session.toggles + 1
    <3>1. p \in BOOLEAN
      BY Zenon
    <3>2. t \in 0..MaxToggle
      BY <1>b, <2>2, BoundsAssumption DEF Session
    <3>3. session' = [[session EXCEPT !.paused = p] EXCEPT !.toggles = t]
      BY <2>1
    <3> HIDE DEF p, t
    <3> QED BY <1>b, <3>1, <3>2, <3>3 DEF Session
  <2>4. batch' \in Batch /\ UNCHANGED <<file, reader, view, start, seen, leftover, owed, faults>>
    BY <1>4, EmptyBatchType DEF set_paused
  <2>5. RestOK'
    BY <1>0, <2>3, <2>4 DEF RestOK
  <2> QED BY <1>c, <1>d, <2>4, <2>5 DEF TailTypes
<1>5. CASE stop
  <2>1. session' \in Session
    BY <1>5, <1>b DEF stop, Session
  <2>2. batch' \in Batch /\ UNCHANGED <<file, reader, view, start, seen, leftover, owed, faults>>
    BY <1>5, EmptyBatchType DEF stop
  <2>3. RestOK'
    BY <1>0, <2>1, <2>2 DEF RestOK
  <2> QED BY <1>c, <1>d, <2>2, <2>3 DEF TailTypes
<1>6. CASE emit_final_tail_batch
  <2> DEFINE final == finalize_pending_input(reader)
             b == [entries |-> final.entries, errors |-> final.errors, reset |-> FALSE]
  <2>1. reader' = final.reader /\ batch' = b /\ view' = Applied(view, b)
    BY <1>6 DEF emit_final_tail_batch
  <2>2. final.entries \in Seq(Entry) /\ final.errors \in Nat /\ ReaderOK(final.reader)
    BY <1>0, FinalGives
  <2> HIDE DEF final
  <2>3. b \in Batch
    BY <2>2 DEF Batch
  <2>4. ReaderOK(reader)'
    BY <1>e, <2>1, <2>2
  <2>5. view'.entries \in Seq(Entry) /\ view'.errors \in Nat
    <3> HIDE DEF b
    <3> QED BY <1>b, <2>1, <2>3, AppliedGives
  <2>6. session' \in Session /\ UNCHANGED <<file, start, seen, leftover, owed, faults>>
    BY <1>6, <1>b DEF emit_final_tail_batch, Session
  <2>7. RestOK'
    BY <1>0, <2>1, <2>3, <2>5, <2>6 DEF RestOK
  <2> QED BY <1>c, <2>4, <2>6, <2>7 DEF TailTypes
<1>7. CASE FileStep
  <2>1. batch' = EmptyBatch /\ UNCHANGED <<reader, session, view, start, seen, leftover, owed, faults>>
    <3>1. CASE appendByte
      BY <3>1, Zenon DEF appendByte
    <3>2. CASE replaceFile
      BY <3>2, Zenon DEF replaceFile
    <3>3. CASE truncateFile
      BY <3>3, Zenon DEF truncateFile
    <3> QED BY <1>7, <3>1, <3>2, <3>3 DEF FileStep
  <2>2. RestOK'
    BY <1>0, <2>1, EmptyBatchType DEF RestOK
  <2>3. FileOK'
    <3>0. Len(file.data) <= file.written /\ file.identity <= file.gen /\ file \in File
      BY <1>0 DEF FileOK
    <3>1. CASE appendByte
      <4>1. PICK byte \in Bytes :
              file' = [file EXCEPT !.data = Append(file.data, byte), !.written = file.written + 1]
        BY <3>1 DEF appendByte
      <4>2. Append(file.data, byte) \in Seq(Bytes) /\ Len(Append(file.data, byte)) = Len(file.data) + 1
        BY <1>a, AppendProperties
      <4>3. file.written + 1 \in 0..MaxLen /\ Len(file.data) + 1 <= file.written + 1
        BY <1>a, <3>0, <3>1, BoundsAssumption DEF appendByte
      <4> DEFINE d == Append(file.data, byte)
                 w == file.written + 1
      <4> HIDE DEF d, w
      <4>4. file' = [file EXCEPT !.data = d, !.written = w]
        BY <4>1 DEF d, w
      <4>5. d \in Seq(Bytes) /\ w \in 0..MaxLen /\ Len(d) <= w
        BY <4>2, <4>3 DEF d, w
      <4> QED BY <3>0, <4>4, <4>5 DEF FileOK, File
    <3>2. CASE replaceFile
      <4> DEFINE g == file.gen + 1
      <4>1. g \in 1..MaxGen
        BY <1>a, <3>2, BoundsAssumption DEF replaceFile
      <4>2. file' = [[[file EXCEPT !.data = <<>>] EXCEPT !.identity = g] EXCEPT !.gen = g]
        BY <3>2 DEF replaceFile
      <4>3. <<>> \in Seq(Bytes) /\ Len(<<>>) <= file.written
        BY <1>a, EmptySeq
      <4> HIDE DEF g
      <4>4. g <= g
        BY <4>1
      <4> QED BY <3>0, <4>1, <4>2, <4>3, <4>4 DEF FileOK, File
    <3>3. CASE truncateFile
      <4> DEFINE g == file.gen + 1
      <4>1. g \in 1..MaxGen /\ file.identity <= g
        BY <1>a, <3>0, <3>3, BoundsAssumption DEF truncateFile
      <4>2. file' = [[file EXCEPT !.data = <<>>] EXCEPT !.gen = g]
        BY <3>3 DEF truncateFile
      <4>3. <<>> \in Seq(Bytes) /\ Len(<<>>) <= file.written
        BY <1>a, EmptySeq
      <4> HIDE DEF g
      <4> QED BY <3>0, <4>1, <4>2, <4>3 DEF FileOK, File
    <3> QED BY <1>7, <3>1, <3>2, <3>3 DEF FileStep
  <2> QED BY <1>d, <2>1, <2>2, <2>3 DEF TailTypes
<1>8. CASE UNCHANGED vars
  <2>1. UNCHANGED <<file, reader, session, view, batch, start, seen, leftover, owed, faults>>
    BY <1>8 DEF vars
  <2>2. RestOK'
    BY <1>0, <2>1 DEF RestOK
  <2> QED BY <1>c, <1>d, <2>1, <2>2 DEF TailTypes
<1> QED BY <1>1, <1>2, <1>3, <1>4, <1>5, <1>6, <1>7, <1>8 DEF Next, Poll

LEMMA TypesGive == TailTypes => TypeOK /\ PendingIsBounded
<1> SUFFICES ASSUME TailTypes PROVE TypeOK /\ PendingIsBounded
  OBVIOUS
<1>1. ReaderOK(reader) /\ RestOK /\ FileOK
  BY DEF TailTypes
<1>2. reader \in Reader /\ reader.pending \in Pending /\ Len(reader.carry) <= 1
  BY <1>1, ReaderParts DEF ReaderOK
<1>3. Len(reader.pending) <= 1
  BY <1>2, PendingType
<1>4. TypeOK
  BY <1>1, <1>2, <1>3 DEF TypeOK, RestOK, FileOK
<1>5. ASSUME Framing = "inventory"
      PROVE  LET logical == IF reader.pending = None THEN 0 ELSE Size(reader.pending[1])
                 joint == IF reader.pending # None /\ reader.fragment # <<>> THEN 1 ELSE 0
             IN logical + joint + Size(reader.fragment) <= Cap
  <2> DEFINE f == FramingOf(reader)
  <2>1. Bounded(f)
    BY <1>1, <1>5 DEF ReaderOK
  <2>2. f.pending = reader.pending /\ f.fragment = reader.fragment
    BY FramingOfReader
  <2> HIDE DEF f
  <2> QED BY <2>1, <2>2 DEF Bounded, HeldBack
<1> QED BY <1>4, <1>5 DEF PendingIsBounded

\* The types of the tail, whatever is written, replaced, read, refused and stopped.
THEOREM TypeCorrect == Spec => []TypeOK
<1>1. Init => TailTypes
  BY InitGives
<1>2. TailTypes /\ [Next]_vars => TailTypes'
  BY StepTypes
<1> QED BY <1>1, <1>2, TypesGive, PTL DEF Spec

\* TailReader holds back at most MAX_LOGICAL_RECORD_BYTES of a Device Inventory log, of an
\* unfinished record and an unfinished line together, however it is written and read.
THEOREM HeldBackIsBounded == Spec => []PendingIsBounded
<1>1. Init => TailTypes
  BY InitGives
<1>2. TailTypes /\ [Next]_vars => TailTypes'
  BY StepTypes
<1> QED BY <1>1, <1>2, TypesGive, PTL DEF Spec

----------------------------------------------------------------------------
(* What the tail has told of the file *)

\* The part of a text that the entries of a tail tell.
TextOf(text) == IF Framing = "inventory" THEN text ELSE Closed(text)

\* The entries of a running tail with what its reader holds back are the text read so far, and
\* the reader knows the line it is at.
Reads(entries, r, text, n) ==
  /\ Framing = "inventory" =>
       /\ Texts(entries) \o Out(FramingOf(r), r.next_line) = Without(text, "n")
       /\ Line(FramingOf(r), r.next_line) = n + Newlines(text)
       /\ Open(FramingOf(r)) <=> Unended(text)
  /\ Framing = "line" =>
       /\ Texts(entries) = FlattenSeq(Front(Pieces(text)))
       /\ r.next_line = n + Len(Front(Pieces(text)))
       /\ r.fragment = Last(Pieces(text))

\* The entries of a tail that has ended are its text.
HasRead(entries, r, text, n) ==
  /\ Emptied(r)
  /\ Texts(entries) = Without(TextOf(text), "n")
  /\ r.next_line = n + Len(Lines(TextOf(text)))

LEMMA EmptyGives ==
  /\ \A s : s = <<>> => /\ Without(s, "n") = <<>> /\ Newlines(s) = 0 /\ ~Unended(s)
                        /\ Front(Pieces(s)) = <<>> /\ Last(Pieces(s)) = <<>>
                        /\ FlattenSeq(s) = <<>> /\ Texts(s) = <<>>
                        /\ decode(s) = <<>> /\ carry_of(s) = <<>> /\ ~Incomplete(s)
                        /\ Len(Lines(s)) = 0
<1> SUFFICES ASSUME NEW s, s = <<>>
             PROVE  /\ Without(s, "n") = <<>> /\ Newlines(s) = 0 /\ ~Unended(s)
                    /\ Front(Pieces(s)) = <<>> /\ Last(Pieces(s)) = <<>>
                    /\ FlattenSeq(s) = <<>> /\ Texts(s) = <<>>
                    /\ decode(s) = <<>> /\ carry_of(s) = <<>> /\ ~Incomplete(s)
                    /\ Len(Lines(s)) = 0
  OBVIOUS
<1>1. s \in Seq(Char)
  BY EmptySeq
<1>2. Without(s, "n") = <<>> /\ Newlines(s) = 0 /\ FlattenSeq(s) = <<>> /\ Texts(s) = <<>>
  BY WithoutEmpty, NewlinesEmpty, FlattenEmpty, TextsEmpty
<1>3. ~Unended(s)
  BY DEF Unended
<1>4. Front(Pieces(s)) = <<>> /\ Last(Pieces(s)) = <<>>
  BY <1>1, PiecesEnd
<1>5. ~Incomplete(s)
  BY DEF Incomplete
<1>6. carry_of(s) = <<>>
  BY <1>5 DEF carry_of
<1>7. decode(s) = <<>>
  <2>1. Whole(s) = s
    BY <1>5 DEF Whole
  <2> QED BY <2>1, DecodeIsChars, CharsEmpty
<1>8. Len(Lines(s)) = 0
  <2>1. Len(Lines(s)) = Newlines(s) + IF Unended(s) THEN 1 ELSE 0
    BY <1>1, LinesCount
  <2>2. Len(Lines(s)) = 0 + 0
    BY <1>2, <1>3, <2>1, Zenon
  <2> QED BY <2>2
<1> QED BY <1>2, <1>3, <1>4, <1>5, <1>6, <1>7, <1>8

\* A reader that holds nothing back has read the empty text.
LEMMA ReadsNothing ==
  ASSUME NEW r, ReaderOK(r), Emptied(r), NEW entries, entries = <<>>, NEW text, text = <<>>
  PROVE  Reads(entries, r, text, r.next_line)
<1> DEFINE f == FramingOf(r)
           n == r.next_line
           e == <<>>
<1>1. n \in Nat \ {0}
  BY ReaderParts
<1>2. f.done = e /\ f.pending = None /\ f.fragment = e /\ ~f.continuation
  BY FramingOfReader DEF Emptied
<1>3. /\ Without(text, "n") = e /\ Newlines(text) = 0 /\ ~Unended(text)
      /\ Front(Pieces(text)) = e /\ Last(Pieces(text)) = e
      /\ Texts(entries) = e
  BY EmptyGives
<1>4. FlattenSeq(e) = e /\ Len(e) = 0 /\ e \o e = e
  BY EmptyGives
<1>5. Out(f, n) = (Texts(parse_framed_records(f.done, n).entries)
                     \o (IF f.pending = None THEN <<>> ELSE Without(f.pending[1], "n"))) \o f.fragment
      /\ Line(f, n) = (parse_framed_records(f.done, n).next
                       + (IF f.pending = None THEN 0 ELSE Newlines(f.pending[1]) + 1))
                      - (IF f.continuation THEN 1 ELSE 0)
  BY OutParts
<1>6. parse_framed_records(e, n).entries = e /\ parse_framed_records(e, n).next = n
  BY ParseEmpty
<1>7. Texts(e) = e
  BY TextsEmpty
<1> HIDE DEF f, n, e
<1>8. Out(f, n) = e /\ Line(f, n) = n
  BY <1>1, <1>2, <1>4, <1>5, <1>6, <1>7 DEF e
<1>9. ~Open(f)
  BY <1>2 DEF Open, e
<1>10. Framing = "inventory" =>
         /\ Texts(entries) \o Out(f, n) = Without(text, "n")
         /\ Line(f, n) = n + Newlines(text)
         /\ Open(f) <=> Unended(text)
  <2>1. Texts(entries) \o Out(f, n) = Without(text, "n")
    BY <1>3, <1>4, <1>8
  <2>2. Line(f, n) = n + Newlines(text)
    BY <1>1, <1>3, <1>8
  <2>3. Open(f) <=> Unended(text)
    BY <1>3, <1>9, Zenon
  <2> QED BY <2>1, <2>2, <2>3
<1>11. Framing = "line" =>
         /\ Texts(entries) = FlattenSeq(Front(Pieces(text)))
         /\ n = n + Len(Front(Pieces(text)))
         /\ r.fragment = Last(Pieces(text))
  BY <1>1, <1>3, <1>4 DEF Emptied, e
<1> QED BY <1>10, <1>11 DEF Reads, f, n

LEMMA OutType ==
  ASSUME NEW f \in Framings, NEW n \in Nat \ {0}
  PROVE  Out(f, n) \in Seq(Plain) /\ Line(f, n) \in Int
<1> DEFINE g == Framing2(f)
<1>1. g \in Frames /\ f.fragment \in Seq(Plain)
  BY FramingParts
<1>2. Told(g, n) \in Seq(Plain) /\ AtLine(g, n) \in Nat \ {0}
  BY <1>1, ToldType
<1> HIDE DEF g
<1>3. Told(g, n) \o f.fragment \in Seq(Plain)
  BY <1>1, <1>2, ConcatProperties
<1>4. Line(f, n) = AtLine(g, n) - IF f.continuation THEN 1 ELSE 0
  BY DEF Line, g
<1> QED BY <1>2, <1>3, <1>4 DEF Out, g

\* Reading more of the file.
LEMMA ReadsMore ==
  ASSUME NEW r, ReaderOK(r), NEW entries \in Seq(Entry), NEW told \in Seq(Char),
         NEW n \in Nat \ {0}, Reads(entries, r, told, n), NEW text \in Seq(Char)
  PROVE  Reads(entries \o Took(r, text).entries, Took(r, text).reader, told \o text, n)
<1> DEFINE out == Took(r, text)
           q == out.reader
           f == FramingOf(r)
           h == FramingOf(q)
           m == r.next_line
           both == told \o text
           all == entries \o out.entries
           F == Out(f, m)
           H == Out(h, q.next_line)
           E == Texts(entries)
           O == Texts(out.entries)
<1>1. /\ out.entries \in Seq(Entry)
      /\ O \in Seq(Plain)
      /\ Framing = "inventory" =>
           /\ H \in Seq(Plain)
           /\ O \o H = F \o Without(text, "n")
           /\ Line(h, q.next_line) = Line(f, m) + Newlines(text)
           /\ Open(h) <=> IF text = <<>> THEN Open(f) ELSE Unended(text)
      /\ Framing = "line" =>
           /\ O = FlattenSeq(Front(Pieces(r.fragment \o text)))
           /\ q.next_line = m + Len(Front(Pieces(r.fragment \o text)))
           /\ q.fragment = Last(Pieces(r.fragment \o text))
  BY TookGives
<1>2. f \in Framings /\ m \in Nat \ {0}
  BY ReaderParts DEF ReaderOK
<1> HIDE DEF f, h, q, m
<1>3. F \in Seq(Plain) /\ Line(f, m) \in Int
  BY <1>2, OutType
<1> HIDE DEF out
<1>4. E \in Seq(Plain) /\ Texts(all) = E \o O
  <2>1. entries \in Seq(Texted) /\ out.entries \in Seq(Texted)
    <3>1. Entry \subseteq Texted
      BY DEF Texted, Entry
    <3> QED BY <1>1, <3>1, SeqMonotonic
  <2> QED BY <2>1, TextsConcat, TextsType
<1>5. both \in Seq(Char)
  BY ConcatProperties
<1> HIDE DEF E, O, F, H, all
<1>6. ASSUME Framing = "inventory"
      PROVE  /\ Texts(all) \o H = Without(both, "n")
             /\ Line(h, q.next_line) = n + Newlines(both)
             /\ Open(h) <=> Unended(both)
  <2>1. E \o F = Without(told, "n") /\ Line(f, m) = n + Newlines(told) /\ (Open(f) <=> Unended(told))
    BY <1>6 DEF Reads, f, m, E, F
  <2>2. /\ Without(both, "n") = Without(told, "n") \o Without(text, "n")
        /\ Without(text, "n") \in Seq(Plain)
    BY WithoutConcat, WithoutType DEF Plain
  <2>3. Newlines(both) = Newlines(told) + Newlines(text) /\ Newlines(told) \in Nat /\ Newlines(text) \in Nat
    BY NewlinesConcat, NewlinesType
  <2>4. Unended(both) = IF text = <<>> THEN Unended(told) ELSE Unended(text)
    BY UnendedConcat
  <2> DEFINE W == Without(text, "n")
  <2>5. O \o H = F \o W /\ H \in Seq(Plain)
    BY <1>1, <1>6
  <2> HIDE DEF both, W
  <2>6. (E \o O) \o H = E \o (O \o H) /\ (E \o F) \o W = E \o (F \o W)
    <3>1. W \in Seq(Plain)
      BY <2>2 DEF W
    <3> QED BY <1>1, <1>3, <1>4, <2>5, <3>1, PlainAssociative, Zenon
  <2>7. Texts(all) \o H = Without(both, "n")
    BY <1>4, <2>1, <2>2, <2>5, <2>6 DEF W
  <2>8. Line(h, q.next_line) = n + Newlines(both)
    BY <1>1, <1>6, <2>1, <2>3
  <2>9. Open(h) <=> Unended(both)
    BY <1>1, <1>6, <2>1, <2>4, Zenon
  <2> QED BY <2>7, <2>8, <2>9
<1>7. ASSUME Framing = "line"
      PROVE  /\ Texts(all) = FlattenSeq(Front(Pieces(both)))
             /\ q.next_line = n + Len(Front(Pieces(both)))
             /\ q.fragment = Last(Pieces(both))
  <2> DEFINE lines == Front(Pieces(told))
             p == Pieces(Last(Pieces(told)) \o text)
             more == Front(p)
  <2>1. E = FlattenSeq(lines) /\ m = n + Len(lines) /\ r.fragment = Last(Pieces(told))
    BY <1>7 DEF Reads, m, E
  <2>2. /\ Front(Pieces(both)) = lines \o more
        /\ Last(Pieces(both)) = Last(p)
        /\ more \in Seq(Seq(Plain))
    BY PiecesGrown
  <2>3. lines \in Seq(Seq(Plain))
    BY PieceParts
  <2>4. O = FlattenSeq(more) /\ q.next_line = m + Len(more) /\ q.fragment = Last(p)
    BY <1>1, <1>7, <2>1
  <2> HIDE DEF lines, p, more, both
  <2>5. FlattenSeq(lines \o more) = FlattenSeq(lines) \o FlattenSeq(more)
    BY <2>2, <2>3, FlattenConcat
  <2>6. Len(lines \o more) = Len(lines) + Len(more) /\ Len(lines) \in Nat /\ Len(more) \in Nat
    BY <2>2, <2>3, ConcatProperties, LenProperties
  <2>7. Texts(all) = FlattenSeq(Front(Pieces(both)))
    BY <1>4, <2>1, <2>2, <2>4, <2>5
  <2>8. q.next_line = n + Len(Front(Pieces(both)))
    BY <2>1, <2>2, <2>4, <2>6
  <2> QED BY <2>2, <2>4, <2>7, <2>8
<1> HIDE DEF both
<1> QED BY <1>6, <1>7 DEF Reads, h, q, out, H, all, both

\* Parts of sequences that have grown.
LEMMA SubSeqGrown ==
  ASSUME NEW A, NEW s \in Seq(A), NEW a \in A, NEW m \in Nat \ {0}, NEW k \in 0..Len(s)
  PROVE  SubSeq(Append(s, a), m, k) = SubSeq(s, m, k)
<1> DEFINE t == Append(s, a)
           p == SubSeq(t, m, k)
           q == SubSeq(s, m, k)
<1>1. /\ Len(s) \in Nat /\ k \in Nat /\ k <= Len(s) /\ t \in Seq(A) /\ m \in Nat /\ 1 <= m
      /\ \A i \in 1..Len(s) : t[i] = s[i]
  BY AppendProperties, LenProperties
<1>2. \A i \in m..k : i \in 1..Len(s) /\ s[i] \in A
  BY <1>1, ElementOfSeq
<1> HIDE DEF t
<1>3. \A i \in m..k : t[i] \in A
  BY <1>1, <1>2
<1>4. /\ p \in Seq(A) /\ Len(p) = IF m <= k THEN k - m + 1 ELSE 0
      /\ \A i \in 1..(k - m + 1) : p[i] = t[m + i - 1]
  BY <1>1, <1>3, SubSeqProperties
<1>5. /\ q \in Seq(A) /\ Len(q) = IF m <= k THEN k - m + 1 ELSE 0
      /\ \A i \in 1..(k - m + 1) : q[i] = s[m + i - 1]
  BY <1>1, <1>2, SubSeqProperties
<1> HIDE DEF p, q
<1>6. ASSUME NEW i \in 1..Len(p)
      PROVE  p[i] = q[i]
  <2>1. m <= k /\ i \in 1..(k - m + 1) /\ m + i - 1 \in m..k
    BY <1>1, <1>4
  <2>2. t[m + i - 1] = s[m + i - 1]
    BY <1>1, <1>2, <2>1
  <2> QED BY <1>4, <1>5, <2>1, <2>2
<1>7. p = q
  BY <1>4, <1>5, <1>6, SeqEqual
<1> QED BY <1>7 DEF p, q, t

LEMMA SubSeqTail ==
  ASSUME NEW A, NEW s \in Seq(A), NEW t \in Seq(A), NEW k \in 0..Len(s)
  PROVE  SubSeq(s \o t, k + 1, Len(s \o t)) = SubSeq(s, k + 1, Len(s)) \o t
<1> DEFINE u == s \o t
           p == SubSeq(u, k + 1, Len(u))
           v == SubSeq(s, k + 1, Len(s))
           q == v \o t
<1>1. /\ Len(s) \in Nat /\ Len(t) \in Nat /\ k \in Nat /\ k <= Len(s)
      /\ u \in Seq(A) /\ Len(u) = Len(s) + Len(t)
      /\ \A i \in 1..(Len(s) + Len(t)) : u[i] = IF i <= Len(s) THEN s[i] ELSE t[i - Len(s)]
  BY ConcatProperties, LenProperties
<1> HIDE DEF u
<1>2. \A i \in (k + 1)..Len(u) : u[i] \in A
  BY <1>1, ElementOfSeq
<1>3. \A i \in (k + 1)..Len(s) : s[i] \in A
  BY <1>1, ElementOfSeq
<1>4. /\ p \in Seq(A) /\ Len(p) = IF k + 1 <= Len(u) THEN Len(u) - (k + 1) + 1 ELSE 0
      /\ \A i \in 1..(Len(u) - (k + 1) + 1) : p[i] = u[k + 1 + i - 1]
  BY <1>1, <1>2, SubSeqProperties
<1>5. /\ v \in Seq(A) /\ Len(v) = IF k + 1 <= Len(s) THEN Len(s) - (k + 1) + 1 ELSE 0
      /\ \A i \in 1..(Len(s) - (k + 1) + 1) : v[i] = s[k + 1 + i - 1]
  BY <1>1, <1>3, SubSeqProperties
<1> HIDE DEF p, v
<1>6. /\ q \in Seq(A) /\ Len(q) = Len(v) + Len(t)
      /\ \A i \in 1..(Len(v) + Len(t)) : q[i] = IF i <= Len(v) THEN v[i] ELSE t[i - Len(v)]
  BY <1>5, ConcatProperties
<1>7. Len(p) = Len(s) + Len(t) - k /\ Len(v) = Len(s) - k
  BY <1>1, <1>4, <1>5
<1> HIDE DEF q
<1>8. ASSUME NEW i \in 1..Len(p)
      PROVE  p[i] = q[i]
  <2>1. i \in 1..(Len(u) - (k + 1) + 1) /\ k + 1 + i - 1 = k + i /\ k + i \in 1..(Len(s) + Len(t))
    BY <1>1, <1>7
  <2>2. p[i] = u[k + i]
    BY <1>4, <2>1
  <2>3. i \in 1..(Len(v) + Len(t))
    BY <1>1, <1>7
  <2>4. CASE i <= Len(s) - k
    <3>1. i \in 1..(Len(s) - (k + 1) + 1) /\ k + i <= Len(s) /\ i <= Len(v)
      BY <1>1, <1>7, <2>4
    <3>2. v[i] = s[k + i] /\ u[k + i] = s[k + i] /\ q[i] = v[i]
      BY <1>1, <1>5, <1>6, <2>1, <2>3, <3>1
    <3> QED BY <2>2, <3>2
  <2>5. CASE ~(i <= Len(s) - k)
    <3>1. ~(k + i <= Len(s)) /\ ~(i <= Len(v)) /\ k + i - Len(s) = i - Len(v)
      BY <1>1, <1>7, <2>5
    <3>2. u[k + i] = IF k + i <= Len(s) THEN s[k + i] ELSE t[k + i - Len(s)]
      BY <1>1, <2>1, SMTT(30)
    <3>3. q[i] = IF i <= Len(v) THEN v[i] ELSE t[i - Len(v)]
      BY <1>6, <2>3
    <3>4. u[k + i] = t[k + i - Len(s)]
      BY <3>1, <3>2, Zenon
    <3>5. q[i] = t[i - Len(v)]
      BY <3>1, <3>3, Zenon
    <3> QED BY <2>2, <3>1, <3>4, <3>5
  <2> QED BY <2>4, <2>5
<1>9. Len(q) = Len(p)
  BY <1>1, <1>6, <1>7
<1>10. p = q
  BY <1>4, <1>6, <1>8, <1>9, SeqEqual
<1> QED BY <1>10 DEF p, q, u, v

LEMMA RightPart ==
  ASSUME NEW A, NEW B, NEW s \in Seq(B), NEW t \in Seq(B), s \o t \in Seq(A)
  PROVE  t \in Seq(A)
<1> DEFINE u == s \o t
<1>1. /\ Len(s) \in Nat /\ Len(t) \in Nat /\ Len(u) = Len(s) + Len(t)
      /\ \A i \in 1..(Len(s) + Len(t)) : u[i] = IF i <= Len(s) THEN s[i] ELSE t[i - Len(s)]
  BY ConcatProperties, LenProperties
<1>2. u \in Seq(A)
  OBVIOUS
<1> HIDE DEF u
<1>3. ASSUME NEW i \in 1..Len(t)
      PROVE  t[i] \in A
  <2>1. Len(s) + i \in 1..(Len(s) + Len(t)) /\ ~(Len(s) + i <= Len(s)) /\ Len(s) + i - Len(s) = i
    BY <1>1
  <2>2. u[Len(s) + i] = t[i]
    BY <1>1, <2>1
  <2>3. u[Len(s) + i] \in A
    BY <1>1, <1>2, <2>1, ElementOfSeq
  <2> QED BY <2>2, <2>3
<1>4. t \in [1..Len(t) -> A]
  <2>1. t = [i \in 1..Len(t) |-> t[i]]
    BY LenProperties
  <2> QED BY <1>3, <2>1
<1> QED BY <1>1, <1>4, SeqDef

LEMMA TextsOfEntries ==
  ASSUME NEW s \in Seq(Entry), NEW t \in Seq(Entry)
  PROVE  Texts(s \o t) = Texts(s) \o Texts(t) /\ Texts(s) \in Seq(Plain) /\ Texts(t) \in Seq(Plain)
<1>1. s \in Seq(Texted) /\ t \in Seq(Texted)
  <2>1. Entry \subseteq Texted
    BY DEF Texted, Entry
  <2> QED BY <2>1, SeqMonotonic
<1> QED BY <1>1, TextsConcat, TextsType

\* The end of a tail, and of one that has ended.
LEMMA FinalReads ==
  ASSUME NEW r, ReaderOK(r), NEW entries \in Seq(Entry), NEW text \in Seq(Char),
         NEW n \in Nat \ {0}, Reads(entries, r, text, n)
  PROVE  HasRead(entries \o finalize_pending_input(r).entries, finalize_pending_input(r).reader,
                 text, n)
<1> DEFINE out == finalize_pending_input(r)
           f == FramingOf(r)
           m == r.next_line
           all == entries \o out.entries
           F == Out(f, m)
           E == Texts(entries)
           O == Texts(out.entries)
<1>1. /\ out.entries \in Seq(Entry) /\ Emptied(out.reader)
      /\ Framing = "inventory" =>
           O = F /\ out.reader.next_line = Line(f, m) + IF Open(f) THEN 1 ELSE 0
      /\ Framing = "line" => O = <<>> /\ out.reader.next_line = m
  BY FinalGives
<1> HIDE DEF f, m, out
<1>2. Texts(all) = E \o O /\ E \in Seq(Plain)
  BY <1>1, TextsOfEntries
<1> HIDE DEF E, O, F, all
<1>3. CASE Framing = "inventory"
  <2>1. TextOf(text) = text
    BY <1>3 DEF TextOf
  <2>2. E \o F = Without(text, "n") /\ Line(f, m) = n + Newlines(text) /\ (Open(f) <=> Unended(text))
    BY <1>3 DEF Reads, f, m, E, F
  <2> DEFINE x == IF Open(f) THEN 1 ELSE 0
             y == IF Unended(text) THEN 1 ELSE 0
             L == Len(Lines(text))
             N == Newlines(text)
             z == out.reader.next_line
  <2>3. x = y
    BY <2>2, Zenon
  <2>4. y \in Int /\ N \in Nat
    BY NewlinesType
  <2>5. L = N + y
    BY LinesCount
  <2>6. z = (n + N) + x
    BY <1>1, <1>3, <2>2
  <2> HIDE DEF x, y, L, N, z
  <2>7. z = n + L
    BY <2>3, <2>4, <2>5, <2>6
  <2>8. Texts(all) = Without(text, "n")
    BY <1>1, <1>2, <1>3, <2>2
  <2>9. Emptied(out.reader)
    BY <1>1
  <2> QED BY <2>1, <2>7, <2>8, <2>9 DEF HasRead, L, z, all, out
<1>4. CASE Framing = "line"
  <2>1. TextOf(text) = Closed(text)
    BY <1>4, FramingAssumption DEF TextOf
  <2>2. E = FlattenSeq(Front(Pieces(text))) /\ m = n + Len(Front(Pieces(text)))
    BY <1>4 DEF Reads, E, m
  <2>3. /\ Without(Closed(text), "n") = FlattenSeq(Front(Pieces(text)))
        /\ Lines(Closed(text)) = Front(Pieces(text))
    BY ClosedGives
  <2>4. Texts(all) = Without(Closed(text), "n")
    BY <1>1, <1>2, <1>4, <2>2, <2>3, ConcatEmptySeq
  <2>5. out.reader.next_line = n + Len(Lines(Closed(text)))
    BY <1>1, <1>4, <2>2, <2>3
  <2> QED BY <1>1, <2>1, <2>4, <2>5 DEF HasRead, all, out
<1> QED BY <1>3, <1>4, FramingAssumption

LEMMA TextOfEmpty == \A s : s = <<>> => TextOf(s) = <<>>
<1> SUFFICES ASSUME NEW s, s = <<>> PROVE TextOf(s) = <<>>
  OBVIOUS
<1>1. Last(Pieces(s)) = <<>>
  BY EmptyGives
<1>2. Len(s) - Len(Last(Pieces(s))) = 0
  BY <1>1
<1>3. Closed(s) = SubSeq(s, 1, 0)
  BY <1>2 DEF Closed
<1>4. SubSeq(s, 1, 0) = <<>>
  BY SubSeqEmpty
<1> QED BY <1>3, <1>4 DEF TextOf

LEMMA FinalAgain ==
  ASSUME NEW r, ReaderOK(r), NEW entries \in Seq(Entry), NEW text, NEW n,
         HasRead(entries, r, text, n)
  PROVE  HasRead(entries \o finalize_pending_input(r).entries, finalize_pending_input(r).reader,
                 text, n)
<1> DEFINE out == finalize_pending_input(r)
           e == <<>>
           m == r.next_line
           O == out.entries
<1>1. Emptied(r)
  BY DEF HasRead
<1>2. e \in Seq(Entry) /\ e \in Seq(Char) /\ m \in Nat \ {0} /\ O \in Seq(Entry)
  BY EmptySeq, ReaderParts, FinalGives
<1>3. Reads(e, r, e, m)
  BY <1>1, ReadsNothing
<1> HIDE DEF O
<1>4. HasRead(e \o O, out.reader, e, m)
  <2> HIDE DEF e, m
  <2> QED BY <1>2, <1>3, FinalReads DEF O
<1>5. e \o O = O
  BY <1>2, ConcatEmptySeq
<1>6. Without(TextOf(e), "n") = e /\ Len(Lines(TextOf(e))) = 0
  BY TextOfEmpty, EmptyGives
<1> HIDE DEF e, m, out
<1>7. Emptied(out.reader) /\ Texts(O) = e /\ out.reader.next_line = m + 0
  BY <1>4, <1>5, <1>6 DEF HasRead
<1>8. Texts(entries \o O) = Texts(entries) \o Texts(O) /\ Texts(entries) \in Seq(Plain)
  BY <1>2, TextsOfEntries
<1>9. Texts(entries) \o e = Texts(entries)
  BY <1>8, ConcatEmptySeq DEF e
<1>10. Texts(entries \o O) = Texts(entries) /\ out.reader.next_line = m
  BY <1>2, <1>7, <1>8, <1>9
<1> QED BY <1>7, <1>10 DEF HasRead, m, out, O

----------------------------------------------------------------------------
(* Framing goes on whatever has been completed before *)

Shift(d, g) == [done |-> d \o g.done, pending |-> g.pending]

LEMMA ShiftOf ==
  \A d, e, p : Shift(d, [done |-> e, pending |-> p]) = [done |-> d \o e, pending |-> p]
BY DEF Shift

LEMMA ShiftParts ==
  ASSUME NEW d \in Seq(Record), NEW g \in Frames
  PROVE  /\ Shift(d, g) \in Frames /\ Shift(d, g).done = d \o g.done
         /\ Shift(d, g).pending = g.pending
         /\ g.done \in Seq(Record) /\ g.pending \in Pending
<1>1. g.done \in Seq(Record) /\ g.pending \in Pending
  BY DEF Frames
<1>2. d \o g.done \in Seq(Record)
  BY <1>1, ConcatProperties
<1> QED BY <1>1, <1>2 DEF Shift, Frames

LEMMA ShiftCharacter ==
  ASSUME NEW d \in Seq(Record), NEW g \in Frames, g.pending # None, NEW c \in Char
  PROVE  append_character(Shift(d, g), c) = Shift(d, append_character(g, c))
<1> DEFINE h == Shift(d, g)
           p == g.pending[1]
           D == g.done
           x == Size(p) + Width(c) <= Cap
           more == Some(Append(p, c))
           next == Some(<<c>>)
           cut == split(p)
<1>1. h = [done |-> d \o D, pending |-> g.pending] /\ D \in Seq(Record) /\ p \in Seq(Char)
      /\ g = [done |-> D, pending |-> g.pending]
  BY PendingText DEF Shift, Frames
<1>2. append_character(h, c) = IF x THEN [h EXCEPT !.pending = more]
                               ELSE [done |-> Append(h.done, cut), pending |-> next]
  BY <1>1 DEF append_character
<1>3. append_character(g, c) = IF x THEN [g EXCEPT !.pending = more]
                               ELSE [done |-> Append(D, cut), pending |-> next]
  BY DEF append_character
<1>4. cut \in Record
  BY <1>1, RecordTypes
<1> HIDE DEF p, D, h, more, next, cut
<1>5. d \o Append(D, cut) = Append(d \o D, cut)
  BY <1>1, <1>4, ConcatAppend
<1>6. CASE x
  <2> HIDE DEF x
  <2>1. append_character(h, c) = [h EXCEPT !.pending = more]
        /\ append_character(g, c) = [g EXCEPT !.pending = more]
    BY <1>2, <1>3, <1>6, Zenon
  <2> DEFINE P == g.pending
             e == d \o D
  <2>a. h = [done |-> e, pending |-> P] /\ g = [done |-> D, pending |-> P]
    BY <1>1
  <2> HIDE DEF P, e
  <2>b. [h EXCEPT !.pending = more] = [done |-> e, pending |-> more]
    BY <2>a
  <2>3. [g EXCEPT !.pending = more] = [done |-> D, pending |-> more]
    BY <2>a
  <2>2. [h EXCEPT !.pending = more] = [done |-> d \o D, pending |-> more]
    BY <2>b DEF e
  <2>4. Shift(d, [done |-> D, pending |-> more]) = [done |-> d \o D, pending |-> more]
    BY ShiftOf, Zenon
  <2> QED BY <2>1, <2>2, <2>3, <2>4 DEF h
<1>7. CASE ~x
  <2> HIDE DEF x
  <2>1. append_character(h, c) = [done |-> Append(h.done, cut), pending |-> next]
        /\ append_character(g, c) = [done |-> Append(D, cut), pending |-> next]
    BY <1>2, <1>3, <1>7, Zenon
  <2>2. h.done = d \o D
    BY <1>1
  <2>3. append_character(h, c) = [done |-> d \o Append(D, cut), pending |-> next]
    BY <1>5, <2>1, <2>2
  <2>4. Shift(d, [done |-> Append(D, cut), pending |-> next])
          = [done |-> d \o Append(D, cut), pending |-> next]
    BY ShiftOf, Zenon
  <2> QED BY <2>1, <2>3, <2>4 DEF h
<1> QED BY <1>6, <1>7 DEF h

LEMMA AppendsStay ==
  ASSUME NEW g \in Frames, g.pending # None, NEW text \in Seq(Char)
  PROVE  Appends!Fold(0, g, text) \in Frames /\ Appends!Fold(0, g, text).pending # None
<1>1. 1 \in Nat \ {0}
  OBVIOUS
<1> QED BY <1>1, AppendsGive

LEMMA ShiftAppends ==
  ASSUME NEW d \in Seq(Record), NEW g \in Frames, g.pending # None, NEW text \in Seq(Char)
  PROVE  Appends!Fold(0, Shift(d, g), text) = Shift(d, Appends!Fold(0, g, text))
<1> DEFINE S == {u \in Seq(Char) :
                   Appends!Fold(0, Shift(d, g), u) = Shift(d, Appends!Fold(0, g, u))}
<1>1. <<>> \in S
  BY EmptySeq, Induction, Appends!FoldEmpty
<1>2. ASSUME NEW u \in Seq(Char), NEW c \in Char, u \in S
      PROVE  Append(u, c) \in S
  <2> DEFINE h == Appends!Fold(0, g, u)
             o == Appends!Fold(0, g, Append(u, c))
             k == Appends!Fold(0, Shift(d, g), u)
             m == Appends!Fold(0, Shift(d, g), Append(u, c))
  <2>1. o = append_character(h, c) /\ m = append_character(k, c)
    BY Induction, Appends!FoldAppend DEF AppendStep
  <2>2. k = Shift(d, h)
    BY <1>2
  <2>3. h \in Frames /\ h.pending # None
    BY AppendsStay
  <2>4. Append(u, c) \in Seq(Char)
    BY AppendProperties
  <2> HIDE DEF h, o, k, m
  <2>5. m = Shift(d, o)
    BY <2>1, <2>2, <2>3, ShiftCharacter
  <2> QED BY <2>4, <2>5 DEF m, o
<1> HIDE DEF S
<1>3. Seq(Char) \subseteq S
  BY <1>1, <1>2, SequenceInduction
<1> QED BY <1>3 DEF S

LEMMA ShiftBounded ==
  ASSUME NEW d \in Seq(Record), NEW g \in Frames, NEW text \in Seq(Char)
  PROVE  append_bounded(Shift(d, g), text) = Shift(d, append_bounded(g, text))
<1> DEFINE p == IF g.pending = None THEN Some(<<>>) ELSE g.pending
           h == [done |-> g.done, pending |-> p]
           k == [done |-> d \o g.done, pending |-> p]
<1>1. /\ Shift(d, g) = [done |-> d \o g.done, pending |-> g.pending]
      /\ g = [done |-> g.done, pending |-> g.pending]
      /\ g.done \in Seq(Record) /\ g.pending \in Pending
  BY DEF Frames, Shift
<1>2. append_bounded(g, text) = Appends!Fold(0, h, text)
  <2>1. [g EXCEPT !.pending = IF @ = None THEN Some(<<>>) ELSE @] = h
    BY <1>1
  <2> QED BY <2>1, AppendIsFold
<1>3. append_bounded(Shift(d, g), text) = Appends!Fold(0, k, text)
  <2>1. [Shift(d, g) EXCEPT !.pending = IF @ = None THEN Some(<<>>) ELSE @] = k
    <3>1. Shift(d, g).pending = g.pending
      BY <1>1
    <3> DEFINE P == g.pending
               e == d \o g.done
               s == Shift(d, g)
    <3>a. s = [done |-> e, pending |-> P]
      BY <1>1
    <3> HIDE DEF P, e, s, p
    <3>b. [s EXCEPT !.pending = p] = [done |-> e, pending |-> p]
      BY <3>a
    <3>2. [Shift(d, g) EXCEPT !.pending = p] = k
      BY <3>b DEF e, s
    <3> QED BY <3>1, <3>2 DEF p
  <2> QED BY <2>1, AppendIsFold
<1>4. p \in Pending /\ p # None
  <2>1. \A s : s = <<>> => s \in Within
    <3>1. \A s : s = <<>> => Size(s) = 0 /\ s \in Seq(Char)
      BY SizeEmpty, EmptySeq
    <3> QED BY <3>1, CapAssumption DEF Within
  <2>2. Some(<<>>) \in Pending /\ Some(<<>>) # None
    BY <2>1, SomeText
  <2> QED BY <1>1, <2>2
<1> HIDE DEF p
<1>5. h \in Frames /\ h.pending # None /\ k = Shift(d, h)
  BY <1>1, <1>4 DEF Frames, Shift
<1> HIDE DEF h, k
<1> QED BY <1>2, <1>3, <1>5, ShiftAppends

LEMMA ShiftFlush ==
  ASSUME NEW d \in Seq(Record), NEW g \in Frames
  PROVE  flush_pending(Shift(d, g)) = Shift(d, flush_pending(g))
<1>1. /\ Shift(d, g) = [done |-> d \o g.done, pending |-> g.pending]
      /\ g.done \in Seq(Record) /\ g.pending \in Pending
  BY DEF Frames, Shift
<1>2. CASE g.pending = None
  BY <1>1, <1>2 DEF flush_pending
<1>3. CASE g.pending # None
  <2> DEFINE r == complete(g.pending[1])
  <2>1. r \in Record
    BY <1>1, <1>3, PendingText, RecordTypes
  <2>2. flush_pending(Shift(d, g)) = [done |-> Append(d \o g.done, r), pending |-> None]
        /\ flush_pending(g) = [done |-> Append(g.done, r), pending |-> None]
    BY <1>1, <1>3 DEF flush_pending
  <2> HIDE DEF r
  <2>3. d \o Append(g.done, r) = Append(d \o g.done, r)
    BY <1>1, <2>1, ConcatAppend
  <2>4. Shift(d, [done |-> Append(g.done, r), pending |-> None])
          = [done |-> d \o Append(g.done, r), pending |-> None]
    BY ShiftOf, Zenon
  <2> QED BY <2>2, <2>3, <2>4
<1> QED BY <1>2, <1>3

LEMMA FlushStays ==
  ASSUME NEW g \in Frames
  PROVE  flush_pending(g) \in Frames /\ flush_pending(g).pending = None
<1>1. 1 \in Nat \ {0}
  OBVIOUS
<1> QED BY <1>1, FlushGives

LEMMA StartStays ==
  ASSUME NEW g \in Frames, NEW line \in Seq(Plain)
  PROVE  LineStart(g, line) \in Frames
<1>1. 1 \in Nat \ {0}
  OBVIOUS
<1> QED BY <1>1, LineStartGives

\* A line starts alike whatever has been completed before it.
LEMMA ShiftStart ==
  ASSUME NEW d \in Seq(Record), NEW g \in Frames, NEW line \in Seq(Plain)
  PROVE  LineStart(Shift(d, g), line) = Shift(d, LineStart(g, line))
<1> DEFINE x == is_record_header(line)
           h == IF x THEN flush_pending(g) ELSE g
           k == IF x THEN flush_pending(Shift(d, g)) ELSE Shift(d, g)
           t == IF h.pending = None THEN line ELSE <<"n">> \o line
<1>1. LineStart(g, line) = AddLine(h, line) /\ LineStart(Shift(d, g), line) = AddLine(k, line)
  BY DEF LineStart
<1>2. h \in Frames
  <2> HIDE DEF x
  <2> QED BY FlushStays
<1>3. k = Shift(d, h)
  <2> HIDE DEF x
  <2> QED BY ShiftFlush
<1> HIDE DEF h, k
<1>4. AddLine(h, line) = append_bounded(h, t)
  BY DEF AddLine
<1>5. k.pending = h.pending
  BY <1>3 DEF Shift
<1>6. AddLine(k, line) = append_bounded(k, t)
  BY <1>5 DEF AddLine
<1>7. t \in Seq(Char)
  <2>1. line \in Seq(Char)
    <3>1. Plain \subseteq Char
      BY DEF Plain
    <3> QED BY <3>1, SeqMonotonic
  <2>2. <<"n">> \in Seq(Char)
    BY DEF Char
  <2>3. <<"n">> \o line \in Seq(Char)
    BY <2>1, <2>2, ConcatProperties
  <2> QED BY <2>1, <2>3
<1> HIDE DEF t
<1> QED BY <1>1, <1>2, <1>3, <1>4, <1>6, <1>7, ShiftBounded

----------------------------------------------------------------------------
(* Texts whose lines fit into the size bound *)

\* The framing after some lines, and whether one more line fits beside its pending record.
After(lines) == Starts!Fold(0, Framed(None), lines)
LineFits(lines, line) == Held([pending |-> After(lines).pending, fragment |-> line]) <= Cap
LinesFit(lines) == \A i \in DOMAIN lines : LineFits(SubSeq(lines, 1, i - 1), lines[i])

LEMMA FitsIs == \A text : Fits(text) <=> LinesFit(Lines(text))
<1> SUFFICES ASSUME NEW text PROVE Fits(text) <=> LinesFit(Lines(text))
  OBVIOUS
<1> DEFINE lines == Lines(text)
<1> HIDE DEF lines
<1>1. ASSUME NEW i
      PROVE  FoldLeft(LineStart, Framed(None), SubSeq(lines, 1, i - 1)) = After(SubSeq(lines, 1, i - 1))
  BY StartIsFold DEF After
<1>2. (\A i \in DOMAIN lines :
         LET before == FoldLeft(LineStart, Framed(None), SubSeq(lines, 1, i - 1))
         IN Held([pending |-> before.pending, fragment |-> lines[i]]) <= Cap)
       <=> LinesFit(lines)
  BY <1>1 DEF LinesFit, LineFits
<1> QED BY <1>2 DEF Fits, lines

LEMMA NothingFramed == Framed(None) \in Frames /\ Framed(None).done = <<>> /\ Framed(None).pending = None
BY EmptySeq DEF Framed, Frames, Pending

LEMMA AfterStays ==
  ASSUME NEW lines \in Seq(Seq(Plain))
  PROVE  After(lines) \in Frames
<1>1. \A g \in Frames, line \in Seq(Plain) : StartStep(0, g, line) \in Frames
  BY StartStays DEF StartStep
<1> DEFINE T == Frames
           A == Seq(Plain)
           base == Framed(None)
<1>2. base \in T /\ lines \in Seq(A) /\ \A g \in T, line \in A : StartStep(0, g, line) \in T
  BY <1>1, NothingFramed
<1> HIDE DEF T, A, base
<1>3. Starts!Fold(0, base, lines) \in T
  BY <1>2, StartsInduction, Starts!FoldStays
<1> QED BY <1>3 DEF After, T, base

LEMMA AfterAppend ==
  ASSUME NEW lines \in Seq(Seq(Plain)), NEW line \in Seq(Plain)
  PROVE  After(Append(lines, line)) = LineStart(After(lines), line)
BY StartsInduction, Starts!FoldAppend DEF After, StartStep

LEMMA AfterNothing == \A s : s = <<>> => After(s) = Framed(None)
BY StartsInduction, Starts!FoldEmpty DEF After

LEMMA LinesFitAppend ==
  ASSUME NEW lines \in Seq(Seq(Plain)), NEW line \in Seq(Plain)
  PROVE  LinesFit(Append(lines, line)) <=> LinesFit(lines) /\ LineFits(lines, line)
<1> DEFINE more == Append(lines, line)
           n == Len(lines)
<1>1. /\ n \in Nat /\ Len(more) = n + 1 /\ DOMAIN lines = 1..n /\ DOMAIN more = 1..(n + 1)
      /\ more[n + 1] = line /\ \A i \in 1..n : more[i] = lines[i]
  BY LenProperties, AppendProperties
<1>2. ASSUME NEW i \in 1..(n + 1)
      PROVE  SubSeq(more, 1, i - 1) = SubSeq(lines, 1, i - 1)
  <2> DEFINE k == i - 1
  <2>1. k \in 0..Len(lines)
    BY <1>1
  <2> HIDE DEF k
  <2>2. SubSeq(Append(lines, line), 1, k) = SubSeq(lines, 1, k)
    BY <2>1, SubSeqAppend
  <2> QED BY <2>2 DEF k
<1>3. SubSeq(more, 1, (n + 1) - 1) = lines
  <2>1. SubSeq(lines, 1, n) = lines
    BY SubSeqFull
  <2>2. n + 1 \in 1..(n + 1) /\ (n + 1) - 1 = n
    BY <1>1
  <2>3. SubSeq(more, 1, (n + 1) - 1) = SubSeq(lines, 1, (n + 1) - 1)
    BY <1>2, <2>2
  <2> QED BY <2>1, <2>2, <2>3
<1> HIDE DEF more, n
<1>4. LinesFit(more) <=> \A i \in 1..(n + 1) : LineFits(SubSeq(lines, 1, i - 1), more[i])
  BY <1>1, <1>2 DEF LinesFit
<1>5. LinesFit(lines) <=> \A i \in 1..n : LineFits(SubSeq(lines, 1, i - 1), more[i])
  BY <1>1 DEF LinesFit
<1>6. LineFits(lines, line) <=> LineFits(SubSeq(lines, 1, (n + 1) - 1), more[n + 1])
  <2>1. n + 1 \in 1..(n + 1)
    BY <1>1
  <2>2. SubSeq(lines, 1, (n + 1) - 1) = lines
    BY <1>2, <1>3, <2>1
  <2> QED BY <1>1, <2>2
<1>7. \A i : i \in 1..(n + 1) <=> i \in 1..n \/ i = n + 1
  BY <1>1
<1> DEFINE Q(i) == LineFits(SubSeq(lines, 1, i - 1), more[i])
<1> HIDE DEF Q
<1>8. (\A i \in 1..(n + 1) : Q(i)) <=> (\A i \in 1..n : Q(i)) /\ Q(n + 1)
  BY <1>7, Zenon
<1> QED BY <1>4, <1>5, <1>6, <1>8, Zenon DEF Q, more

\* A text fits when its terminated lines do and its unterminated one does beside them.
LEMMA FitsParts ==
  ASSUME NEW text \in Seq(Char)
  PROVE  Fits(text) <=> /\ LinesFit(Front(Pieces(text)))
                        /\ Last(Pieces(text)) # <<>> => LineFits(Front(Pieces(text)), Last(Pieces(text)))
<1> DEFINE p == Pieces(text)
           lines == Front(p)
           last == Last(p)
<1>1. p = Append(lines, last) /\ lines \in Seq(Seq(Plain)) /\ last \in Seq(Plain)
  BY PieceParts
<1>2. Lines(text) = IF last = <<>> THEN lines ELSE p
  BY DEF Lines, Ended
<1>3. Fits(text) <=> LinesFit(Lines(text))
  BY FitsIs
<1> HIDE DEF p, lines, last
<1>4. CASE last = <<>>
  BY <1>2, <1>3, <1>4 DEF lines, last, p
<1>5. CASE last # <<>>
  <2>1. Lines(text) = Append(lines, last)
    BY <1>1, <1>2, <1>5
  <2>2. Fits(text) <=> LinesFit(lines) /\ LineFits(lines, last)
    BY <1>1, <1>3, <2>1, LinesFitAppend
  <2> QED BY <1>5, <2>2 DEF lines, last, p
<1> QED BY <1>4, <1>5

LEMMA HeldIs ==
  ASSUME NEW p \in Pending, NEW s \in Seq(Char), NEW t \in Seq(Char)
  PROVE  /\ Held([pending |-> p, fragment |-> s]) \in Nat
         /\ Held([pending |-> p, fragment |-> s \o t])
              = Held([pending |-> p, fragment |-> s]) + Size(t)
         /\ Size(t) \in Nat
<1> DEFINE x == IF p = None THEN 0 ELSE Size(p[1]) + 1
<1>1. x \in Nat
  <2>1. p # None => Size(p[1]) \in Nat
    BY PendingText, SizeType
  <2> QED BY <2>1
<1>2. Held([pending |-> p, fragment |-> s]) = x + Size(s)
  BY DEF Held
<1>3. Held([pending |-> p, fragment |-> s \o t]) = x + Size(s \o t)
  BY DEF Held
<1>4. Size(s \o t) = Size(s) + Size(t) /\ Size(s) \in Nat /\ Size(t) \in Nat
  BY SizeConcat, SizeType
<1> HIDE DEF x
<1> QED BY <1>1, <1>2, <1>3, <1>4

LEMMA PlainIsText == \A s \in Seq(Plain) : s \in Seq(Char)
<1>1. Plain \subseteq Char
  BY DEF Plain
<1> QED BY <1>1, SeqMonotonic

\* Less of a line fits too.
LEMMA LessFits ==
  ASSUME NEW lines \in Seq(Seq(Plain)), NEW s \in Seq(Plain), NEW t \in Seq(Plain),
         LineFits(lines, s \o t)
  PROVE  LineFits(lines, s)
<1> DEFINE p == After(lines).pending
<1>1. p \in Pending
  BY AfterStays DEF Frames
<1> HIDE DEF p
<1>2. /\ Held([pending |-> p, fragment |-> s]) \in Nat /\ Size(t) \in Nat
      /\ Held([pending |-> p, fragment |-> s \o t])
           = Held([pending |-> p, fragment |-> s]) + Size(t)
  BY <1>1, HeldIs, PlainIsText
<1>3. Held([pending |-> p, fragment |-> s \o t]) <= Cap
  BY DEF LineFits, p
<1>4. Held([pending |-> p, fragment |-> s]) <= Cap
  BY <1>2, <1>3, CapAssumption
<1> QED BY <1>4 DEF LineFits, p

\* What was written before fits, and so does a line that ends.
LEMMA FitsBefore ==
  ASSUME NEW text \in Seq(Char), NEW c \in Char, Fits(Append(text, c))
  PROVE  /\ Fits(text)
         /\ c = "n" => LineFits(Front(Pieces(text)), Last(Pieces(text)))
<1> DEFINE lines == Front(Pieces(text))
           last == Last(Pieces(text))
           more == Append(text, c)
<1>1. Pieces(text) = Append(lines, last) /\ lines \in Seq(Seq(Plain)) /\ last \in Seq(Plain)
  BY PieceParts
<1>2. /\ LinesFit(Front(Pieces(more)))
      /\ Last(Pieces(more)) # <<>> => LineFits(Front(Pieces(more)), Last(Pieces(more)))
  <2>1. more \in Seq(Char)
    BY AppendProperties
  <2> HIDE DEF more
  <2>2. Fits(more)
    BY DEF more
  <2> QED BY <2>1, <2>2, FitsParts
<1> HIDE DEF lines, last
<1>3. CASE c = "n"
  <2>1. Pieces(more) = Append(Append(lines, last), <<>>)
    BY <1>1, <1>3, PiecesGrow
  <2>2. Append(lines, last) \in Seq(Seq(Plain)) /\ <<>> \in Seq(Plain)
    BY <1>1, AppendProperties, EmptySeq
  <2>3. Front(Pieces(more)) = Append(lines, last)
    <3>1. \A q \in Seq(Seq(Plain)), a \in Seq(Plain) : Front(Append(q, a)) = q
      BY FrontLastOfAppend
    <3> QED BY <2>1, <2>2, <3>1, Zenon
  <2>4. LinesFit(lines) /\ LineFits(lines, last)
    BY <1>1, <1>2, <2>3, LinesFitAppend
  <2>5. Fits(text)
    BY <2>4, FitsParts DEF lines, last
  <2> QED BY <2>4, <2>5 DEF lines, last
<1>4. CASE c # "n"
  <2> DEFINE next == Append(last, c)
  <2>1. Pieces(more) = Append(lines, next)
    BY <1>1, <1>4, PiecesGrow
  <2>2. c \in Plain /\ next \in Seq(Plain) /\ next # <<>> /\ next = last \o <<c>>
    <3>1. c \in Plain
      BY <1>4 DEF Plain
    <3>2. next \in Seq(Plain) /\ next # <<>>
      BY <1>1, <3>1, AppendProperties
    <3>3. next = last \o <<c>>
      BY <1>1, <3>1, AppendIsConcat
    <3> QED BY <3>1, <3>2, <3>3
  <2> HIDE DEF next
  <2>3. Front(Pieces(more)) = lines /\ Last(Pieces(more)) = next
    <3> DEFINE A == Seq(Plain)
    <3>1. lines \in Seq(A) /\ next \in A
      BY <1>1, <2>2
    <3> HIDE DEF A, more
    <3>2. Front(Append(lines, next)) = lines /\ Last(Append(lines, next)) = next
      BY <3>1, FrontLastOfAppend
    <3> QED BY <2>1, <3>2
  <2>4. LinesFit(lines) /\ LineFits(lines, next)
    BY <1>2, <2>2, <2>3
  <2>5. LineFits(lines, last)
    <3> DEFINE t == <<c>>
    <3>1. t \in Seq(Plain) /\ LineFits(lines, last \o t)
      BY <2>2, <2>4
    <3> HIDE DEF t
    <3> QED BY <1>1, <3>1, LessFits
  <2>6. Fits(text)
    BY <2>4, <2>5, FitsParts DEF lines, last
  <2> QED BY <1>4, <2>6
<1> QED BY <1>3, <1>4 DEF lines, last

LEMMA FitsPrefix ==
  ASSUME NEW s \in Seq(Char), NEW t \in Seq(Char), Fits(s \o t)
  PROVE  Fits(s)
<1> DEFINE S == {u \in Seq(Char) : Fits(s \o u) => Fits(s)}
<1>1. <<>> \in S
  <2>1. s \o <<>> = s
    BY ConcatEmptySeq
  <2> QED BY <2>1, EmptySeq
<1>2. ASSUME NEW u \in Seq(Char), NEW c \in Char, u \in S
      PROVE  Append(u, c) \in S
  <2>1. s \o Append(u, c) = Append(s \o u, c)
    BY ConcatAppend
  <2>2. s \o u \in Seq(Char) /\ Append(u, c) \in Seq(Char)
    BY ConcatProperties, AppendProperties
  <2>3. Fits(Append(s \o u, c)) => Fits(s \o u)
    <3> DEFINE v == s \o u
    <3>1. v \in Seq(Char)
      BY <2>2
    <3> HIDE DEF v
    <3>2. Fits(Append(v, c)) => Fits(v)
      BY <3>1, FitsBefore
    <3> QED BY <3>2 DEF v
  <2> QED BY <1>2, <2>1, <2>2, <2>3
<1> HIDE DEF S
<1>3. Seq(Char) \subseteq S
  BY <1>1, <1>2, SequenceInduction
<1>4. t \in S
  BY <1>3
<1> QED BY <1>4 DEF S

----------------------------------------------------------------------------
(* The framing of a text whose lines fit *)

\* A part of a line that fits: the line starts when it ends, and waits until then.
LEMMA SegmentFits ==
  ASSUME NEW f \in Framings, ~f.continuation, NEW content \in Seq(Plain),
         Held([pending |-> f.pending, fragment |-> f.fragment \o content]) <= Cap
  PROVE  /\ process_inventory_line_segment(f, content, TRUE)
              = With(LineStart(Framing2(f), f.fragment \o content), <<>>, FALSE)
         /\ process_inventory_line_segment(f, content, FALSE)
              = [f EXCEPT !.fragment = f.fragment \o content]
<1> DEFINE room == Available(f)
           take == utf8_prefix_at_most(content, room)
           p == f.pending
           s == f.fragment
<1>1. p \in Pending /\ s \in Seq(Plain) /\ s \in Seq(Char) /\ content \in Seq(Char)
  BY FramingParts, PlainIsText
<1>2. Held([pending |-> p, fragment |-> s \o content]) <= Cap
  OBVIOUS
<1>3. Held(f) = Held([pending |-> p, fragment |-> s])
  BY DEF Held
<1> HIDE DEF p, s
<1>4. Held([pending |-> p, fragment |-> s]) \in Nat /\ Size(content) \in Nat
      /\ Held([pending |-> p, fragment |-> s \o content])
           = Held([pending |-> p, fragment |-> s]) + Size(content)
  BY <1>1, HeldIs
<1>5. room \in Nat /\ Size(content) <= room
  <2>1. Held(f) \in Nat /\ Held(f) + Size(content) <= Cap /\ Cap \in Nat
    BY <1>2, <1>3, <1>4, CapAssumption
  <2>2. ~(Held(f) > Cap)
    BY <1>4, <2>1
  <2>3. room = Cap - Held(f)
    BY <2>2 DEF Available
  <2> QED BY <1>4, <2>1, <2>3
<1> HIDE DEF room
<1>6. /\ take \in 0..Len(content)
      /\ take < Len(content) => Size(SubSeq(content, 1, take + 1)) > room
  BY <1>1, <1>5, PrefixFits
<1>7. take = Len(content)
  <2> DEFINE k == take + 1
             a == SubSeq(content, 1, k)
             b == SubSeq(content, k + 1, Len(content))
  <2>1. SUFFICES ASSUME take < Len(content) PROVE FALSE
    BY <1>6
  <2>2. k \in 0..Len(content)
    BY <1>6, <2>1
  <2>3. Size(a) > room
    BY <1>6, <2>1
  <2> HIDE DEF k
  <2>4. a \in Seq(Char) /\ b \in Seq(Char) /\ a \o b = content
    BY <1>1, <2>2, SplitAt
  <2> HIDE DEF a, b
  <2>5. Size(a \o b) = Size(a) + Size(b) /\ Size(a) \in Nat /\ Size(b) \in Nat
    BY <2>4, SizeConcat, SizeType
  <2> QED BY <1>4, <1>5, <2>3, <2>4, <2>5
<1>8. Start(f, s \o content) = LineStart(Framing2(f), s \o content)
  BY DEF Start, Framing2
<1>9. take \in Int /\ ~(take < Len(content))
  BY <1>6, <1>7
<1> HIDE DEF take
<1>10. AddPiece(f, content, TRUE, take) = With(Start(f, s \o content), <<>>, FALSE)
  BY <1>7, <1>9, Zenon DEF AddPiece, s
<1>11. AddPiece(f, content, FALSE, take) = [f EXCEPT !.fragment = s \o content]
  BY <1>9, Zenon DEF AddPiece, s
<1>12. process_inventory_line_segment(f, content, FALSE) = AddPiece(f, content, FALSE, take)
  BY Zenon DEF process_inventory_line_segment, take, room
<1>13. process_inventory_line_segment(f, content, TRUE) = With(Start(f, s \o content), <<>>, FALSE)
  <2>1. CASE s = <<>>
    <3>1. s \o content = content
      BY <1>1, <2>1, ConcatEmptySeq
    <3>2. process_inventory_line_segment(f, content, TRUE) = With(Start(f, content), <<>>, FALSE)
      BY <2>1, Zenon DEF process_inventory_line_segment, s
    <3> QED BY <3>1, <3>2
  <2>2. CASE s # <<>>
    <3>1. process_inventory_line_segment(f, content, TRUE) = AddPiece(f, content, TRUE, take)
      BY <2>2, Zenon DEF process_inventory_line_segment, s, take, room
    <3> QED BY <1>10, <3>1
  <2> QED BY <2>1, <2>2
<1> QED BY <1>8, <1>11, <1>12, <1>13 DEF s

\* A framing that holds exactly what the lines of a text leave pending, after the records d.
At(d, f, text) ==
  /\ ~f.continuation /\ f.fragment = Last(Pieces(text))
  /\ Shift(d, Framing2(f)) = After(Front(Pieces(text)))

\* The framing while a text is added: what the last piece of the text is still to be added to.
Along(d, g, text, all) ==
  /\ g \in Framings /\ ~g.continuation
  /\ g.fragment \o Last(Pieces(text)) = Last(Pieces(all))
  /\ Shift(d, Framing2(g)) = After(Front(Pieces(all)))

LEMMA AlongLine ==
  ASSUME NEW d \in Seq(Record), NEW g, NEW text \in Seq(Char), NEW all \in Seq(Char),
         Along(d, g, text, all), LineFits(Front(Pieces(all)), Last(Pieces(all)))
  PROVE  Along(d, process_inventory_line_segment(g, Last(Pieces(text)), TRUE),
               Append(text, "n"), Append(all, "n"))
<1> DEFINE c == "n"
           e == <<>>
           lines == Front(Pieces(all))
           last == Last(Pieces(all))
           content == Last(Pieces(text))
           before == Front(Pieces(text))
           h == Framing2(g)
           o == LineStart(h, last)
           out == process_inventory_line_segment(g, content, TRUE)
<1>1. /\ Pieces(all) = Append(lines, last) /\ lines \in Seq(Seq(Plain)) /\ last \in Seq(Plain)
      /\ Pieces(text) = Append(before, content) /\ before \in Seq(Seq(Plain))
      /\ content \in Seq(Plain)
  BY PieceParts
<1>2. /\ g \in Framings /\ ~g.continuation /\ g.fragment \o content = last
      /\ Shift(d, h) = After(lines)
  BY DEF Along
<1>3. h \in Frames /\ h.pending = g.pending
  BY <1>2, FramingParts
<1>4. c \in Char /\ e \in Seq(Plain)
  BY EmptySeq DEF Char
<1> HIDE DEF lines, last, content, before, h
<1>5. Held([pending |-> g.pending, fragment |-> g.fragment \o content]) <= Cap
  <2>1. After(lines).pending = g.pending
    <3>1. Shift(d, h).pending = h.pending
      BY DEF Shift
    <3> QED BY <1>2, <1>3, <3>1
  <2>2. LineFits(lines, last)
    BY DEF lines, last
  <2> QED BY <1>2, <2>1, <2>2 DEF LineFits
<1>6. out = With(o, <<>>, FALSE)
  <2>1. out = With(LineStart(h, g.fragment \o content), <<>>, FALSE)
    BY <1>1, <1>2, <1>5, SegmentFits DEF h
  <2> QED BY <1>2, <2>1
<1>7. o \in Frames
  BY <1>1, <1>3, StartStays
<1>8. Shift(d, o) = After(Append(lines, last))
  <2>1. LineStart(Shift(d, h), last) = Shift(d, o)
    BY <1>1, <1>3, ShiftStart
  <2>2. After(Append(lines, last)) = LineStart(After(lines), last)
    BY <1>1, AfterAppend
  <2> QED BY <1>2, <2>1, <2>2
<1> HIDE DEF o, out
<1>9. out \in Framings /\ Framing2(out) = o /\ out.fragment = e /\ ~out.continuation
  <2> DEFINE b == FALSE
  <2>1. b \in BOOLEAN /\ out = With(o, e, b) /\ ~b
    BY <1>6
  <2> HIDE DEF b, e
  <2>2. out \in Framings /\ Framing2(out) = o /\ out.fragment = e /\ out.continuation = b
    BY <1>4, <1>7, <2>1, WithParts
  <2> QED BY <2>1, <2>2
<1>10. ASSUME NEW t \in Seq(Char), NEW a \in Seq(Seq(Plain)), NEW b \in Seq(Plain),
              Pieces(t) = Append(a, b)
       PROVE  Front(Pieces(Append(t, c))) = Append(a, b) /\ Last(Pieces(Append(t, c))) = e
  <2>1. Pieces(Append(t, c)) = Append(Append(a, b), e)
    BY <1>4, <1>10, PiecesGrow
  <2> DEFINE A == Seq(Plain)
             s == Append(a, b)
  <2>2. s \in Seq(A) /\ e \in A
    BY <1>4, AppendProperties
  <2> HIDE DEF A, s, e
  <2>3. Front(Append(s, e)) = s /\ Last(Append(s, e)) = e
    BY <2>2, FrontLastOfAppend
  <2> QED BY <2>1, <2>3 DEF s
<1>11. /\ Front(Pieces(Append(all, c))) = Append(lines, last) /\ Last(Pieces(Append(all, c))) = e
       /\ Last(Pieces(Append(text, c))) = e
  BY <1>1, <1>10
<1>12. e \o e = e
  BY ConcatEmptySeq, <1>4
<1> HIDE DEF e, c
<1>13. Along(d, out, Append(text, c), Append(all, c))
  BY <1>8, <1>9, <1>11, <1>12 DEF Along
<1> QED BY <1>13 DEF c, out, content

LEMMA AlongCharacter ==
  ASSUME NEW d \in Seq(Record), NEW g, NEW text \in Seq(Char), NEW all \in Seq(Char),
         Along(d, g, text, all), NEW c \in Plain
  PROVE  Along(d, g, Append(text, c), Append(all, c))
         /\ Front(Pieces(Append(text, c))) = Front(Pieces(text))
<1>1. ASSUME NEW t \in Seq(Char)
      PROVE  /\ Front(Pieces(Append(t, c))) = Front(Pieces(t))
             /\ Last(Pieces(Append(t, c))) = Append(Last(Pieces(t)), c)
             /\ Last(Pieces(t)) \in Seq(Plain)
  <2> DEFINE a == Front(Pieces(t))
             b == Last(Pieces(t))
             A == Seq(Plain)
             next == Append(b, c)
  <2>1. Pieces(t) = Append(a, b) /\ a \in Seq(Seq(Plain)) /\ b \in Seq(Plain)
    BY PieceParts
  <2>2. c \in Char /\ c # "n"
    BY DEF Plain
  <2> HIDE DEF a, b
  <2>3. Pieces(Append(t, c)) = Append(a, next)
    BY <2>1, <2>2, PiecesGrow
  <2>4. a \in Seq(A) /\ next \in A
    BY <2>1, AppendProperties
  <2> HIDE DEF next, A
  <2>5. Front(Append(a, next)) = a /\ Last(Append(a, next)) = next
    BY <2>4, FrontLastOfAppend
  <2> QED BY <2>1, <2>3, <2>5 DEF a, b, next
<1> DEFINE s == g.fragment
           u == Last(Pieces(text))
           v == Last(Pieces(all))
<1>2. g \in Framings /\ ~g.continuation /\ s \o u = v /\ Shift(d, Framing2(g)) = After(Front(Pieces(all)))
  BY DEF Along
<1>3. s \in Seq(Plain) /\ u \in Seq(Plain)
  BY <1>1, <1>2, FramingParts
<1>4. Last(Pieces(Append(text, c))) = Append(u, c) /\ Last(Pieces(Append(all, c))) = Append(v, c)
      /\ Front(Pieces(Append(all, c))) = Front(Pieces(all))
      /\ Front(Pieces(Append(text, c))) = Front(Pieces(text))
  BY <1>1
<1> HIDE DEF s, u, v
<1>5. s \o Append(u, c) = Append(v, c)
  <2>1. s \o Append(u, c) = Append(s \o u, c)
    BY <1>3, ConcatAppend
  <2> QED BY <1>2, <2>1
<1> QED BY <1>2, <1>4, <1>5 DEF Along, s

\* Adding a text that fits: what is completed and pending is what its lines complete and leave.
LEMMA SegmentsAlong ==
  ASSUME NEW d \in Seq(Record), NEW f \in Framings, NEW told \in Seq(Char), At(d, f, told),
         NEW text \in Seq(Char)
  PROVE  Fits(told \o text)
           => Along(d, Segments!Fold(0, f, Front(Pieces(text))), text, told \o text)
<1> DEFINE G(u) == Segments!Fold(0, f, Front(Pieces(u)))
           S == {u \in Seq(Char) : Fits(told \o u) => Along(d, G(u), u, told \o u)}
<1>1. <<>> \in S
  <2>1. ASSUME NEW u \in Seq(Char), u = <<>>
        PROVE  u \in S
    <3>1. Front(Pieces(u)) = <<>> /\ Last(Pieces(u)) = <<>>
      BY <2>1, PiecesEnd
    <3>2. G(u) = f
      BY <3>1, Induction, Segments!FoldEmpty
    <3>3. told \o u = told
      BY <2>1, ConcatEmptySeq
    <3>4. f.fragment \in Seq(Plain)
      BY FramingParts
    <3>5. f.fragment \o Last(Pieces(u)) = f.fragment
      BY <3>1, <3>4, ConcatEmptySeq
    <3>6. Along(d, f, u, told)
      BY <3>5 DEF Along, At
    <3> QED BY <3>2, <3>3, <3>6
  <2> HIDE DEF S
  <2> QED BY <2>1, EmptySeq
<1>2. ASSUME NEW u \in Seq(Char), NEW c \in Char, u \in S
      PROVE  Append(u, c) \in S
  <2> DEFINE more == Append(u, c)
             all == told \o u
  <2>1. told \o more = Append(all, c) /\ more \in Seq(Char) /\ all \in Seq(Char)
    BY ConcatAppend, ConcatProperties, AppendProperties
  <2>2. Fits(all) => Along(d, G(u), u, all)
    BY <1>2
  <2>3. SUFFICES ASSUME Fits(Append(all, c)) PROVE Along(d, G(more), more, Append(all, c))
    BY <2>1
  <2> HIDE DEF all
  <2>4. Fits(all) /\ (c = "n" => LineFits(Front(Pieces(all)), Last(Pieces(all))))
    BY <2>1, <2>3, FitsBefore
  <2>5. Along(d, G(u), u, all)
    BY <2>2, <2>4
  <2>6. CASE c = "n"
    <3> DEFINE lines == Front(Pieces(u))
               last == Last(Pieces(u))
    <3>1. Pieces(u) = Append(lines, last) /\ lines \in Seq(Seq(Plain)) /\ last \in Seq(Plain)
      BY PieceParts
    <3>2. Front(Pieces(more)) = Append(lines, last)
      <4> DEFINE A == Seq(Plain)
                 s == Append(lines, last)
                 e == <<>>
      <4> HIDE DEF lines, last
      <4>1. Pieces(more) = Append(s, e)
        BY <2>6, <3>1, PiecesGrow
      <4>2. s \in Seq(A) /\ e \in A
        BY <3>1, AppendProperties, EmptySeq
      <4> HIDE DEF A, s, e, more
      <4>3. Front(Append(s, e)) = s
        BY <4>2, FrontLastOfAppend
      <4> QED BY <4>1, <4>3 DEF s
    <3> HIDE DEF lines, last
    <3>3. G(more) = process_inventory_line_segment(G(u), last, TRUE)
      <4>1. Segments!Fold(0, f, Append(lines, last))
              = process_inventory_line_segment(Segments!Fold(0, f, lines), last, TRUE)
        BY <3>1, Induction, Segments!FoldAppend DEF SegmentStep
      <4> QED BY <3>2, <4>1 DEF lines
    <3> DEFINE g == G(u)
    <3>4. Along(d, g, u, all) /\ LineFits(Front(Pieces(all)), Last(Pieces(all)))
      BY <2>4, <2>5, <2>6
    <3> HIDE DEF g
    <3>5. Along(d, process_inventory_line_segment(g, Last(Pieces(u)), TRUE),
                Append(u, "n"), Append(all, "n"))
      BY <2>1, <3>4, AlongLine
    <3> QED BY <2>6, <3>3, <3>5 DEF g, last
  <2>7. CASE c # "n"
    <3> DEFINE g == G(u)
    <3>1. c \in Plain
      BY <2>7 DEF Plain
    <3>2. Along(d, g, u, all)
      BY <2>5
    <3> HIDE DEF g
    <3>3. Along(d, g, Append(u, c), Append(all, c))
          /\ Front(Pieces(Append(u, c))) = Front(Pieces(u))
      BY <2>1, <3>1, <3>2, AlongCharacter
    <3>4. G(more) = g
      BY <3>3 DEF g
    <3> QED BY <3>3, <3>4
  <2> QED BY <2>6, <2>7
<1> HIDE DEF S
<1>3. Seq(Char) \subseteq S
  BY <1>1, <1>2, SequenceInduction
<1>4. text \in S
  BY <1>3
<1> QED BY <1>4 DEF S

LEMMA TextFits ==
  ASSUME NEW d \in Seq(Record), NEW f \in Framings, NEW told \in Seq(Char), At(d, f, told),
         NEW text \in Seq(Char), Fits(told \o text)
  PROVE  At(d, process_inventory_text(f, text), told \o text)
<1> DEFINE all == told \o text
           g == Segments!Fold(0, f, Front(Pieces(text)))
           rest == Last(Pieces(text))
           lines == Front(Pieces(all))
           last == Last(Pieces(all))
           s == g.fragment
<1>1. Along(d, g, text, all)
  BY SegmentsAlong
<1>2. all \in Seq(Char)
  BY ConcatProperties
<1>3. rest \in Seq(Plain) /\ lines \in Seq(Seq(Plain)) /\ last \in Seq(Plain)
  BY <1>2, PieceParts
<1>4. process_inventory_text(f, text) = FrameRest(g, rest)
  BY SegmentIsFold DEF process_inventory_text
<1>5. Fits(all)
  OBVIOUS
<1> HIDE DEF all
<1>6. last # <<>> => LineFits(lines, last)
  BY <1>2, <1>5, FitsParts
<1>7. g \in Framings /\ ~g.continuation /\ s \o rest = last /\ Shift(d, Framing2(g)) = After(lines)
  BY <1>1 DEF Along
<1> HIDE DEF g
<1>8. s \in Seq(Plain)
  BY <1>7, FramingParts
<1> HIDE DEF rest, lines, last
<1>9. CASE rest = <<>>
  <2>1. FrameRest(g, rest) = g
    BY <1>9 DEF FrameRest
  <2>2. s = last
    BY <1>7, <1>8, <1>9, ConcatEmptySeq
  <2>3. At(d, g, all)
    BY <1>7, <2>2 DEF At, lines, last
  <2> QED BY <1>4, <2>1, <2>3 DEF all
<1>10. CASE rest # <<>>
  <2> DEFINE h == [g EXCEPT !.fragment = s \o rest]
  <2>1. FrameRest(g, rest) = process_inventory_line_segment(g, rest, FALSE)
    BY <1>10 DEF FrameRest
  <2>2. last # <<>>
    <3>1. Len(s \o rest) = Len(s) + Len(rest) /\ Len(s) \in Nat /\ Len(rest) \in Nat
      BY <1>3, <1>8, ConcatProperties, LenProperties
    <3>2. Len(rest) # 0
      BY <1>3, <1>10, EmptySeq
    <3>3. Len(last) # 0
      BY <1>7, <3>1, <3>2
    <3> QED BY <1>3, <3>3, EmptySeq
  <2>3. Held([pending |-> g.pending, fragment |-> s \o rest]) <= Cap
    <3>1. After(lines).pending = g.pending
      BY <1>7 DEF Shift, Framing2
    <3>2. LineFits(lines, last)
      BY <1>6, <2>2
    <3> QED BY <1>7, <3>1, <3>2 DEF LineFits
  <2>4. process_inventory_line_segment(g, rest, FALSE) = h
    BY <1>3, <1>7, <2>3, SegmentFits
  <2>5. h.fragment = last /\ ~h.continuation /\ Framing2(h) = Framing2(g)
    <3> DEFINE v == s \o rest
    <3>1. v = last
      BY <1>7
    <3> HIDE DEF v, s
    <3>2. h.fragment = v /\ h.continuation = g.continuation /\ h.done = g.done /\ h.pending = g.pending
      BY <1>7 DEF Framings, v
    <3> HIDE DEF h
    <3> QED BY <1>7, <3>1, <3>2 DEF Framing2
  <2> HIDE DEF h
  <2>6. At(d, h, all)
    BY <1>7, <2>5 DEF At, lines, last
  <2> QED BY <1>4, <2>1, <2>4, <2>6 DEF all
<1> QED BY <1>9, <1>10

----------------------------------------------------------------------------
(* The entries of records *)

\* A function applied to every element of a sequence.
Mapped(f, s) == [i \in DOMAIN s |-> f[s[i]]]

MapsTo(f, A, B) == f \in [A -> B]

LEMMA MappedType ==
  ASSUME NEW A, NEW B, NEW f, MapsTo(f, A, B), NEW s \in Seq(A)
  PROVE  /\ Mapped(f, s) \in Seq(B) /\ Len(Mapped(f, s)) = Len(s)
         /\ \A i \in 1..Len(s) : Mapped(f, s)[i] = f[s[i]]
<1> DEFINE n == Len(s)
           h == Mapped(f, s)
<1>1. n \in Nat /\ DOMAIN s = 1..n /\ \A i \in 1..n : s[i] \in A
  BY LenProperties, ElementOfSeq
<1>2. h = [i \in 1..n |-> f[s[i]]]
  BY <1>1 DEF Mapped
<1>3. h \in [1..n -> B]
  BY <1>1, <1>2 DEF MapsTo
<1> HIDE DEF h, n
<1>4. h \in Seq(B) /\ Len(h) = n
  BY <1>1, <1>3, SeqDef, LenProperties
<1>5. \A i \in 1..n : h[i] = f[s[i]]
  BY <1>2
<1> QED BY <1>4, <1>5 DEF h, n

LEMMA MappedConcat ==
  ASSUME NEW A, NEW B, NEW f, MapsTo(f, A, B), NEW s \in Seq(A), NEW t \in Seq(A)
  PROVE  Mapped(f, s \o t) = Mapped(f, s) \o Mapped(f, t)
<1> DEFINE both == s \o t
           h == Mapped(f, both)
           g == Mapped(f, s)
           k == Mapped(f, t)
           n == Len(s)
           m == Len(t)
           c == g \o k
<1>1. n \in Nat /\ m \in Nat /\ both \in Seq(A) /\ Len(both) = n + m
      /\ \A i \in 1..(n + m) : both[i] = IF i <= n THEN s[i] ELSE t[i - n]
  BY LenProperties, ConcatProperties
<1>2. h \in Seq(B) /\ Len(h) = n + m /\ \A i \in 1..(n + m) : h[i] = f[both[i]]
  <2> HIDE DEF both
  <2>1. h \in Seq(B) /\ Len(h) = Len(both) /\ \A i \in 1..Len(both) : h[i] = f[both[i]]
    BY <1>1, MappedType
  <2> QED BY <1>1, <2>1
<1>3. /\ g \in Seq(B) /\ Len(g) = n /\ \A i \in 1..n : g[i] = f[s[i]]
      /\ k \in Seq(B) /\ Len(k) = m /\ \A i \in 1..m : k[i] = f[t[i]]
  BY MappedType
<1> HIDE DEF both, h, g, k, n, m
<1>4. c \in Seq(B) /\ Len(c) = n + m
      /\ \A i \in 1..(n + m) : c[i] = IF i <= n THEN g[i] ELSE k[i - n]
  <2>1. g \in Seq(B) /\ k \in Seq(B)
    BY <1>3
  <2>2. /\ c \in Seq(B) /\ Len(c) = Len(g) + Len(k)
        /\ \A i \in 1..(Len(g) + Len(k)) : c[i] = IF i <= Len(g) THEN g[i] ELSE k[i - Len(g)]
    BY <2>1, ConcatProperties
  <2>3. Len(g) = n /\ Len(k) = m
    BY <1>3
  <2> HIDE DEF c
  <2> QED BY <2>2, <2>3
<1>5. ASSUME NEW i \in 1..(n + m)
      PROVE  h[i] = c[i]
  <2>1. CASE i <= n
    <3>1. i \in 1..n
      BY <1>1, <2>1
    <3> HIDE DEF c
    <3>2. h[i] = f[both[i]] /\ both[i] = s[i]
      BY <1>1, <1>2, <2>1
    <3>3. c[i] = g[i] /\ g[i] = f[s[i]]
      BY <1>3, <1>4, <2>1, <3>1
    <3> QED BY <3>2, <3>3
  <2>2. CASE ~(i <= n)
    <3>1. i - n \in 1..m
      BY <1>1, <2>2
    <3> HIDE DEF c
    <3>2. h[i] = f[both[i]] /\ both[i] = t[i - n]
      BY <1>1, <1>2, <2>2
    <3>3. c[i] = k[i - n] /\ k[i - n] = f[t[i - n]]
      BY <1>3, <1>4, <2>2, <3>1
    <3> QED BY <3>2, <3>3
  <2> QED BY <2>1, <2>2
<1> HIDE DEF c
<1>6. h = c
  BY <1>2, <1>4, <1>5, SeqEqual
<1> QED BY <1>6 DEF h, c, g, k, both

\* Entries without their identifiers.
Strip(entries) == [i \in DOMAIN entries |-> [line |-> entries[i].line, text |-> entries[i].text]]

LEMMA StripConcat ==
  ASSUME NEW s \in Seq(Entry), NEW t \in Seq(Entry)
  PROVE  Strip(s \o t) = Strip(s) \o Strip(t)
<1> DEFINE f == [e \in Entry |-> [line |-> e.line, text |-> e.text]]
<1>1. MapsTo(f, Entry, Projected)
  BY DEF Entry, Projected, MapsTo
<1>2. ASSUME NEW u \in Seq(Entry)
      PROVE  Strip(u) = Mapped(f, u)
  <2>1. \A i \in DOMAIN u : u[i] \in Entry
    BY LenProperties, ElementOfSeq
  <2> QED BY <2>1 DEF Strip, Mapped
<1>3. s \o t \in Seq(Entry)
  BY ConcatProperties
<1> DEFINE both == s \o t
<1>4. Strip(both) = Mapped(f, both) /\ Strip(s) = Mapped(f, s) /\ Strip(t) = Mapped(f, t)
  BY <1>2, <1>3
<1> HIDE DEF f
<1>5. Mapped(f, s \o t) = Mapped(f, s) \o Mapped(f, t)
  BY <1>1, MappedConcat
<1> QED BY <1>4, <1>5

LEMMA StripEmpty == \A s : s = <<>> => Strip(s) = <<>>
BY DEF Strip

\* The function that Rebased applies.
Moved(n) == [e \in Projected |-> [e EXCEPT !.line = n + @ - 1]]

LEMMA MovedGives ==
  ASSUME NEW n \in Nat \ {0}
  PROVE  /\ MapsTo(Moved(n), Projected, Projected)
         /\ \A e \in Projected : Moved(n)[e] \in Projected
         /\ \A e \in Projected : /\ Moved(n)[e].line = n + e.line - 1
                                 /\ Moved(n)[e].text = e.text
         /\ \A s \in Seq(Projected) : Rebased(s, n) = Mapped(Moved(n), s)
<1>1. ASSUME NEW e \in Projected
      PROVE  /\ [e EXCEPT !.line = n + @ - 1] \in Projected
             /\ [e EXCEPT !.line = n + @ - 1].line = n + e.line - 1
             /\ [e EXCEPT !.line = n + @ - 1].text = e.text
  <2>1. n + e.line - 1 \in Nat \ {0}
    BY DEF Projected
  <2> QED BY <2>1 DEF Projected
<1>2. ASSUME NEW s \in Seq(Projected)
      PROVE  Rebased(s, n) = Mapped(Moved(n), s)
  <2>1. \A i \in DOMAIN s : s[i] \in Projected
    BY LenProperties, ElementOfSeq
  <2> QED BY <2>1 DEF Rebased, Mapped, Moved
<1> QED BY <1>1, <1>2 DEF Moved, MapsTo

LEMMA RebasedConcat ==
  ASSUME NEW s \in Seq(Projected), NEW t \in Seq(Projected), NEW n \in Nat \ {0}
  PROVE  Rebased(s \o t, n) = Rebased(s, n) \o Rebased(t, n)
<1> DEFINE both == s \o t
           f == Moved(n)
<1>1. MapsTo(f, Projected, Projected) /\ \A u \in Seq(Projected) : Rebased(u, n) = Mapped(f, u)
  BY MovedGives
<1>2. both \in Seq(Projected)
  BY ConcatProperties
<1> HIDE DEF f
<1>3. Mapped(f, both) = Mapped(f, s) \o Mapped(f, t)
  BY <1>1, MappedConcat
<1> HIDE DEF both
<1>4. Rebased(both, n) = Mapped(f, both) /\ Rebased(s, n) = Mapped(f, s) /\ Rebased(t, n) = Mapped(f, t)
  BY <1>1, <1>2
<1> QED BY <1>3, <1>4 DEF both

\* Counting lines from one line and then from another.
LEMMA RebasedTwice ==
  ASSUME NEW s \in Seq(Projected), NEW m \in Nat \ {0}, NEW n \in Nat \ {0}
  PROVE  Rebased(Rebased(s, m), n) = Rebased(s, n + m - 1)
<1> DEFINE k == n + m - 1
           u == Rebased(s, m)
           v == Rebased(u, n)
           w == Rebased(s, k)
           M == Moved(m)
           N == Moved(n)
           K == Moved(k)
<1>k. k \in Nat \ {0} /\ k = n + m - 1
  OBVIOUS
<1> HIDE DEF k
<1>1. u = Mapped(M, s) /\ w = Mapped(K, s) /\ u \in Seq(Projected)
  BY <1>k, MovedGives, RebasedGives
<1>2. MapsTo(M, Projected, Projected) /\ MapsTo(N, Projected, Projected)
      /\ MapsTo(K, Projected, Projected)
  BY <1>k, MovedGives
<1>a. v = Mapped(N, u)
  <2> HIDE DEF u
  <2> QED BY <1>1, MovedGives
<1> HIDE DEF u, v, w, M, N, K
<1>b. ASSUME NEW f, MapsTo(f, Projected, Projected), NEW x \in Seq(Projected), NEW y,
             y = Mapped(f, x)
      PROVE  y \in Seq(Projected) /\ Len(y) = Len(x) /\ \A i \in 1..Len(x) : y[i] = f[x[i]]
  BY <1>b, MappedType
<1>3. Len(u) = Len(s) /\ \A i \in 1..Len(s) : u[i] = M[s[i]]
  BY <1>1, <1>2, <1>b
<1>4. w \in Seq(Projected) /\ Len(w) = Len(s) /\ \A i \in 1..Len(s) : w[i] = K[s[i]]
  BY <1>1, <1>2, <1>b
<1>5. v \in Seq(Projected) /\ Len(v) = Len(u) /\ \A i \in 1..Len(u) : v[i] = N[u[i]]
  BY <1>1, <1>2, <1>a, <1>b
<1>6. ASSUME NEW e \in Projected
      PROVE  N[M[e]] = K[e]
  <2> DEFINE a == M[e]
             b == N[a]
             c == K[e]
  <2>1. a \in Projected /\ a.line = m + e.line - 1 /\ a.text = e.text
    BY MovedGives DEF M
  <2>2. c \in Projected /\ c.line = k + e.line - 1 /\ c.text = e.text
    BY <1>k, MovedGives DEF K
  <2> HIDE DEF a, c
  <2>3. b \in Projected /\ b.line = n + a.line - 1 /\ b.text = a.text
    BY <2>1, MovedGives DEF N
  <2> HIDE DEF b
  <2>4. b.line = c.line /\ b.text = c.text
    <3>1. e.line \in Nat
      BY DEF Projected
    <3> QED BY <1>k, <2>1, <2>2, <2>3, <3>1
  <2>5. b = c
    <3>1. \A x \in Projected : x = [line |-> x.line, text |-> x.text]
      BY DEF Projected
    <3>2. b = [line |-> b.line, text |-> b.text] /\ c = [line |-> c.line, text |-> c.text]
      BY <2>2, <2>3, <3>1
    <3> QED BY <2>4, <3>2
  <2> QED BY <2>5 DEF a, b, c
<1>7. ASSUME NEW i \in 1..Len(v)
      PROVE  v[i] = w[i]
  <2>1. i \in 1..Len(s) /\ s[i] \in Projected /\ i \in 1..Len(u)
    BY <1>3, <1>5, ElementOfSeq
  <2>2. v[i] = N[u[i]] /\ u[i] = M[s[i]] /\ w[i] = K[s[i]]
    BY <1>3, <1>4, <1>5, <2>1
  <2>3. N[M[s[i]]] = K[s[i]]
    BY <1>6, <2>1
  <2> QED BY <2>2, <2>3
<1>8. v = w
  BY <1>3, <1>4, <1>5, <1>7, SeqEqual
<1> QED BY <1>8 DEF v, w, u, k

LEMMA ParseAppendParts ==
  ASSUME NEW records \in Seq(Record), NEW record \in Record, NEW n
  PROVE  /\ parse_framed_records(Append(records, record), n).entries
              = parse_framed_records(records, n).entries
                  \o Rebased(project_logical_record(record), parse_framed_records(records, n).next)
         /\ parse_framed_records(Append(records, record), n).next
              = parse_framed_records(records, n).next + physical_lines(record)
<1> DEFINE P == parse_framed_records(records, n)
           o == parse_framed_records(Append(records, record), n)
           E == P.entries \o Rebased(project_logical_record(record), P.next)
           k == P.next + physical_lines(record)
<1>1. o = [entries |-> E, next |-> k]
  BY ParseAppend
<1> HIDE DEF o, E, k
<1>2. o.entries = E /\ o.next = k
  BY <1>1
<1> QED BY <1>2 DEF o, E, k

LEMMA ParseConcat ==
  ASSUME NEW a \in Seq(Record), NEW b \in Seq(Record), NEW n \in Nat \ {0}
  PROVE  LET before == parse_framed_records(a, n)
             after == parse_framed_records(b, before.next)
         IN /\ parse_framed_records(a \o b, n).entries = before.entries \o after.entries
            /\ parse_framed_records(a \o b, n).next = after.next
<1> DEFINE m == parse_framed_records(a, n).next
           E == parse_framed_records(a, n).entries
           S == {u \in Seq(Record) :
                   /\ parse_framed_records(a \o u, n).entries
                        = E \o parse_framed_records(u, m).entries
                   /\ parse_framed_records(a \o u, n).next = parse_framed_records(u, m).next}
<1>1. m \in Nat \ {0} /\ E \in Seq(Projected)
      /\ parse_framed_records(a, n).next = m /\ parse_framed_records(a, n).entries = E
  BY ParseType
<1>2. <<>> \in S
  <2>1. ASSUME NEW u, u = <<>>
        PROVE  /\ parse_framed_records(a \o u, n).entries
                    = E \o parse_framed_records(u, m).entries
               /\ parse_framed_records(a \o u, n).next = parse_framed_records(u, m).next
    <3>1. parse_framed_records(u, m) = [entries |-> <<>>, next |-> m]
      BY <2>1, ParseEmpty
    <3>2. a \o u = a
      BY <2>1, ConcatEmptySeq
    <3> HIDE DEF E, m
    <3>3. E \o <<>> = E
      BY <1>1, ConcatEmptySeq
    <3> QED BY <1>1, <3>1, <3>2, <3>3
  <2> QED BY <2>1, EmptySeq
<1>3. ASSUME NEW u \in Seq(Record), NEW r \in Record, u \in S
      PROVE  Append(u, r) \in S
  <2> DEFINE s == a \o u
             P == parse_framed_records(s, n)
             Q == parse_framed_records(u, m)
             more == Append(u, r)
             F == Rebased(project_logical_record(r), Q.next)
  <2>1. P.entries = E \o Q.entries /\ P.next = Q.next
    BY <1>3
  <2>2. a \o more = Append(s, r) /\ more \in Seq(Record) /\ s \in Seq(Record)
    BY ConcatAppend, AppendProperties, ConcatProperties
  <2> HIDE DEF m, E, s
  <2>3. Q.entries \in Seq(Projected) /\ Q.next \in Nat \ {0}
    BY <1>1, ParseType
  <2>4. F \in Seq(Projected)
    <3>1. project_logical_record(r) \in Seq(Projected)
      BY ProjectRecordGives
    <3> QED BY <2>3, <3>1, RebasedGives
  <2>5. /\ parse_framed_records(Append(s, r), n).entries
             = P.entries \o Rebased(project_logical_record(r), P.next)
        /\ parse_framed_records(Append(s, r), n).next = P.next + physical_lines(r)
    BY <2>2, ParseAppendParts, ZenonT(60)
  <2>6. /\ parse_framed_records(more, m).entries = Q.entries \o F
        /\ parse_framed_records(more, m).next = Q.next + physical_lines(r)
    BY ParseAppendParts
  <2> DEFINE p == P.entries
             q == Q.entries
  <2>7. /\ parse_framed_records(Append(s, r), n).entries = p \o F
        /\ parse_framed_records(Append(s, r), n).next = Q.next + physical_lines(r)
        /\ parse_framed_records(more, m).entries = q \o F
        /\ parse_framed_records(more, m).next = Q.next + physical_lines(r)
    BY <2>1, <2>5, <2>6
  <2>8. p = E \o q /\ q \in Seq(Projected)
    BY <2>1, <2>3
  <2> HIDE DEF P, Q, F, p, q, more
  <2>9. (E \o q) \o F = E \o (q \o F)
    <3>1. E \in Seq(Projected) /\ q \in Seq(Projected) /\ F \in Seq(Projected)
      BY <1>1, <2>4, <2>8
    <3> QED BY <3>1, ConcatAssociative
  <2>10. /\ parse_framed_records(a \o more, n).entries = E \o parse_framed_records(more, m).entries
         /\ parse_framed_records(a \o more, n).next = parse_framed_records(more, m).next
    BY <2>2, <2>7, <2>8, <2>9
  <2> QED BY <2>2, <2>10 DEF more
<1> HIDE DEF S
<1>4. Seq(Record) \subseteq S
  BY <1>2, <1>3, SequenceInduction
<1>5. b \in S
  BY <1>4
<1> QED BY <1>5 DEF S, E, m

LEMMA OverflowConcat ==
  ASSUME NEW a \in Seq(Record), NEW b \in Seq(Record)
  PROVE  overflow_count(a \o b) = overflow_count(a) + overflow_count(b)
<1> DEFINE k == overflow_count(a)
           S == {u \in Seq(Record) : overflow_count(a \o u) = k + overflow_count(u)}
<1>1. k \in Nat
  BY OverflowType
<1>2. <<>> \in S
  <2>1. \A u : u = <<>> => overflow_count(u) = 0 /\ a \o u = a
    BY OverflowEmpty, ConcatEmptySeq
  <2>2. \A u : u = <<>> => overflow_count(a \o u) = k + overflow_count(u)
    BY <1>1, <2>1
  <2> QED BY <2>2, EmptySeq
<1>a. ASSUME NEW u \in Seq(Record), NEW r \in Record
      PROVE  overflow_count(Append(u, r)) = IF r.split THEN overflow_count(u) + 1 ELSE overflow_count(u)
  <2>1. overflow_count(Append(u, r)) = OverflowStep(0, overflow_count(u), r)
    BY OverflowIsFold, Induction, Overflows!FoldAppend
  <2> QED BY <2>1, Zenon DEF OverflowStep
<1>3. ASSUME NEW u \in Seq(Record), NEW r \in Record, u \in S
      PROVE  Append(u, r) \in S
  <2> DEFINE s == a \o u
  <2>1. overflow_count(s) = k + overflow_count(u) /\ overflow_count(u) \in Nat
    BY <1>3, OverflowType
  <2>2. a \o Append(u, r) = Append(s, r) /\ Append(u, r) \in Seq(Record) /\ s \in Seq(Record)
    BY ConcatAppend, AppendProperties, ConcatProperties
  <2> HIDE DEF s, k
  <2>3. overflow_count(Append(s, r)) = IF r.split THEN overflow_count(s) + 1 ELSE overflow_count(s)
    BY <1>a, <2>2
  <2>4. overflow_count(Append(u, r)) = IF r.split THEN overflow_count(u) + 1 ELSE overflow_count(u)
    BY <1>a
  <2>5. overflow_count(Append(s, r)) = k + overflow_count(Append(u, r))
    <3>1. CASE r.split
      <4>1. overflow_count(Append(s, r)) = overflow_count(s) + 1
            /\ overflow_count(Append(u, r)) = overflow_count(u) + 1
        BY <2>3, <2>4, <3>1, Zenon
      <4> QED BY <1>1, <2>1, <4>1
    <3>2. CASE ~r.split
      <4>1. overflow_count(Append(s, r)) = overflow_count(s)
            /\ overflow_count(Append(u, r)) = overflow_count(u)
        BY <2>3, <2>4, <3>2, Zenon
      <4> QED BY <1>1, <2>1, <4>1
    <3> QED BY <3>1, <3>2
  <2> QED BY <2>2, <2>5
<1> HIDE DEF S
<1>4. Seq(Record) \subseteq S
  BY <1>2, <1>3, SequenceInduction
<1>5. b \in S
  BY <1>4
<1> QED BY <1>5 DEF S, k

\* Parsing records from another line on gives the same entries at other lines.
LEMMA ParseShift ==
  ASSUME NEW records \in Seq(Record), NEW n \in Nat \ {0}
  PROVE  /\ parse_framed_records(records, n).entries
              = Rebased(parse_framed_records(records, 1).entries, n)
         /\ parse_framed_records(records, n).next = n + parse_framed_records(records, 1).next - 1
<1> DEFINE S == {u \in Seq(Record) :
                   /\ parse_framed_records(u, n).entries
                        = Rebased(parse_framed_records(u, 1).entries, n)
                   /\ parse_framed_records(u, n).next = n + parse_framed_records(u, 1).next - 1}
<1>1. <<>> \in S
  <2>1. ASSUME NEW u, u = <<>>
        PROVE  /\ parse_framed_records(u, n).entries
                    = Rebased(parse_framed_records(u, 1).entries, n)
               /\ parse_framed_records(u, n).next = n + parse_framed_records(u, 1).next - 1
    <3>1. /\ parse_framed_records(u, n) = [entries |-> <<>>, next |-> n]
          /\ parse_framed_records(u, 1) = [entries |-> <<>>, next |-> 1]
      BY <2>1, ParseEmpty
    <3>2. Rebased(<<>>, n) = <<>>
      BY DEF Rebased
    <3> QED BY <3>1, <3>2
  <2> QED BY <2>1, EmptySeq
<1>2. ASSUME NEW u \in Seq(Record), NEW r \in Record, u \in S
      PROVE  Append(u, r) \in S
  <2> DEFINE P == parse_framed_records(u, n)
             Q == parse_framed_records(u, 1)
             E == project_logical_record(r)
             more == Append(u, r)
  <2>1. P.entries = Rebased(Q.entries, n) /\ P.next = n + Q.next - 1
    BY <1>2
  <2>2. more \in Seq(Record) /\ 1 \in Nat \ {0}
    BY AppendProperties
  <2>3. /\ P.entries \in Seq(Projected) /\ P.next \in Nat \ {0}
        /\ Q.entries \in Seq(Projected) /\ Q.next \in Nat \ {0}
    BY <2>2, ParseType
  <2>4. E \in Seq(Projected)
    BY ProjectRecordGives
  <2>5. physical_lines(r) \in Nat
    BY LinesOfRecord
  <2>6. /\ parse_framed_records(more, n).entries = P.entries \o Rebased(E, P.next)
        /\ parse_framed_records(more, n).next = P.next + physical_lines(r)
        /\ parse_framed_records(more, 1).entries = Q.entries \o Rebased(E, Q.next)
        /\ parse_framed_records(more, 1).next = Q.next + physical_lines(r)
    BY ParseAppendParts
  <2> DEFINE p == P.entries
             q == Q.entries
             k == P.next
             m == Q.next
             F == Rebased(E, m)
  <2>7. /\ parse_framed_records(more, n).entries = p \o Rebased(E, k)
        /\ parse_framed_records(more, n).next = k + physical_lines(r)
        /\ parse_framed_records(more, 1).entries = q \o F
        /\ parse_framed_records(more, 1).next = m + physical_lines(r)
    BY <2>6
  <2>8. p = Rebased(q, n) /\ k = n + m - 1 /\ q \in Seq(Projected) /\ m \in Nat \ {0} /\ k \in Nat \ {0}
    BY <2>1, <2>3
  <2> HIDE DEF P, Q, E, p, q, k, m, more
  <2>9. Rebased(F, n) = Rebased(E, k) /\ F \in Seq(Projected)
    BY <2>4, <2>8, RebasedTwice, RebasedGives
  <2> HIDE DEF F
  <2>10. Rebased(q \o F, n) = Rebased(q, n) \o Rebased(F, n)
    BY <2>8, <2>9, RebasedConcat
  <2>11. parse_framed_records(more, n).next = n + parse_framed_records(more, 1).next - 1
    BY <2>5, <2>7, <2>8
  <2> QED BY <2>2, <2>7, <2>8, <2>9, <2>10, <2>11 DEF more
<1> HIDE DEF S
<1>3. Seq(Record) \subseteq S
  BY <1>1, <1>2, SequenceInduction
<1>4. records \in S
  BY <1>3
<1> QED BY <1>4 DEF S

\* Numbering gives the entries of the completed records, and an error for each that was cut.
LEMMA NumberedStrip ==
  ASSUME NEW r \in Reader, NEW f \in Framings
  PROVE  /\ Strip(Numbered(r, f).entries) = parse_framed_records(f.done, r.next_line).entries
         /\ Numbered(r, f).errors = overflow_count(f.done)
<1> DEFINE out == Numbered(r, f)
           parsed == parse_framed_records(f.done, r.next_line)
           E == parsed.entries
           id == r.next_id
           new == [i \in DOMAIN E |-> [id |-> id + i - 1, line |-> E[i].line, text |-> E[i].text]]
<1>1. r.next_line \in Nat \ {0}
  BY DEF Reader
<1>2. f.done \in Seq(Record)
  BY DEF Framings
<1>3. E \in Seq(Projected)
  BY <1>1, <1>2, ParseType
<1>4. out = Identified(r, f, parsed)
  BY DEF Numbered
<1> HIDE DEF parsed, out, id
<1>5. out.entries = new /\ out.errors = overflow_count(f.done)
  BY <1>4 DEF Identified, id
<1> HIDE DEF E
<1>6. DOMAIN E = 1..Len(E) /\ Len(E) \in Nat /\ \A i \in 1..Len(E) : E[i] \in Projected
  BY <1>3, LenProperties, ElementOfSeq DEF E
<1>7. \A i \in DOMAIN E : [line |-> E[i].line, text |-> E[i].text] = E[i]
  BY <1>6 DEF Projected
<1>8. DOMAIN new = DOMAIN E
      /\ \A i \in DOMAIN E : new[i].line = E[i].line /\ new[i].text = E[i].text
  OBVIOUS
<1> HIDE DEF new
<1>9. Strip(new) = [i \in DOMAIN E |-> E[i]]
  BY <1>7, <1>8 DEF Strip
<1>10. [i \in DOMAIN E |-> E[i]] = E
  <2>1. E \in [1..Len(E) -> Projected]
    BY <1>6, <1>3, SeqDef, LenProperties DEF E
  <2> QED BY <1>6, <2>1
<1> QED BY <1>5, <1>9, <1>10 DEF out, E, parsed

LEMMA CompletedConcat ==
  ASSUME NEW a \in Seq(Seq(Plain)), NEW b \in Seq(Seq(Plain))
  PROVE  Completed(a \o b) = Completed(a) \o Completed(b)
<1> DEFINE f == [line \in Seq(Plain) |-> complete(line)]
           both == a \o b
<1>1. MapsTo(f, Seq(Plain), Record)
  <2>1. \A line \in Seq(Plain) : complete(line) \in Record
    BY PlainIsText, RecordTypes
  <2> QED BY <2>1 DEF MapsTo
<1>2. ASSUME NEW u \in Seq(Seq(Plain))
      PROVE  Completed(u) = Mapped(f, u)
  <2>1. \A i \in DOMAIN u : u[i] \in Seq(Plain)
    BY LenProperties, ElementOfSeq
  <2> QED BY <2>1 DEF Completed, Mapped
<1>3. both \in Seq(Seq(Plain))
  BY ConcatProperties
<1> HIDE DEF both, f
<1>4. Completed(both) = Mapped(f, both) /\ Completed(a) = Mapped(f, a) /\ Completed(b) = Mapped(f, b)
  BY <1>2, <1>3
<1>5. Mapped(f, a \o b) = Mapped(f, a) \o Mapped(f, b)
  BY <1>1, MappedConcat
<1> QED BY <1>4, <1>5 DEF both

----------------------------------------------------------------------------
(* The records of what was read *)

FitsIn(text) == Framing = "inventory" => Fits(text)

\* A framing that has completed, after the records d, those of a text, and holds the rest of it.
AtText(d, f, text) ==
  /\ Framing = "inventory" => At(d, f, text)
  /\ Framing = "line" => /\ d \o f.done = Completed(Front(Pieces(text)))
                         /\ f.fragment = Last(Pieces(text))

LEMMA FrameTextAt ==
  ASSUME NEW d \in Seq(Record), NEW r, ReaderOK(r), NEW told \in Seq(Char),
         AtText(d, FramingOf(r), told), NEW text \in Seq(Char), FitsIn(told \o text)
  PROVE  AtText(d, FrameText(FramingOf(r), text), told \o text)
<1> DEFINE f == FramingOf(r)
           all == told \o text
<1>1. f \in Framings /\ f.done = <<>>
  BY FramingOfReader DEF ReaderOK
<1> HIDE DEF f
<1>2. CASE Framing = "inventory"
  <2>1. FrameText(f, text) = process_inventory_text(f, text)
    BY <1>2 DEF FrameText
  <2>2. At(d, f, told) /\ Fits(told \o text)
    BY <1>2 DEF AtText, FitsIn, f
  <2>3. At(d, process_inventory_text(f, text), told \o text)
    BY <1>1, <2>2, TextFits
  <2> QED BY <1>2, <2>1, <2>3 DEF AtText, f
<1>3. CASE Framing = "line"
  <2> DEFINE lines == Front(Pieces(told))
             rest == Last(Pieces(told))
             p == Pieces(rest \o text)
             o == collect_complete_lines(f, text)
             more == Front(p)
  <2>1. FrameText(f, text) = o
    BY <1>3 DEF FrameText
  <2>2. d \o f.done = Completed(lines) /\ f.fragment = rest
    BY <1>3 DEF AtText, f
  <2>3. d = Completed(lines)
    BY <1>1, <2>2, ConcatEmptySeq
  <2>4. /\ o.fragment = Last(Pieces(f.fragment \o text))
        /\ o.done = Completed(Front(Pieces(f.fragment \o text)))
    <3>1. 1 \in Nat \ {0}
      OBVIOUS
    <3> QED BY <1>1, <3>1, CompleteLinesGive
  <2>5. o.fragment = Last(p) /\ o.done = Completed(more)
    BY <2>2, <2>4
  <2>6. /\ Front(Pieces(all)) = lines \o more
        /\ Last(Pieces(all)) = Last(p)
        /\ more \in Seq(Seq(Plain))
    BY PiecesGrown
  <2>7. lines \in Seq(Seq(Plain))
    BY PieceParts
  <2> HIDE DEF o, p, lines, more, all, rest
  <2>8. Completed(lines \o more) = Completed(lines) \o Completed(more)
    BY <2>6, <2>7, CompletedConcat
  <2>9. d \o o.done = Completed(Front(Pieces(all)))
    BY <2>3, <2>5, <2>6, <2>8
  <2> QED BY <1>3, <2>1, <2>5, <2>6, <2>9 DEF AtText, f, all
<1> QED BY <1>2, <1>3, FramingAssumption

\* Numbering the completed records leaves a framing that has completed nothing more.
LEMMA AtNumbered ==
  ASSUME NEW d \in Seq(Record), NEW f \in Framings, NEW text, AtText(d, f, text), NEW q,
         q.pending = f.pending, q.fragment = f.fragment, q.continuation = f.continuation
  PROVE  d \o f.done \in Seq(Record) /\ AtText(d \o f.done, FramingOf(q), text)
<1> DEFINE h == FramingOf(q)
           all == d \o f.done
           e == <<>>
<1>1. all \in Seq(Record)
  <2>1. f.done \in Seq(Record)
    BY DEF Framings
  <2> QED BY <2>1, ConcatProperties
<1>2. h.done = e /\ h.pending = f.pending /\ h.fragment = f.fragment /\ h.continuation = f.continuation
  BY FramingOfReader
<1>3. all \o e = all
  BY <1>1, ConcatEmptySeq
<1>4. Shift(d, Framing2(f)) = [done |-> all, pending |-> f.pending]
  BY DEF Shift, Framing2
<1> HIDE DEF all, h, e
<1>5. Shift(all, Framing2(h)) = [done |-> all, pending |-> f.pending]
  BY <1>2, <1>3 DEF Shift, Framing2
<1>6. Framing = "inventory" => At(all, h, text)
  BY <1>2, <1>4, <1>5 DEF At, AtText
<1>7. Framing = "line" => all \o h.done = Completed(Front(Pieces(text))) /\ h.fragment = Last(Pieces(text))
  BY <1>2, <1>3 DEF AtText, all
<1> QED BY <1>1, <1>6, <1>7 DEF AtText, h, all

\* A reader that holds nothing back is at the empty text.
LEMMA AtNothing ==
  ASSUME NEW r, Emptied(r), NEW d, d = <<>>
  PROVE  AtText(d, FramingOf(r), d)
<1> DEFINE f == FramingOf(r)
<1>1. f.done = <<>> /\ f.pending = None /\ f.fragment = <<>> /\ ~f.continuation
  BY FramingOfReader DEF Emptied
<1>2. Front(Pieces(d)) = d /\ Last(Pieces(d)) = d
  BY EmptyGives
<1>3. d \o f.done = d
  BY <1>1, EmptySeq, ConcatEmptySeq
<1> HIDE DEF f
<1>4. Framing = "inventory" => At(d, f, d)
  <2>1. Shift(d, Framing2(f)) = [done |-> d, pending |-> None]
    BY <1>1, <1>3 DEF Shift, Framing2
  <2>2. After(d) = Framed(None)
    BY AfterNothing
  <2> QED BY <1>1, <1>2, <2>1, <2>2 DEF At, Framed
<1>5. Completed(d) = d
  <2>1. \A s : s = <<>> => Completed(s) = <<>>
    BY DEF Completed
  <2> QED BY <2>1
<1> QED BY <1>1, <1>2, <1>3, <1>4, <1>5 DEF AtText, f

----------------------------------------------------------------------------
(* The entries told are those of opening the file *)

\* The entries and the errors are those of the records of a text from line n on; the reader has
\* those records behind it, and holds the rest of the text.
Matches(entries, errors, r, text, n) ==
  \E d \in Seq(Record) :
    /\ AtText(d, FramingOf(r), text)
    /\ Strip(entries) = parse_framed_records(d, n).entries
    /\ r.next_line = parse_framed_records(d, n).next
    /\ errors = overflow_count(d)

\* The entries and the errors of a tail that has ended are those of opening its text.
HasMatched(entries, errors, bytes, n) ==
  LET opened == parse(TextOf(decode(bytes)))
  IN /\ Strip(entries) = Rebased(opened.entries, n)
     /\ errors = opened.errors + (IF Incomplete(bytes) THEN 1 ELSE 0)

LEMMA MatchesNothing ==
  ASSUME NEW r, Emptied(r), NEW s, s = <<>>
  PROVE  Matches(s, 0, r, s, r.next_line)
<1>1. s \in Seq(Record) /\ AtText(s, FramingOf(r), s)
  BY EmptySeq, AtNothing
<1>2. Strip(s) = <<>> /\ overflow_count(s) = 0
  BY StripEmpty, OverflowEmpty
<1>3. parse_framed_records(s, r.next_line) = [entries |-> <<>>, next |-> r.next_line]
  BY ParseEmpty
<1>4. /\ parse_framed_records(s, r.next_line).entries = <<>>
      /\ parse_framed_records(s, r.next_line).next = r.next_line
  BY <1>3
<1> QED BY <1>1, <1>2, <1>4 DEF Matches

\* Reading more of a text that fits: the entries of its next records follow.
LEMMA MatchesMore ==
  ASSUME NEW r, ReaderOK(r), NEW entries \in Seq(Entry), NEW errors, NEW told \in Seq(Char),
         NEW n \in Nat \ {0}, NEW text \in Seq(Char),
         FitsIn(told) => Matches(entries, errors, r, told, n), FitsIn(told \o text)
  PROVE  Matches(entries \o Took(r, text).entries, errors + Took(r, text).errors,
                 Took(r, text).reader, told \o text, n)
<1> DEFINE f == FramingOf(r)
           g == FrameText(f, text)
           out == Took(r, text)
           q == out.reader
           m == r.next_line
           all == told \o text
<1>1. FitsIn(told)
  BY FitsPrefix DEF FitsIn
<1>2. PICK d \in Seq(Record) :
        /\ AtText(d, f, told)
        /\ Strip(entries) = parse_framed_records(d, n).entries
        /\ m = parse_framed_records(d, n).next
        /\ errors = overflow_count(d)
  BY <1>1 DEF Matches
<1>3. r \in Reader /\ g \in Framings
  BY ReaderParts, FrameTextGives
<1>4. AtText(d, g, all)
  BY <1>2, FrameTextAt
<1>5. out = Numbered(r, g)
  BY DEF Took
<1> HIDE DEF f, g, out, all
<1>6. /\ out.entries \in Seq(Entry) /\ q.next_line = parse_framed_records(g.done, m).next
      /\ q.pending = g.pending /\ q.fragment = g.fragment /\ q.continuation = g.continuation
  BY <1>3, <1>5, NumberedGives
<1>7. /\ Strip(out.entries) = parse_framed_records(g.done, m).entries
      /\ out.errors = overflow_count(g.done)
  BY <1>3, <1>5, NumberedStrip
<1> HIDE DEF q, m
<1> DEFINE b == g.done
           c == d \o b
<1>8. b \in Seq(Record)
  BY <1>3 DEF Framings
<1>9. c \in Seq(Record) /\ AtText(c, FramingOf(q), all)
  BY <1>3, <1>4, <1>6, AtNumbered
<1> HIDE DEF b
<1>10. /\ parse_framed_records(d \o b, n).entries
            = parse_framed_records(d, n).entries
                \o parse_framed_records(b, parse_framed_records(d, n).next).entries
       /\ parse_framed_records(d \o b, n).next
            = parse_framed_records(b, parse_framed_records(d, n).next).next
  BY <1>8, ParseConcat
<1>11. overflow_count(d \o b) = overflow_count(d) + overflow_count(b)
  BY <1>8, OverflowConcat
<1>12. Strip(entries \o out.entries) = Strip(entries) \o Strip(out.entries)
  BY <1>6, StripConcat
<1>13. Strip(entries \o out.entries) = parse_framed_records(c, n).entries
  BY <1>2, <1>7, <1>10, <1>12 DEF b
<1>14. q.next_line = parse_framed_records(c, n).next
  BY <1>2, <1>6, <1>10 DEF b
<1>15. errors + out.errors = overflow_count(c)
  BY <1>2, <1>7, <1>11 DEF b
<1> HIDE DEF c
<1> QED BY <1>9, <1>13, <1>14, <1>15 DEF Matches, q, out, all

\* A reader that frames and numbers alike matches alike.
LEMMA MatchesSame ==
  ASSUME NEW r, NEW q, FramingOf(q) = FramingOf(r), q.next_line = r.next_line,
         NEW entries, NEW errors, NEW text, NEW n, Matches(entries, errors, r, text, n)
  PROVE  Matches(entries, errors, q, text, n)
BY DEF Matches

\* Completing what is held back completes the records of opening the text.
LEMMA FlushedAt ==
  ASSUME NEW d \in Seq(Record), NEW r, ReaderOK(r), NEW text \in Seq(Char),
         AtText(d, FramingOf(r), text)
  PROVE  parse(TextOf(text)) = ParseRecords(d \o FlushText(FramingOf(r)).done)
<1> DEFINE f == FramingOf(r)
           g == FlushText(f)
           lines == Front(Pieces(text))
           last == Last(Pieces(text))
<1>1. f \in Framings /\ f.done = <<>> /\ Framing2(f) \in Frames /\ f.fragment \in Seq(Plain)
  BY FramingOfReader, FramingParts DEF ReaderOK
<1>2. Pieces(text) = Append(lines, last) /\ lines \in Seq(Seq(Plain)) /\ last \in Seq(Plain)
  BY PieceParts
<1> HIDE DEF f
<1>3. CASE Framing = "inventory"
  <2> DEFINE h == Framing2(f)
             k == IF f.fragment = <<>> THEN h ELSE LineStart(h, f.fragment)
             o == flush_pending(k)
             A == After(Lines(text))
  <2>1. f.fragment = last /\ Shift(d, h) = After(lines)
    BY <1>3 DEF AtText, At, f
  <2>2. g = With(o, <<>>, FALSE)
    BY <1>3 DEF FlushText, flush_pending_text, Start, Framing2
  <2>3. g.done = o.done
    BY <2>2 DEF With
  <2>4. Lines(text) = IF last = <<>> THEN lines ELSE Append(lines, last)
    BY <1>2 DEF Lines, Ended
  <2> HIDE DEF h, g, o, lines, last
  <2>5. k \in Frames /\ A = Shift(d, k)
    <3>1. CASE last = <<>>
      <4>1. k = h
        BY <2>1, <3>1
      <4>2. Lines(text) = lines
        BY <2>4, <3>1
      <4> QED BY <1>1, <2>1, <4>1, <4>2 DEF h
    <3>2. CASE last # <<>>
      <4>1. k = LineStart(h, last)
        BY <2>1, <3>2
      <4>2. Lines(text) = Append(lines, last)
        BY <2>4, <3>2
      <4>3. A = LineStart(After(lines), last)
        BY <1>2, <4>2, AfterAppend
      <4>4. h \in Frames
        BY <1>1 DEF h
      <4>5. LineStart(Shift(d, h), last) = Shift(d, LineStart(h, last))
        BY <1>2, <4>4, ShiftStart
      <4>6. LineStart(h, last) \in Frames
        BY <1>2, <4>4, StartStays
      <4> QED BY <2>1, <4>1, <4>3, <4>5, <4>6
    <3> QED BY <3>1, <3>2
  <2> HIDE DEF k, A
  <2>6. flush_pending(A) = Shift(d, o)
    <3>1. flush_pending(Shift(d, k)) = Shift(d, flush_pending(k))
      BY <2>5, ShiftFlush
    <3> QED BY <2>5, <3>1 DEF o
  <2>7. flush_pending(A).done = d \o o.done
    BY <2>6 DEF Shift
  <2>8. parse(text) = ParseRecords(flush_pending(A).done)
    BY <1>3, StartIsFold DEF parse, parse_lines, After, A
  <2>9. TextOf(text) = text
    BY <1>3 DEF TextOf
  <2> QED BY <2>3, <2>7, <2>8, <2>9 DEF g, f
<1>4. CASE Framing = "line"
  <2>1. TextOf(text) = Closed(text)
    BY <1>4 DEF TextOf
  <2>2. parse(Closed(text)) = ParseRecords(Completed(Lines(Closed(text))))
    BY <1>4 DEF parse, Completed
  <2>3. Lines(Closed(text)) = lines
    BY ClosedGives
  <2>4. d \o f.done = Completed(lines)
    BY <1>4 DEF AtText, f
  <2>5. g = [f EXCEPT !.fragment = <<>>]
    BY <1>4 DEF FlushText
  <2> HIDE DEF g
  <2>6. g.done = f.done
    BY <1>1, <2>5 DEF Framings
  <2> QED BY <2>1, <2>2, <2>3, <2>4, <2>6 DEF g, f
<1> QED BY <1>3, <1>4, FramingAssumption

\* The entries of what a reader held back.
LEMMA FinalIs ==
  ASSUME NEW r, ReaderOK(r)
  PROVE  LET out == finalize_pending_input(r)
             g == FlushText(FramingOf(r))
         IN /\ g.done \in Seq(Record)
            /\ Strip(out.entries) = parse_framed_records(g.done, r.next_line).entries
            /\ out.errors = overflow_count(g.done) + Len(r.carry)
<1> DEFINE out == finalize_pending_input(r)
           q == [r EXCEPT !.carry = <<>>]
           g == FlushText(FramingOf(r))
           n == r.next_line
           flushed == Numbered(q, g)
<1>1. r \in Reader
  BY ReaderParts
<1>2. q \in Reader /\ q.next_line = n
  <2>1. <<>> \in Seq({"l"})
    BY EmptySeq
  <2> QED BY <1>1, <2>1 DEF Reader
<1>3. g \in Framings
  BY FlushedGives
<1>4. out = [flushed EXCEPT !.errors = @ + Len(r.carry)]
  BY DEF finalize_pending_input
<1>5. flushed = Identified(q, g, parse_framed_records(g.done, q.next_line))
  BY DEF Numbered
<1> HIDE DEF q, g, n, out
<1>6. /\ Strip(flushed.entries) = parse_framed_records(g.done, q.next_line).entries
      /\ flushed.errors = overflow_count(g.done)
  BY <1>2, <1>3, NumberedStrip
<1>7. DOMAIN flushed = {"reader", "entries", "errors"}
  BY <1>5 DEF Identified
<1> HIDE DEF flushed
<1>8. out.entries = flushed.entries /\ out.errors = flushed.errors + Len(r.carry)
  BY <1>4, <1>7
<1>9. g.done \in Seq(Record)
  BY <1>3 DEF Framings
<1>10. Strip(out.entries) = parse_framed_records(g.done, n).entries
  BY <1>2, <1>6, <1>8
<1>11. out.errors = overflow_count(g.done) + Len(r.carry)
  BY <1>6, <1>8
<1> QED BY <1>9, <1>10, <1>11 DEF out, g, n

\* What consumers would hold if a tail that matches ended is what opening the text gives.
LEMMA MatchesFinal ==
  ASSUME NEW r, ReaderOK(r), NEW entries \in Seq(Entry), NEW errors, NEW text \in Seq(Char),
         NEW n \in Nat \ {0}, Matches(entries, errors, r, text, n)
  PROVE  LET out == finalize_pending_input(r)
             opened == parse(TextOf(text))
         IN /\ Strip(entries \o out.entries) = Rebased(opened.entries, n)
            /\ errors + out.errors = opened.errors + Len(r.carry)
<1> DEFINE out == finalize_pending_input(r)
           opened == parse(TextOf(text))
           b == FlushText(FramingOf(r)).done
           m == r.next_line
<1>1. PICK d \in Seq(Record) :
        /\ AtText(d, FramingOf(r), text)
        /\ Strip(entries) = parse_framed_records(d, n).entries
        /\ m = parse_framed_records(d, n).next
        /\ errors = overflow_count(d)
  BY DEF Matches
<1>2. /\ b \in Seq(Record) /\ Strip(out.entries) = parse_framed_records(b, m).entries
      /\ out.errors = overflow_count(b) + Len(r.carry)
  BY FinalIs
<1>3. out.entries \in Seq(Entry) /\ Len(r.carry) \in Nat
  BY FinalGives, ReaderParts
<1>4. opened = ParseRecords(d \o b)
  BY <1>1, FlushedAt
<1> HIDE DEF out, opened, b, m
<1>5. d \o b \in Seq(Record)
  BY <1>2, ConcatProperties
<1>6. /\ parse_framed_records(d \o b, n).entries
           = parse_framed_records(d, n).entries
               \o parse_framed_records(b, parse_framed_records(d, n).next).entries
  BY <1>2, ParseConcat
<1>7. overflow_count(d \o b) = overflow_count(d) + overflow_count(b)
      /\ overflow_count(d) \in Nat /\ overflow_count(b) \in Nat
  BY <1>2, OverflowConcat, OverflowType
<1>8. Strip(entries \o out.entries) = Strip(entries) \o Strip(out.entries)
  BY <1>3, StripConcat
<1> DEFINE c == d \o b
<1> HIDE DEF c
<1>9. parse_framed_records(c, n).entries = Rebased(parse_framed_records(c, 1).entries, n)
  BY <1>5, ParseShift DEF c
<1>10. opened.entries = parse_framed_records(c, 1).entries /\ opened.errors = overflow_count(c)
  BY <1>4 DEF ParseRecords, c
<1>11. Strip(entries \o out.entries) = parse_framed_records(c, n).entries
  BY <1>1, <1>2, <1>6, <1>8 DEF c
<1>12. errors + out.errors = opened.errors + Len(r.carry)
  BY <1>1, <1>2, <1>3, <1>7, <1>10 DEF c
<1> QED BY <1>9, <1>10, <1>11, <1>12 DEF out, opened

\* A reader that holds nothing back gives nothing more.
LEMMA FinalNothing ==
  ASSUME NEW r, ReaderOK(r), Emptied(r), r.carry = <<>>
  PROVE  finalize_pending_input(r).entries = <<>> /\ finalize_pending_input(r).errors = 0
<1> DEFINE out == finalize_pending_input(r)
           f == FramingOf(r)
           b == FlushText(f).done
           e == <<>>
<1>1. f.done = e /\ f.pending = None /\ f.fragment = e
  BY FramingOfReader DEF Emptied
<1>2. b = e
  <2>1. CASE Framing = "inventory"
    <3> DEFINE g == [done |-> f.done, pending |-> f.pending]
    <3>1. FlushText(f) = With(flush_pending(g), <<>>, FALSE)
      BY <1>1, <2>1 DEF FlushText, flush_pending_text
    <3>2. flush_pending(g) = g
      BY <1>1 DEF flush_pending
    <3> HIDE DEF f
    <3>3. With(g, <<>>, FALSE).done = f.done
      BY DEF With
    <3> QED BY <1>1, <3>1, <3>2, <3>3
  <2>2. CASE Framing = "line"
    <3>1. FlushText(f) = [f EXCEPT !.fragment = <<>>]
      BY <2>2 DEF FlushText
    <3>2. f \in Framings
      BY DEF ReaderOK
    <3> HIDE DEF f
    <3>3. [f EXCEPT !.fragment = <<>>].done = f.done
      BY <3>2 DEF Framings
    <3> QED BY <1>1, <3>1, <3>3
  <2> QED BY <2>1, <2>2, FramingAssumption
<1>3. /\ Strip(out.entries) = parse_framed_records(b, r.next_line).entries
      /\ out.errors = overflow_count(b) + Len(r.carry)
  BY FinalIs
<1>4. out.entries \in Seq(Entry)
  BY FinalGives
<1> HIDE DEF out, b, f
<1>5. parse_framed_records(b, r.next_line).entries = e
  <2>1. parse_framed_records(b, r.next_line) = [entries |-> <<>>, next |-> r.next_line]
    BY <1>2, ParseEmpty
  <2> QED BY <2>1
<1>6. overflow_count(b) = 0
  BY <1>2, OverflowEmpty
<1>7. Len(r.carry) = 0
  <2>1. Len(e) = 0
    OBVIOUS
  <2> QED BY <2>1
<1>8. out.errors = 0
  BY <1>3, <1>6, <1>7
<1>9. out.entries = e
  <2>1. DOMAIN Strip(out.entries) = DOMAIN out.entries
    BY DEF Strip
  <2>2. Strip(out.entries) = e
    BY <1>3, <1>5
  <2>3. DOMAIN out.entries = {}
    <3>1. DOMAIN e = {}
      OBVIOUS
    <3> QED BY <2>1, <2>2, <3>1
  <2>4. out.entries = <<>>
    <3>1. \A x \in Seq(Entry) : DOMAIN x = {} => x = <<>>
      <4>1. SUFFICES ASSUME NEW x \in Seq(Entry), DOMAIN x = {} PROVE Len(x) = 0
        BY EmptySeq
      <4>2. Len(x) \in Nat /\ DOMAIN x = 1..Len(x)
        BY LenProperties
      <4>3. Len(x) # 0 => 1 \in 1..Len(x)
        BY <4>2
      <4> QED BY <4>1, <4>2, <4>3
    <3> QED BY <1>4, <2>3, <3>1
  <2> QED BY <2>4
<1> QED BY <1>8, <1>9 DEF out

----------------------------------------------------------------------------
(* What the tail has told of the file *)

\* The bytes of a file before what a tail tells of it, those it tells, and the line it begins at.
BytesBefore(data, begin) == SubSeq(data, 1, begin)
BytesRead(data, begin, r) == SubSeq(data, begin + 1, r.byte_offset)
LineOf(data, begin) == Len(Lines(decode(BytesBefore(data, begin)))) + 1

\* The tail tells the bytes of the file from one place on, up to its offset.
Tells(data, begin, r, running, told, errors) ==
  /\ begin <= r.byte_offset /\ r.byte_offset <= Len(data)
  /\ BytesBefore(data, begin) \in Seq(Valid) /\ ~Incomplete(BytesBefore(data, begin))
  /\ OpenAtLineEnd /\ BytesBefore(data, begin) # <<>> => Last(BytesBefore(data, begin)) = "n"
  /\ BytesRead(data, begin, r) \in Seq(Valid)
  /\ running =>
       /\ r.carry = carry_of(BytesRead(data, begin, r))
       /\ Reads(told, r, decode(BytesRead(data, begin, r)), LineOf(data, begin))
       /\ FitsIn(decode(BytesRead(data, begin, r))) =>
            Matches(told, errors, r, decode(BytesRead(data, begin, r)), LineOf(data, begin))
  /\ ~running =>
       /\ r.carry = <<>>
       /\ HasRead(told, r, decode(BytesRead(data, begin, r)), LineOf(data, begin))
       /\ FitsIn(decode(BytesRead(data, begin, r))) =>
            HasMatched(told, errors, BytesRead(data, begin, r), LineOf(data, begin))

\* The entries and the errors that consumers hold of the present generation.
PresentEntries == SubSeq(view.entries, leftover.entries + 1, Len(view.entries))
PresentErrors == view.errors - leftover.errors

TailInv ==
  /\ TailTypes
  /\ leftover.entries <= Len(view.entries) /\ seen.gen <= file.gen
  /\ seen.gen = file.gen =>
       Tells(file.data, start, reader, session.running, PresentEntries, PresentErrors)

LEMMA LineOfType ==
  ASSUME NEW data, NEW begin, BytesBefore(data, begin) \in Seq(Valid)
  PROVE  LineOf(data, begin) \in Nat \ {0}
<1> DEFINE T == decode(BytesBefore(data, begin))
<1>1. T \in Seq(Char)
  BY DecodeGives
<1> HIDE DEF T
<1>2. Lines(T) \in Seq(Seq(Plain))
  BY <1>1, LinesParts
<1>3. Len(Lines(T)) \in Nat
  BY <1>2, LenProperties
<1> QED BY <1>3 DEF LineOf, T

\* Bytes written behind the offset change nothing of what is told.
LEMMA TellsAppend ==
  ASSUME NEW data \in Seq(Bytes), NEW byte \in Bytes, NEW begin \in Nat, NEW r,
         r.byte_offset \in Nat, NEW running, NEW told, NEW errors,
         Tells(data, begin, r, running, told, errors)
  PROVE  Tells(Append(data, byte), begin, r, running, told, errors)
<1> DEFINE more == Append(data, byte)
           k == r.byte_offset
<1>1. begin <= k /\ k <= Len(data) /\ Len(data) \in Nat
  BY LenProperties DEF Tells
<1>2. Len(more) = Len(data) + 1
  BY AppendProperties
<1>3. begin \in 0..Len(data) /\ k \in 0..Len(data) /\ 1 \in Nat \ {0} /\ begin + 1 \in Nat \ {0}
  BY <1>1
<1>4. SubSeq(more, 1, begin) = SubSeq(data, 1, begin)
  BY <1>3, SubSeqGrown
<1>5. SubSeq(more, begin + 1, k) = SubSeq(data, begin + 1, k)
  <2> DEFINE m == begin + 1
  <2>1. m \in Nat \ {0}
    BY <1>3
  <2> HIDE DEF m, k
  <2>2. SubSeq(more, m, k) = SubSeq(data, m, k)
    BY <1>3, <2>1, SubSeqGrown
  <2> QED BY <2>2 DEF m
<1>6. BytesBefore(more, begin) = BytesBefore(data, begin)
  BY <1>4 DEF BytesBefore
<1>7. BytesRead(more, begin, r) = BytesRead(data, begin, r)
  BY <1>5 DEF BytesRead
<1>8. LineOf(more, begin) = LineOf(data, begin)
  BY <1>6 DEF LineOf
<1>9. k <= Len(more)
  BY <1>1, <1>2
<1> HIDE DEF more
<1> QED BY <1>6, <1>7, <1>8, <1>9 DEF Tells, more

\* Readers that frame alike have read alike.
LEMMA ReadsSame ==
  ASSUME NEW r, NEW q, FramingOf(q) = FramingOf(r), q.next_line = r.next_line,
         q.fragment = r.fragment, NEW told, NEW text, NEW n, Reads(told, r, text, n)
  PROVE  Reads(told, q, text, n)
BY DEF Reads

LEMMA TellsSame ==
  ASSUME NEW r, NEW q, FramingOf(q) = FramingOf(r), q.next_line = r.next_line,
         q.fragment = r.fragment, q.byte_offset = r.byte_offset, q.carry = r.carry,
         NEW data, NEW begin, NEW told, NEW errors, Tells(data, begin, r, TRUE, told, errors)
  PROVE  Tells(data, begin, q, TRUE, told, errors)
<1>1. BytesRead(data, begin, q) = BytesRead(data, begin, r)
  BY DEF BytesRead
<1>2. Reads(told, r, decode(BytesRead(data, begin, r)), LineOf(data, begin))
  BY DEF Tells
<1>3. Reads(told, q, decode(BytesRead(data, begin, r)), LineOf(data, begin))
  BY <1>2, ReadsSame
<1>4. ASSUME FitsIn(decode(BytesRead(data, begin, r)))
      PROVE  Matches(told, errors, q, decode(BytesRead(data, begin, r)), LineOf(data, begin))
  <2>1. Matches(told, errors, r, decode(BytesRead(data, begin, r)), LineOf(data, begin))
    BY <1>4 DEF Tells
  <2> QED BY <2>1, MatchesSame
<1> QED BY <1>1, <1>3, <1>4 DEF Tells

LEMMA CarryLength ==
  ASSUME NEW bytes
  PROVE  Len(carry_of(bytes)) = IF Incomplete(bytes) THEN 1 ELSE 0
<1>1. CASE Incomplete(bytes)
  BY <1>1 DEF carry_of
<1>2. CASE ~Incomplete(bytes)
  BY <1>2 DEF carry_of
<1> QED BY <1>1, <1>2

\* The end of the tail.
LEMMA TellsFinal ==
  ASSUME NEW r, ReaderOK(r), NEW told \in Seq(Entry), NEW errors, NEW data, NEW begin,
         Tells(data, begin, r, TRUE, told, errors)
  PROVE  Tells(data, begin, finalize_pending_input(r).reader, FALSE,
               told \o finalize_pending_input(r).entries,
               errors + finalize_pending_input(r).errors)
<1> DEFINE out == finalize_pending_input(r)
           q == out.reader
           bytes == BytesRead(data, begin, r)
           T == decode(bytes)
           n == LineOf(data, begin)
<1>1. q.byte_offset = r.byte_offset /\ q.carry = <<>>
  BY FinalGives
<1>2. T \in Seq(Char) /\ n \in Nat \ {0}
  BY DecodeGives, LineOfType DEF Tells
<1>3. /\ Reads(told, r, T, n)
      /\ FitsIn(T) => Matches(told, errors, r, T, n)
      /\ r.carry = carry_of(bytes)
  BY DEF Tells
<1>4. BytesRead(data, begin, q) = bytes
  BY <1>1 DEF BytesRead
<1> HIDE DEF n, bytes
<1>5. HasRead(told \o out.entries, q, T, n)
  <2> HIDE DEF T
  <2> QED BY <1>2, <1>3, FinalReads
<1>6. ASSUME FitsIn(T)
      PROVE  HasMatched(told \o out.entries, errors + out.errors, bytes, n)
  <2>1. Matches(told, errors, r, T, n)
    BY <1>3, <1>6
  <2> HIDE DEF T
  <2>2. /\ Strip(told \o out.entries) = Rebased(parse(TextOf(T)).entries, n)
        /\ errors + out.errors = parse(TextOf(T)).errors + Len(r.carry)
    BY <1>2, <2>1, MatchesFinal
  <2>3. Len(r.carry) = IF Incomplete(bytes) THEN 1 ELSE 0
    BY <1>3, CarryLength
  <2> HIDE DEF out
  <2> QED BY <2>2, <2>3 DEF HasMatched, T
<1> HIDE DEF out, q
<1> QED BY <1>1, <1>4, <1>5, <1>6 DEF Tells, T, n, bytes, q, out

\* A read from the offset on.
LEMMA TellsMore ==
  ASSUME FileOK, ReaderOK(reader), NEW identity \in 0..MaxGen, NEW begin \in Nat,
         observed_reset(reader, identity) = "none",
         Decodes(ToDecode(reader, "none")), NEW told \in Seq(Entry), NEW errors,
         Tells(file.data, begin, reader, TRUE, told, errors)
  PROVE  LET new == NewIn(reader, "none", ToDecode(reader, "none"))
         IN Tells(file.data, begin, read_new_entries(reader, identity).reader, TRUE,
                  told \o new.entries, errors + new.errors)
<1> DEFINE reset == "none"
           data == file.data
           off == reader.byte_offset
           bytes == ToDecode(reader, reset)
           new == NewIn(reader, reset, bytes)
           q == read_new_entries(reader, identity).reader
           old == BytesRead(data, begin, reader)
           more == SubSeq(data, off + 1, Len(data))
           n == LineOf(data, begin)
           k == carry_of(old)
<1>1. data \in Seq(Bytes) /\ Len(data) \in 0..MaxLen /\ Len(data) \in Nat /\ off \in Nat
  BY FileParts, ReaderParts, BoundsAssumption
<1>2. /\ q.byte_offset = Len(data) /\ q.carry = carry_of(bytes)
      /\ q.next_line = new.reader.next_line /\ q.fragment = new.reader.fragment
      /\ FramingOf(q) = FramingOf(new.reader)
  BY <1>1, ReadGives
<1>3. /\ begin <= off /\ off <= Len(data) /\ old \in Seq(Valid)
      /\ reader.carry = k /\ Reads(told, reader, decode(old), n)
      /\ FitsIn(decode(old)) => Matches(told, errors, reader, decode(old), n)
  BY DEF Tells
<1>4. n \in Nat \ {0}
  BY LineOfType DEF Tells
<1>5. bytes \in Seq(Valid)
  BY <1>1, ToDecodeValid
<1>6. new = Took(reader, decode(bytes))
  BY ReadyGives DEF NewIn
<1>7. bytes = k \o more
  BY <1>3 DEF ToDecode
<1>8. k \in Seq(Byte) /\ old \in Seq(Byte) /\ more \in Seq(Byte) /\ data \in Seq(Byte)
  <2>1. Bytes \subseteq Byte /\ {"l"} \subseteq Byte /\ Valid \subseteq Byte
    BY BytesAssumption DEF Byte, Valid
  <2>2. data \in Seq(Byte) /\ old \in Seq(Byte) /\ k \in Seq(Byte)
    BY <1>1, <1>3, <2>1, CarryFits, SeqMonotonic
  <2>3. ASSUME NEW i \in (off + 1)..Len(data)
        PROVE  data[i] \in Byte
    BY <1>1, <2>2, <2>3, ElementOfSeq
  <2>4. off + 1 \in Int /\ Len(data) \in Int
    BY <1>1
  <2> HIDE DEF data
  <2>5. more \in Seq(Byte)
    BY <2>3, <2>4, SubSeqProperties
  <2> QED BY <2>2, <2>5
<1>9. SubSeq(data, begin + 1, Len(data)) = old \o more
  <2> DEFINE m == begin + 1
             last == Len(data)
  <2>1. m \in 1..(Len(data) + 1) /\ off \in (m - 1)..Len(data) /\ last \in off..Len(data)
    BY <1>1, <1>3
  <2>2. old = SubSeq(data, m, off)
    BY DEF BytesRead
  <2> HIDE DEF m, last, old, off, data
  <2>3. SubSeq(data, m, off) \o SubSeq(data, off + 1, last) = SubSeq(data, m, last)
    BY <1>1, <2>1, ConcatAdjacentSubSeq
  <2> QED BY <2>2, <2>3 DEF m, last
<1>10. BytesRead(data, begin, q) = old \o more
  BY <1>2, <1>9 DEF BytesRead
<1> HIDE DEF q, new, old, more, n, data, off
<1>11. /\ decode(old \o more) = decode(old) \o decode(k \o more)
       /\ carry_of(old \o more) = carry_of(k \o more)
  BY <1>8, DecodeConcat
<1> HIDE DEF k
<1>12. decode(old) \in Seq(Char) /\ decode(bytes) \in Seq(Char)
  BY <1>3, <1>5, DecodeGives
<1> HIDE DEF bytes
<1>13. Reads(told \o new.entries, new.reader, decode(old) \o decode(bytes), n)
  <2> DEFINE t == decode(old)
             u == decode(bytes)
  <2>1. t \in Seq(Char) /\ u \in Seq(Char) /\ Reads(told, reader, t, n)
    BY <1>3, <1>12
  <2> HIDE DEF t, u
  <2>2. Reads(told \o Took(reader, u).entries, Took(reader, u).reader, t \o u, n)
    BY <1>4, <2>1, ReadsMore
  <2> QED BY <1>6, <2>2 DEF t, u
<1>14. Reads(told \o new.entries, q, decode(old \o more), n)
  <2>1. decode(old \o more) = decode(old) \o decode(bytes)
    BY <1>7, <1>11
  <2> DEFINE t == decode(old) \o decode(bytes)
             a == told \o new.entries
             p == new.reader
  <2>2. Reads(a, p, t, n) /\ FramingOf(q) = FramingOf(p) /\ q.next_line = p.next_line
        /\ q.fragment = p.fragment
    BY <1>2, <1>13
  <2> HIDE DEF t, a, p
  <2>3. Reads(a, q, t, n)
    BY <2>2, ReadsSame
  <2> QED BY <2>1, <2>3 DEF t, a
<1>15. old \o more \in Seq(Valid)
  <2>1. more \in Seq(Valid)
    BY <1>5, <1>7, <1>8, RightPart
  <2> QED BY <1>3, <2>1, ConcatProperties
<1>16. begin <= q.byte_offset /\ q.byte_offset <= Len(data)
  BY <1>1, <1>2, <1>3
<1>17. q.carry = carry_of(old \o more)
  BY <1>2, <1>7, <1>11
<1>18. /\ BytesBefore(data, begin) \in Seq(Valid) /\ ~Incomplete(BytesBefore(data, begin))
       /\ OpenAtLineEnd /\ BytesBefore(data, begin) # <<>> => Last(BytesBefore(data, begin)) = "n"
  BY DEF Tells, data
<1>19. ASSUME FitsIn(decode(old \o more))
       PROVE  Matches(told \o new.entries, errors + new.errors, q, decode(old \o more), n)
  <2> DEFINE t == decode(old)
             u == decode(bytes)
             both == t \o u
             a == told \o new.entries
             m == errors + new.errors
             p == new.reader
  <2>1. decode(old \o more) = both
    BY <1>7, <1>11
  <2>2. t \in Seq(Char) /\ u \in Seq(Char) /\ FitsIn(both)
        /\ (FitsIn(t) => Matches(told, errors, reader, t, n))
    BY <1>3, <1>12, <1>19, <2>1
  <2>3. new = Took(reader, u)
    BY <1>6
  <2> HIDE DEF t, u
  <2>4. Matches(told \o Took(reader, u).entries, errors + Took(reader, u).errors,
                Took(reader, u).reader, t \o u, n)
    BY <1>4, <2>2, MatchesMore
  <2>5. Matches(a, m, p, both, n) /\ FramingOf(q) = FramingOf(p) /\ q.next_line = p.next_line
    BY <1>2, <2>3, <2>4
  <2> HIDE DEF a, m, p, both
  <2>6. Matches(a, m, q, both, n)
    BY <2>5, MatchesSame
  <2> QED BY <2>1, <2>6 DEF a, m
<1>20. Tells(data, begin, q, TRUE, told \o new.entries, errors + new.errors)
  BY <1>10, <1>14, <1>15, <1>16, <1>17, <1>18, <1>19 DEF Tells, n
<1> QED BY <1>20 DEF q, new, bytes, data

\* A read after a reset begins the file again.
LEMMA TellsFresh ==
  ASSUME FileOK, ReaderOK(reader), NEW identity \in 0..MaxGen, NEW reset,
         reset = observed_reset(reader, identity), reset # "none",
         Decodes(ToDecode(reader, reset))
  PROVE  LET new == NewIn(reader, reset, ToDecode(reader, reset))
         IN Tells(file.data, 0, read_new_entries(reader, identity).reader, TRUE, new.entries,
                  new.errors)
<1> DEFINE data == file.data
           bytes == ToDecode(reader, reset)
           new == NewIn(reader, reset, bytes)
           ready == ReadyFor(reader, reset)
           q == read_new_entries(reader, identity).reader
           e == <<>>
<1>1. data \in Seq(Bytes) /\ Len(data) \in 0..MaxLen /\ Len(data) \in Nat
  BY FileParts, BoundsAssumption
<1>2. /\ q.byte_offset = Len(data) /\ q.carry = carry_of(bytes)
      /\ q.next_line = new.reader.next_line /\ q.fragment = new.reader.fragment
      /\ FramingOf(q) = FramingOf(new.reader) /\ new.entries \in Seq(Entry)
      /\ new.errors \in Nat
  BY <1>1, ReadGives
<1>3. bytes = data
  BY DEF ToDecode
<1>4. bytes \in Seq(Valid)
  BY <1>1, ToDecodeValid
<1>5. ReaderOK(ready) /\ Emptied(ready) /\ ready.next_line = 1
  BY ReadyGives
<1>6. new = Took(ready, decode(bytes))
  BY DEF NewIn
<1>7. BytesBefore(data, 0) = e
  BY SubSeqEmpty DEF BytesBefore
<1>8. /\ e \in Seq(Valid) /\ e \in Seq(Entry) /\ e \in Seq(Char)
      /\ ~Incomplete(e) /\ Len(Lines(decode(e))) = 0
  BY EmptySeq, EmptyGives
<1>9. LineOf(data, 0) = 1
  BY <1>7, <1>8 DEF LineOf
<1>10. BytesRead(data, 0, q) = bytes
  <2>1. SubSeq(data, 1, Len(data)) = data
    BY <1>1, SubSeqFull
  <2> QED BY <1>2, <1>3, <2>1 DEF BytesRead
<1>11. decode(bytes) \in Seq(Char)
  BY <1>4, DecodeGives
<1>12. Reads(e, ready, e, 1)
  <2>1. Reads(e, ready, e, ready.next_line)
    BY <1>5, ReadsNothing
  <2> QED BY <1>5, <2>1
<1> HIDE DEF q, new, ready, bytes, e
<1>13. Reads(new.entries, new.reader, decode(bytes), 1)
  <2> DEFINE u == decode(bytes)
             o == Took(ready, u)
  <2>1. Reads(e \o o.entries, o.reader, e \o u, 1)
    <3>1. u \in Seq(Char) /\ 1 \in Nat \ {0}
      BY <1>11
    <3> HIDE DEF u
    <3> QED BY <1>5, <1>8, <1>12, <3>1, ReadsMore
  <2>2. o = new
    BY <1>6
  <2> HIDE DEF u, o
  <2>3. e \o o.entries = o.entries /\ e \o u = u
    BY <1>2, <1>11, <2>2, ConcatEmptySeq DEF u, e
  <2> QED BY <2>1, <2>2, <2>3 DEF u
<1>14. Reads(new.entries, q, decode(bytes), 1)
  <2> DEFINE t == decode(bytes)
             p == new.reader
  <2> HIDE DEF t, p
  <2>1. Reads(new.entries, p, t, 1) /\ FramingOf(q) = FramingOf(p) /\ q.next_line = p.next_line
        /\ q.fragment = p.fragment
    BY <1>2, <1>13 DEF t, p
  <2>2. Reads(new.entries, q, t, 1)
    BY <2>1, ReadsSame
  <2> QED BY <2>2 DEF t
<1>15. 0 <= q.byte_offset /\ q.byte_offset <= Len(data)
  BY <1>1, <1>2
<1>16. ASSUME FitsIn(decode(bytes))
       PROVE  Matches(new.entries, new.errors, q, decode(bytes), 1)
  <2> DEFINE u == decode(bytes)
             o == Took(ready, u)
             p == new.reader
             z == new.errors
             a == new.entries
  <2>1. Matches(e, 0, ready, e, 1)
    <3>1. Matches(e, 0, ready, e, ready.next_line)
      BY <1>5, MatchesNothing DEF e
    <3> QED BY <1>5, <3>1
  <2>2. e \o u = u /\ e \o a = a /\ 0 + z = z
    BY <1>2, <1>11, ConcatEmptySeq DEF e
  <2>3. o = new /\ FitsIn(e \o u) /\ u \in Seq(Char)
    BY <1>6, <1>11, <1>16, <2>2
  <2>4. 1 \in Nat \ {0} /\ 0 \in Nat
    OBVIOUS
  <2> HIDE DEF u
  <2>5. Matches(e \o o.entries, 0 + o.errors, o.reader, e \o u, 1)
    BY <1>5, <1>8, <2>1, <2>3, <2>4, MatchesMore
  <2>6. Matches(a, z, p, u, 1)
    <3> HIDE DEF o, a, p, z
    <3>1. o.entries = a /\ o.errors = z /\ o.reader = p
      BY <2>3 DEF a, p, z
    <3> QED BY <2>2, <2>5, <3>1, Zenon
  <2>7. FramingOf(q) = FramingOf(p) /\ q.next_line = p.next_line
    BY <1>2
  <2> HIDE DEF a, p, z
  <2>8. Matches(a, z, q, u, 1)
    BY <2>6, <2>7, MatchesSame
  <2> QED BY <2>8 DEF a, z, u
<1>17. Tells(data, 0, q, TRUE, new.entries, new.errors)
  <2> HIDE DEF data
  <2> QED BY <1>2, <1>4, <1>7, <1>8, <1>9, <1>10, <1>14, <1>15, <1>16 DEF Tells, e
<1> QED BY <1>17 DEF q, new, bytes

----------------------------------------------------------------------------
(* The tail tells what it has read *)

LEMMA InitTells == Init => TailInv
<1> SUFFICES ASSUME Init PROVE TailInv
  OBVIOUS
<1> DEFINE data == file.data
           k == Len(data)
           e == <<>>
           r == reader
           n == LineOf(data, k)
<1>1. /\ TailTypes /\ Emptied(r) /\ r.carry = <<>>
      /\ data \in Opened /\ start = k /\ r.byte_offset = start
      /\ r.next_line = Len(Lines(decode(data))) + 1
      /\ data \in Seq(Valid) /\ ~Incomplete(data)
      /\ view.entries = <<>> /\ leftover.entries = 0
  BY InitGives
<1>2. /\ session.running /\ seen.gen = 1 /\ file.gen = 1
      /\ view.errors = 0 /\ leftover.errors = 0
  BY DEF Init
<1>3. ReaderOK(r)
  BY <1>1 DEF TailTypes
<1>4. k \in Nat /\ BytesBefore(data, k) = data
  <2>1. SubSeq(data, 1, Len(data)) = data /\ Len(data) \in Nat
    BY <1>1, SubSeqFull, LenProperties
  <2> QED BY <2>1 DEF BytesBefore
<1>5. BytesRead(data, k, r) = e
  <2>1. k < k + 1 /\ k + 1 \in Int
    BY <1>4
  <2> HIDE DEF k
  <2>2. SubSeq(data, k + 1, k) = <<>>
    BY <1>4, <2>1, SubSeqEmpty
  <2> QED BY <1>1, <2>2 DEF BytesRead
<1>6. r.next_line = n
  BY <1>1, <1>4 DEF LineOf
<1>7. decode(e) = e /\ carry_of(e) = e /\ e \in Seq(Valid)
  BY EmptyGives, EmptySeq
<1>8. Reads(e, r, e, n)
  <2>1. Reads(e, r, e, r.next_line)
    BY <1>1, <1>3, ReadsNothing
  <2> HIDE DEF n, e, r
  <2> QED BY <1>6, <2>1
<1>9. OpenAtLineEnd /\ data # <<>> => Last(data) = "n"
  BY <1>1 DEF Opened
<1>15. Matches(e, 0, r, e, n)
  <2>1. Matches(e, 0, r, e, r.next_line)
    BY <1>1, MatchesNothing
  <2> HIDE DEF n, e, r
  <2> QED BY <1>6, <2>1
<1>10. PresentEntries = e /\ PresentErrors = 0
  <2>1. SubSeq(e, 0 + 1, Len(e)) = e
    BY SubSeqEmpty
  <2> QED BY <1>1, <1>2, <2>1 DEF PresentEntries, PresentErrors
<1> HIDE DEF r, n, e
<1>11. Tells(data, k, r, TRUE, e, 0)
  <2>1. k <= r.byte_offset /\ r.byte_offset <= Len(data)
    BY <1>1, <1>4
  <2> HIDE DEF data, k
  <2>2. r.carry = e
    BY <1>1 DEF e
  <2>3. r.carry = carry_of(BytesRead(data, k, r)) /\ BytesRead(data, k, r) \in Seq(Valid)
    BY <1>5, <1>7, <2>2
  <2>4. Reads(e, r, decode(BytesRead(data, k, r)), LineOf(data, k))
    BY <1>5, <1>7, <1>8 DEF n
  <2>5. /\ BytesBefore(data, k) \in Seq(Valid) /\ ~Incomplete(BytesBefore(data, k))
        /\ OpenAtLineEnd /\ BytesBefore(data, k) # <<>> => Last(BytesBefore(data, k)) = "n"
    BY <1>1, <1>4, <1>9
  <2>6. Matches(e, 0, r, decode(BytesRead(data, k, r)), LineOf(data, k))
    BY <1>5, <1>7, <1>15 DEF n
  <2> QED BY <2>1, <2>3, <2>4, <2>5, <2>6 DEF Tells
<1>12. Tells(file.data, start, reader, session.running, PresentEntries, PresentErrors)
  <2>1. session.running = TRUE
    <3>1. session.running \in BOOLEAN
      BY <1>1 DEF TailTypes, RestOK, Session
    <3> QED BY <1>2, <3>1
  <2> QED BY <1>1, <1>10, <1>11, <2>1 DEF r
<1>13. leftover.entries <= Len(view.entries)
  <2>1. 0 <= Len(<<>>)
    OBVIOUS
  <2> QED BY <1>1, <2>1
<1>14. seen.gen <= file.gen
  BY <1>2
<1> HIDE DEF data, k
<1> QED BY <1>14, <1>1, <1>2, <1>12, <1>13 DEF TailInv

LEMMA StepTells ==
  ASSUME TailInv, [Next]_vars
  PROVE  TailInv'
<1>0. /\ TailTypes /\ FileOK /\ ReaderOK(reader) /\ RestOK
      /\ leftover.entries <= Len(view.entries) /\ seen.gen <= file.gen
      /\ seen.gen = file.gen =>
           Tells(file.data, start, reader, session.running, PresentEntries, PresentErrors)
  BY DEF TailInv, TailTypes
<1>t. TailTypes'
  BY <1>0, StepTypes
<1>a. /\ file.data \in Seq(Bytes) /\ file.gen \in 1..MaxGen /\ current_identity \subseteq 0..MaxGen
  BY <1>0, FileParts
<1>b. /\ view.entries \in Seq(Entry) /\ session \in Session /\ leftover.entries \in Nat
      /\ Len(view.entries) \in Nat /\ seen.gen \in Nat /\ start \in Nat
      /\ session.running \in BOOLEAN /\ view.errors \in Nat /\ leftover.errors \in Nat
  <2>1. view.entries \in Seq(Entry) /\ session \in Session /\ leftover.entries \in Nat
        /\ start \in 0..MaxLen /\ view.errors \in Nat /\ leftover.errors \in Nat
    BY <1>0 DEF RestOK
  <2>2. seen.gen \in 1..MaxGen
    BY <1>0 DEF RestOK
  <2>3. seen.gen \in Nat /\ start \in Nat
    BY <2>1, <2>2, BoundsAssumption
  <2>4. Len(view.entries) \in Nat
    BY <2>1, LenProperties
  <2> QED BY <2>1, <2>3, <2>4 DEF Session
<1>c. PresentEntries \in Seq(Entry)
  <2> DEFINE v == view.entries
             m == leftover.entries + 1
             l == Len(v)
  <2>1. \A i \in m..l : i \in 1..Len(v)
    BY <1>b
  <2>2. \A i \in m..l : v[i] \in Entry
    BY <1>b, <2>1, ElementOfSeq
  <2>3. m \in Int /\ l \in Int
    BY <1>b
  <2> HIDE DEF v, m, l
  <2>4. SubSeq(v, m, l) \in Seq(Entry)
    BY <2>2, <2>3, SubSeqProperties
  <2> QED BY <2>4 DEF PresentEntries, v, m, l
<1>d. reader.byte_offset \in Nat
  BY <1>0, ReaderParts, BoundsAssumption
\* A step that leaves the entries alone.
<1>e. UNCHANGED <<view, leftover>> =>
        PresentEntries' = PresentEntries /\ PresentErrors' = PresentErrors
  BY DEF PresentEntries, PresentErrors
\* The entries of a batch that resets nothing follow those there were.
<1>f. ASSUME NEW more \in Seq(Entry), view'.entries = view.entries \o more,
             leftover' = leftover
      PROVE  /\ PresentEntries' = PresentEntries \o more
             /\ leftover'.entries <= Len(view'.entries)
  <2> DEFINE v == view.entries
             k == leftover.entries
  <2>1. k \in 0..Len(v) /\ v \in Seq(Entry)
    BY <1>0, <1>b
  <2> HIDE DEF v, k
  <2>2. SubSeq(v \o more, k + 1, Len(v \o more)) = SubSeq(v, k + 1, Len(v)) \o more
    BY <2>1, SubSeqTail
  <2>3. Len(v \o more) = Len(v) + Len(more) /\ Len(v) \in Nat /\ Len(more) \in Nat
    BY <2>1, ConcatProperties, LenProperties
  <2>4. k <= Len(v \o more)
    BY <2>1, <2>3
  <2>5. view'.entries = v \o more /\ leftover'.entries = k
    BY <1>f DEF v, k
  <2>6. PresentEntries = SubSeq(v, k + 1, Len(v))
    BY DEF PresentEntries, v, k
  <2>7. PresentEntries' = SubSeq(v \o more, k + 1, Len(v \o more))
    BY <2>5 DEF PresentEntries
  <2> QED BY <2>2, <2>4, <2>5, <2>6, <2>7
<1>i. ASSUME NEW more \in Nat, view'.errors = view.errors + more, leftover' = leftover
      PROVE  PresentErrors' = PresentErrors + more
  <2>1. PresentErrors' = (view.errors + more) - leftover.errors
    BY <1>i DEF PresentErrors
  <2> QED BY <1>b, <2>1 DEF PresentErrors
\* A poll finds the thread running, and leaves it so.
<1>g. ASSUME Polls, LoopsBack
      PROVE  session.running = TRUE /\ session'.running = TRUE
  BY <1>b, <1>g, LoopsBackType DEF Polls
<1>h. ASSUME NEW q, reader' = q, FramingOf(q) = FramingOf(reader), q.next_line = reader.next_line,
             q.fragment = reader.fragment, q.byte_offset = reader.byte_offset,
             q.carry = reader.carry, UNCHANGED <<file, view, start, seen, leftover>>,
             Polls, LoopsBack
      PROVE  TailInv'
  <2>1. ASSUME seen.gen = file.gen
        PROVE  Tells(file.data, start, q, TRUE, PresentEntries, PresentErrors)
    <3>1. Tells(file.data, start, reader, TRUE, PresentEntries, PresentErrors)
      BY <1>0, <1>g, <1>h, <2>1
    <3> QED BY <1>h, <3>1, TellsSame
  <2>2. /\ PresentEntries' = PresentEntries /\ PresentErrors' = PresentErrors
        /\ session'.running = TRUE
    BY <1>e, <1>g, <1>h
  <2>3. (seen.gen = file.gen =>
            Tells(file.data, start, reader, session.running, PresentEntries, PresentErrors))'
    BY <1>h, <2>1, <2>2
  <2> QED BY <1>0, <1>h, <1>t, <2>3 DEF TailInv
<1>1. CASE pollNothing
  <2>1. PICK identity \in current_identity : reader' = [reader EXCEPT !.file_identity = identity]
    BY <1>1 DEF pollNothing
  <2> DEFINE q == [reader EXCEPT !.file_identity = identity]
  <2>2. reader \in Reader
    BY <1>0, ReaderParts
  <2>3. /\ q.next_line = reader.next_line /\ q.fragment = reader.fragment
        /\ q.byte_offset = reader.byte_offset /\ q.carry = reader.carry
        /\ q.pending = reader.pending /\ q.continuation = reader.continuation
    BY <2>2 DEF Reader
  <2>4. reader' = q
    BY <2>1
  <2>5. UNCHANGED <<file, view, start, seen, leftover>> /\ Polls /\ LoopsBack
    BY <1>1 DEF pollNothing
  <2> HIDE DEF q
  <2>6. FramingOf(q) = FramingOf(reader)
    BY <2>3 DEF FramingOf
  <2> QED BY <1>h, <2>3, <2>4, <2>5, <2>6
<1>2. CASE pollReads
  <2>1. PICK identity \in current_identity :
          LET reset == observed_reset(reader, identity)
              read == read_new_entries(reader, identity)
          IN /\ Readable(identity)
             /\ reader' = read.reader
             /\ view' = Applied(view, read.batch)
             /\ start' = IF reset = "none" THEN start ELSE 0
             /\ seen' = IF reset = "none" THEN seen
                        ELSE [gen |-> file.gen, identity |-> file.identity]
             /\ leftover' =
                  IF reset = "none" THEN leftover
                  ELSE LET old == LeftBehind(reader, reset)
                       IN [entries |-> Len(old.entries), errors |-> old.errors]
    BY <1>2 DEF pollReads
  <2> DEFINE reset == observed_reset(reader, identity)
             out == read_new_entries(reader, identity)
             left == LeftBehind(reader, reset)
             new == NewIn(reader, reset, ToDecode(reader, reset))
             q == out.reader
  <2>2. identity \in 0..MaxGen /\ Decodes(ToDecode(reader, reset))
    BY <1>a, <2>1 DEF Readable
  <2>3. /\ out.batch = [entries |-> left.entries \o new.entries,
                        errors |-> left.errors + new.errors, reset |-> reset # "none"]
        /\ left.entries \in Seq(Entry) /\ new.entries \in Seq(Entry)
        /\ left.errors \in Nat /\ new.errors \in Nat
    BY <1>0, <1>a, <2>2, FileParts, ReadGives
  <2>4. reader' = q /\ view' = Applied(view, out.batch)
    BY <2>1
  <2>5. file' = file /\ session.running = TRUE /\ session'.running = TRUE
    BY <1>2, <1>g DEF pollReads
  <2>6. CASE reset = "none"
    <3>1. start' = start /\ seen' = seen /\ leftover' = leftover
      BY <2>1, <2>6
    <3>2. left.entries = <<>> /\ left.errors = 0
      <4>1. left.entries = <<>>
        BY <1>0, <2>6, LeftGives
      <4>2. left = [reader |-> reader, entries |-> <<>>, errors |-> 0]
        BY <2>6 DEF LeftBehind
      <4> HIDE DEF left
      <4> QED BY <4>1, <4>2
    <3>3. /\ out.batch.entries = left.entries \o new.entries /\ out.batch.reset = FALSE
          /\ out.batch.errors = left.errors + new.errors
      <4> DEFINE x == reset # "none"
      <4>1. x = FALSE
        BY <2>6, Zenon
      <4> HIDE DEF x, left, new, out
      <4>2. out.batch = [entries |-> left.entries \o new.entries,
                         errors |-> left.errors + new.errors, reset |-> x]
        BY <2>3 DEF x
      <4> DEFINE b == out.batch
                 a == left.entries \o new.entries
                 m == left.errors + new.errors
      <4>3. b = [entries |-> a, errors |-> m, reset |-> x]
        BY <4>2
      <4> HIDE DEF a, b, m
      <4>4. b.entries = a /\ b.reset = x /\ b.errors = m
        BY <4>3
      <4> QED BY <4>1, <4>4 DEF a, b, m
    <3>4. seen.gen = file.gen =>
            Tells(file.data, start, q, TRUE, PresentEntries \o new.entries,
                  PresentErrors + new.errors)
      BY <1>0, <1>b, <1>c, <2>2, <2>5, <2>6, TellsMore
    <3> HIDE DEF out, left, new, q
    <3>5. out.batch.entries = new.entries
      BY <2>3, <3>2, <3>3, ConcatEmptySeq
    <3>6. view'.entries = view.entries \o new.entries /\ view'.errors = view.errors + new.errors
      <4>1. out.batch.errors = new.errors
        BY <2>3, <3>2, <3>3
      <4> QED BY <2>4, <3>3, <3>5, <4>1 DEF Applied
    <3>7. /\ PresentEntries' = PresentEntries \o new.entries
          /\ leftover'.entries <= Len(view'.entries)
          /\ PresentErrors' = PresentErrors + new.errors
      <4>1. PresentErrors' = PresentErrors + new.errors
        BY <1>i, <2>3, <3>1, <3>6
      <4> QED BY <1>f, <2>3, <3>1, <3>6, <4>1
    <3>8. (seen.gen = file.gen =>
            Tells(file.data, start, reader, session.running, PresentEntries, PresentErrors))'
      BY <2>4, <2>5, <3>1, <3>4, <3>7
    <3> QED BY <1>0, <1>t, <2>5, <3>1, <3>7, <3>8 DEF TailInv
  <2>7. CASE reset # "none"
    <3>1. /\ start' = 0 /\ seen'.gen = file.gen /\ leftover'.entries = Len(left.entries)
          /\ leftover'.errors = left.errors
      BY <2>1, <2>7
    <3>2. /\ out.batch.entries = left.entries \o new.entries /\ out.batch.reset = TRUE
          /\ out.batch.errors = left.errors + new.errors
      <4> DEFINE x == reset # "none"
      <4>1. x = TRUE
        BY <2>7, Zenon
      <4> HIDE DEF x, left, new, out
      <4>2. out.batch = [entries |-> left.entries \o new.entries,
                         errors |-> left.errors + new.errors, reset |-> x]
        BY <2>3 DEF x
      <4> DEFINE b == out.batch
                 a == left.entries \o new.entries
                 m == left.errors + new.errors
      <4>3. b = [entries |-> a, errors |-> m, reset |-> x]
        BY <4>2
      <4> HIDE DEF a, b, m
      <4>4. b.entries = a /\ b.reset = x /\ b.errors = m
        BY <4>3
      <4> QED BY <4>1, <4>4 DEF a, b, m
    <3>3. Tells(file.data, 0, q, TRUE, new.entries, new.errors)
      BY <1>0, <2>2, <2>7, TellsFresh
    <3> HIDE DEF out, left, new, q
    <3> DEFINE v == left.entries
               t == new.entries
               k == Len(v)
    <3>4. view'.entries = v \o t /\ view'.errors = left.errors + new.errors
      BY <2>4, <3>2 DEF Applied
    <3>8. PresentErrors' = new.errors
      <4>1. PresentErrors' = (left.errors + new.errors) - left.errors
        BY <3>1, <3>4 DEF PresentErrors
      <4> QED BY <2>3, <4>1
    <3>5. PresentEntries' = t /\ leftover'.entries <= Len(view'.entries)
      <4>1. k \in 0..Len(v) /\ k \in Nat /\ k <= k /\ t \in Seq(Entry) /\ v \in Seq(Entry)
        BY <2>3, LenProperties
      <4>2. PresentEntries' = SubSeq(v \o t, k + 1, Len(v \o t))
        BY <3>1, <3>4 DEF PresentEntries
      <4>3. Len(v \o t) = Len(v) + Len(t) /\ Len(t) \in Nat
        BY <4>1, ConcatProperties, LenProperties
      <4>a. leftover'.entries = k /\ Len(v) = k
        BY <3>1
      <4> HIDE DEF k, v, t
      <4>4. k <= Len(v \o t)
        BY <4>1, <4>3, <4>a
      <4>5. SubSeq(v \o t, k + 1, Len(v \o t)) = SubSeq(v, k + 1, Len(v)) \o t
        BY <4>1, SubSeqTail
      <4>6. SubSeq(v, k + 1, k) = <<>>
        <5>1. k + 1 \in Int /\ k < k + 1 /\ k \in Int
          BY <4>1
        <5> QED BY <5>1, SubSeqEmpty
      <4>7. <<>> \o t = t
        BY <4>1, ConcatEmptySeq
      <4> QED BY <3>4, <4>2, <4>4, <4>a, <4>5, <4>6, <4>7
    <3>6. (seen.gen = file.gen =>
            Tells(file.data, start, reader, session.running, PresentEntries, PresentErrors))'
      BY <2>4, <2>5, <3>1, <3>3, <3>5, <3>8
    <3>7. (seen.gen <= file.gen)'
      BY <1>a, <2>5, <3>1
    <3> QED BY <1>t, <3>5, <3>6, <3>7 DEF TailInv
  <2> QED BY <2>6, <2>7
<1>3. CASE pollFails
  <2>1. PICK identity \in current_identity :
          reader' = [reader EXCEPT !.pending_reset = observed_reset(reader, identity)]
    BY <1>3 DEF pollFails
  <2> DEFINE q == [reader EXCEPT !.pending_reset = observed_reset(reader, identity)]
  <2>2. reader \in Reader
    BY <1>0, ReaderParts
  <2>3. /\ q.next_line = reader.next_line /\ q.fragment = reader.fragment
        /\ q.byte_offset = reader.byte_offset /\ q.carry = reader.carry
        /\ q.pending = reader.pending /\ q.continuation = reader.continuation
    BY <2>2 DEF Reader
  <2>4. reader' = q
    BY <2>1
  <2>5. UNCHANGED <<file, view, start, seen, leftover>> /\ Polls /\ LoopsBack
    BY <1>3 DEF pollFails
  <2> HIDE DEF q
  <2>6. FramingOf(q) = FramingOf(reader)
    BY <2>3 DEF FramingOf
  <2> QED BY <1>h, <2>3, <2>4, <2>5, <2>6
<1>4. CASE set_paused \/ stop
  <2>1. UNCHANGED <<file, reader, view, start, seen, leftover>>
    BY <1>4 DEF set_paused, stop
  <2>2. session'.running = session.running
    <3>1. CASE set_paused
      <4>1. session' = [[session EXCEPT !.paused = ~session.paused] EXCEPT
                          !.toggles = session.toggles + 1]
        BY <3>1 DEF set_paused
      <4> QED BY <1>b, <4>1 DEF Session
    <3>2. CASE stop
      BY <1>b, <3>2 DEF stop, Session
    <3> QED BY <1>4, <3>1, <3>2
  <2>3. PresentEntries' = PresentEntries /\ PresentErrors' = PresentErrors
    BY <1>e, <2>1
  <2> QED BY <1>0, <1>t, <2>1, <2>2, <2>3 DEF TailInv
<1>5. CASE emit_final_tail_batch
  <2> DEFINE final == finalize_pending_input(reader)
             b == [entries |-> final.entries, errors |-> final.errors, reset |-> FALSE]
  <2>1. /\ reader' = final.reader /\ batch' = b /\ view' = Applied(view, b)
        /\ session.running /\ UNCHANGED <<file, start, seen, leftover>>
    BY <1>5 DEF emit_final_tail_batch
  <2>2. session'.running = FALSE /\ session.running = TRUE
    BY <1>5, <1>b DEF emit_final_tail_batch, Session
  <2>3. final.entries \in Seq(Entry) /\ final.errors \in Nat
    BY <1>0, FinalGives
  <2>4. seen.gen = file.gen =>
          Tells(file.data, start, final.reader, FALSE, PresentEntries \o final.entries,
                PresentErrors + final.errors)
    <3> SUFFICES ASSUME seen.gen = file.gen
                 PROVE  Tells(file.data, start, final.reader, FALSE,
                              PresentEntries \o final.entries, PresentErrors + final.errors)
      OBVIOUS
    <3>1. Tells(file.data, start, reader, TRUE, PresentEntries, PresentErrors)
      BY <1>0, <2>2
    <3> QED BY <1>0, <1>c, <3>1, TellsFinal
  <2> HIDE DEF final
  <2>5. view'.entries = view.entries \o final.entries /\ view'.errors = view.errors + final.errors
    BY <2>1 DEF Applied
  <2>6. /\ PresentEntries' = PresentEntries \o final.entries
        /\ leftover'.entries <= Len(view'.entries)
        /\ PresentErrors' = PresentErrors + final.errors
    <3>1. PresentErrors' = PresentErrors + final.errors
      BY <1>i, <2>1, <2>3, <2>5
    <3> QED BY <1>f, <2>1, <2>3, <2>5, <3>1
  <2>7. (seen.gen = file.gen =>
            Tells(file.data, start, reader, session.running, PresentEntries, PresentErrors))'
    BY <2>1, <2>2, <2>4, <2>6
  <2> QED BY <1>0, <1>t, <2>1, <2>6, <2>7 DEF TailInv
<1>6. CASE appendByte
  <2>1. PICK byte \in Bytes :
          file' = [file EXCEPT !.data = Append(file.data, byte), !.written = file.written + 1]
    BY <1>6 DEF appendByte
  <2>2. UNCHANGED <<reader, session, view, start, seen, leftover>>
    BY <1>6 DEF appendByte
  <2>3. file'.data = Append(file.data, byte) /\ file'.gen = file.gen
    BY <1>0, <2>1 DEF FileOK, File
  <2>4. PresentEntries' = PresentEntries /\ PresentErrors' = PresentErrors
    BY <1>e, <2>2
  <2>5. seen.gen = file.gen =>
          Tells(Append(file.data, byte), start, reader, session.running, PresentEntries,
                PresentErrors)
    BY <1>0, <1>a, <1>b, <1>d, TellsAppend
  <2>6. (seen.gen = file.gen =>
            Tells(file.data, start, reader, session.running, PresentEntries, PresentErrors))'
    BY <2>2, <2>3, <2>4, <2>5
  <2> QED BY <1>0, <1>t, <2>2, <2>3, <2>6 DEF TailInv
<1>7. CASE replaceFile \/ truncateFile
  <2>1. UNCHANGED <<reader, session, view, start, seen, leftover>>
    BY <1>7 DEF replaceFile, truncateFile
  <2>2. file'.gen = file.gen + 1
    <3> DEFINE g == file.gen + 1
    <3>1. CASE replaceFile
      <4>1. file' = [[[file EXCEPT !.data = <<>>] EXCEPT !.identity = g] EXCEPT !.gen = g]
        BY <3>1 DEF replaceFile
      <4> HIDE DEF g
      <4>2. file'.gen = g
        BY <1>0, <4>1 DEF FileOK, File
      <4> QED BY <4>2 DEF g
    <3>2. CASE truncateFile
      <4>1. file' = [[file EXCEPT !.data = <<>>] EXCEPT !.gen = g]
        BY <3>2 DEF truncateFile
      <4> HIDE DEF g
      <4>2. file'.gen = g
        BY <1>0, <4>1 DEF FileOK, File
      <4> QED BY <4>2 DEF g
    <3> QED BY <1>7, <3>1, <3>2
  <2>3. (seen.gen <= file.gen)' /\ (seen.gen # file.gen)'
    BY <1>0, <1>a, <1>b, <2>1, <2>2
  <2> QED BY <1>0, <1>t, <2>1, <2>3 DEF TailInv
<1>8. CASE UNCHANGED vars
  <2>1. UNCHANGED <<file, reader, session, view, start, seen, leftover>>
    BY <1>8 DEF vars
  <2>2. PresentEntries' = PresentEntries /\ PresentErrors' = PresentErrors
    BY <1>e, <2>1
  <2> QED BY <1>0, <1>t, <2>1, <2>2 DEF TailInv
<1> QED BY <1>1, <1>2, <1>3, <1>4, <1>5, <1>6, <1>7, <1>8 DEF Next, Poll, FileStep

----------------------------------------------------------------------------
(* What the tail shows *)

\* A file that was opened at the end of a line: the tail begins at the line after its newlines.
LEMMA LineOfOpened ==
  ASSUME NEW data, NEW begin, OpenAtLineEnd,
         BytesBefore(data, begin) \in Seq(Valid), ~Incomplete(BytesBefore(data, begin)),
         BytesBefore(data, begin) # <<>> => Last(BytesBefore(data, begin)) = "n"
  PROVE  LineOf(data, begin) = Newlines(SubSeq(data, 1, begin)) + 1
<1> DEFINE b == BytesBefore(data, begin)
           T == decode(b)
<1>1. b \in Seq(Valid) /\ ~Incomplete(b) /\ (b # <<>> => Last(b) = "n")
  OBVIOUS
<1> HIDE DEF b
<1>2. T \in Seq(Char) /\ Newlines(T) = Newlines(b)
  BY <1>1, DecodeGives
<1>3. ~Unended(T)
  <2>1. CASE b = <<>>
    <3>1. T = <<>>
      BY <2>1, EmptyGives
    <3> QED BY <3>1, EmptyGives
  <2>2. CASE b # <<>>
    <3> DEFINE s == Front(b)
               c == "n"
    <3>1. b = Append(s, Last(b)) /\ s \in Seq(Valid)
      BY <1>1, <2>2, FrontLast
    <3>2. b = Append(s, c) /\ s \in Seq(Byte) /\ c \in Byte /\ c # "t"
      <4>1. Valid \subseteq Byte
        BY DEF Valid
      <4>2. s \in Seq(Byte)
        BY <3>1, <4>1, SeqMonotonic
      <4>3. Append(s, Last(b)) = Append(s, c)
        BY <1>1, <2>2
      <4>4. b = Append(s, c)
        BY <3>1, <4>3, Zenon
      <4> QED BY <4>2, <4>4 DEF Byte
    <3> HIDE DEF s
    <3>3. T = Chars(b)
      BY <1>1, DecodeIsChars DEF Whole
    <3>4. Chars(Append(s, c)) = Append(Chars(s), CharOf(c)) /\ Chars(s) \in Seq(Char \cup {"b"})
      BY <3>2, CharsAppend
    <3>5. CharOf(c) = c /\ c \in Char \cup {"b"}
      BY DEF CharOf, Char
    <3> HIDE DEF c, T
    <3>6. T = Append(Chars(s), c)
      BY <3>2, <3>3, <3>4, <3>5
    <3>7. Last(T) = c
      BY <3>4, <3>5, <3>6, FrontLastOfAppend
    <3> QED BY <3>7 DEF Unended, c
  <2> QED BY <2>1, <2>2
<1> HIDE DEF T
<1> DEFINE y == IF Unended(T) THEN 1 ELSE 0
<1>4. y = 0
  BY <1>3, Zenon
<1>5. Len(Lines(T)) = Newlines(T) + y
  BY <1>2, LinesCount
<1>6. Newlines(T) \in Nat
  BY <1>2, NewlinesType
<1> HIDE DEF y
<1>7. Len(Lines(T)) = Newlines(b)
  BY <1>2, <1>4, <1>5, <1>6
<1> QED BY <1>7 DEF LineOf, BytesBefore, T, b

\* What consumers would hold if the tail ended now.
LEMMA ShownGives ==
  ASSUME TailInv
  PROVE  seen.gen = file.gen =>
           /\ HasRead(Shown, Final.reader, decode(TailBytes), LineOf(file.data, start))
           /\ FitsIn(decode(TailBytes)) =>
                HasMatched(Shown, Errors, TailBytes, LineOf(file.data, start))
<1>1. /\ ReaderOK(reader) /\ RestOK /\ leftover.entries <= Len(view.entries)
      /\ seen.gen = file.gen =>
           Tells(file.data, start, reader, session.running, PresentEntries, PresentErrors)
  BY DEF TailInv, TailTypes
<1> DEFINE F == Final.entries
           v == view.entries
           k == leftover.entries
           E == SubSeq(v, k + 1, Len(v))
<1>2. F \in Seq(Entry)
  BY <1>1, FinalGives DEF Final
<1>3. v \in Seq(Entry) /\ k \in Nat /\ Len(v) \in Nat
  <2>1. v \in Seq(Entry) /\ k \in Nat
    BY <1>1 DEF RestOK
  <2> QED BY <2>1, LenProperties
<1>4. k \in 0..Len(v)
  BY <1>1, <1>3
<1>5. E \in Seq(Entry)
  <2>1. \A i \in (k + 1)..Len(v) : i \in 1..Len(v)
    BY <1>3
  <2>2. \A i \in (k + 1)..Len(v) : v[i] \in Entry
    BY <1>3, <2>1, ElementOfSeq
  <2>3. k + 1 \in Int /\ Len(v) \in Int
    BY <1>3
  <2> HIDE DEF v, k
  <2> QED BY <2>2, <2>3, SubSeqProperties
<1>6. PresentEntries = E
  BY DEF PresentEntries
<1>7. Shown = SubSeq(v \o F, k + 1, Len(v \o F))
  BY DEF Shown
<1> HIDE DEF F, v, k
<1>8. Shown = E \o F
  BY <1>2, <1>3, <1>4, <1>7, SubSeqTail
<1> HIDE DEF E
<1> DEFINE x == PresentErrors
           z == Final.errors
<1>9. Errors = x + z /\ x + 0 = x
  <2>1. view.errors \in Nat /\ leftover.errors \in Nat
    BY <1>1 DEF RestOK
  <2>2. z \in Nat
    BY <1>1, FinalGives DEF Final
  <2> HIDE DEF z
  <2>3. Errors = view.errors + z - leftover.errors
    BY DEF Errors, z
  <2> QED BY <2>1, <2>2, <2>3 DEF PresentErrors
<1> HIDE DEF x, z
<1>10. ASSUME seen.gen = file.gen
       PROVE  /\ HasRead(Shown, Final.reader, decode(TailBytes), LineOf(file.data, start))
              /\ FitsIn(decode(TailBytes)) =>
                   HasMatched(Shown, Errors, TailBytes, LineOf(file.data, start))
  <2> DEFINE T == decode(TailBytes)
             n == LineOf(file.data, start)
             bytes == BytesRead(file.data, start, reader)
  <2>1. Tells(file.data, start, reader, session.running, E, x)
    BY <1>1, <1>6, <1>10 DEF x
  <2>2. TailBytes = bytes
    BY DEF BytesRead, TailBytes
  <2>3. T \in Seq(Char) /\ n \in Nat \ {0}
    BY <2>1, <2>2, DecodeGives, LineOfType DEF Tells
  <2>4. CASE session.running
    <3>1. /\ Reads(E, reader, decode(bytes), n) /\ reader.carry = carry_of(bytes)
          /\ FitsIn(decode(bytes)) => Matches(E, x, reader, decode(bytes), n)
      BY <2>1, <2>4 DEF Tells
    <3>2. /\ Reads(E, reader, T, n) /\ reader.carry = carry_of(TailBytes)
          /\ FitsIn(T) => Matches(E, x, reader, T, n)
      BY <2>2, <3>1
    <3>3. Len(reader.carry) = IF Incomplete(TailBytes) THEN 1 ELSE 0
      BY <3>2, CarryLength
    <3> HIDE DEF T, n
    <3>4. HasRead(E \o finalize_pending_input(reader).entries,
                  finalize_pending_input(reader).reader, T, n)
      BY <1>1, <1>5, <2>3, <3>2, FinalReads
    <3>5. ASSUME FitsIn(T)
          PROVE  HasMatched(Shown, Errors, TailBytes, n)
      <4>1. /\ Strip(E \o finalize_pending_input(reader).entries) = Rebased(parse(TextOf(T)).entries, n)
            /\ x + finalize_pending_input(reader).errors
                 = parse(TextOf(T)).errors + Len(reader.carry)
        BY <1>1, <1>5, <2>3, <3>2, <3>5, MatchesFinal
      <4>2. /\ Strip(Shown) = Rebased(parse(TextOf(T)).entries, n)
            /\ Errors = parse(TextOf(T)).errors + Len(reader.carry)
        BY <1>8, <1>9, <4>1 DEF Final, F, z
      <4> QED BY <3>3, <4>2 DEF HasMatched, T
    <3> QED BY <1>8, <3>4, <3>5 DEF Final, F, T, n
  <2>5. CASE ~session.running
    <3>1. /\ HasRead(E, reader, decode(bytes), n) /\ reader.carry = <<>>
          /\ FitsIn(decode(bytes)) => HasMatched(E, x, bytes, n)
      BY <2>1, <2>5 DEF Tells
    <3>2. /\ HasRead(E, reader, T, n) /\ Emptied(reader)
          /\ FitsIn(T) => HasMatched(E, x, TailBytes, n)
      BY <2>2, <3>1 DEF HasRead
    <3>3. F = <<>> /\ z = 0
      BY <1>1, <3>1, <3>2, FinalNothing DEF F, z, Final
    <3>4. Shown = E /\ Errors = x
      BY <1>5, <1>8, <1>9, <3>3, ConcatEmptySeq
    <3> HIDE DEF T, n
    <3>5. HasRead(E \o finalize_pending_input(reader).entries,
                  finalize_pending_input(reader).reader, T, n)
      BY <1>1, <1>5, <3>2, FinalAgain
    <3> QED BY <1>8, <3>2, <3>4, <3>5 DEF Final, F, T, n
  <2> QED BY <2>4, <2>5
<1> QED BY <1>10

LEMMA TailTextIs == TailText = TextOf(decode(TailBytes))
BY DEF TailText, TextOf, Closed

\* Opening the file later would show the same characters in its entries.
OpensAlike == seen.gen = file.gen => Texts(Shown) = Texts(parse(TailText).entries)

LEMMA TailTextType ==
  ASSUME TailInv, seen.gen = file.gen
  PROVE  TailText \in Seq(Char) /\ decode(TailBytes) \in Seq(Char)
<1> DEFINE T == decode(TailBytes)
<1>1. Tells(file.data, start, reader, session.running, PresentEntries, PresentErrors)
  BY DEF TailInv
<1>2. TailBytes = BytesRead(file.data, start, reader)
  BY DEF TailBytes, BytesRead
<1>3. T \in Seq(Char)
  BY <1>1, <1>2, DecodeGives DEF Tells
<1> HIDE DEF T
<1>4. Closed(T) \in Seq(Char)
  BY <1>3, ClosedPieces
<1> QED BY <1>3, <1>4, TailTextIs DEF TextOf, T

LEMMA OpensAlikeGives == TailInv => OpensAlike
<1> SUFFICES ASSUME TailInv, seen.gen = file.gen
             PROVE  Texts(Shown) = Texts(parse(TailText).entries)
  BY DEF OpensAlike
<1>1. Texts(Shown) = Without(TailText, "n")
  BY ShownGives, TailTextIs DEF HasRead
<1>2. Texts(parse(TailText).entries) = Without(TailText, "n")
  BY TailTextType, ParseGives
<1> QED BY <1>1, <1>2

LEMMA LosslessGives ==
  ASSUME OpenAtLineEnd, TailInv
  PROVE  TailIsLossless
<1> SUFFICES ASSUME seen.gen = file.gen
             PROVE  /\ Texts(Shown) = Without(TailText, "n")
                    /\ Final.reader.next_line = FirstLine + Len(Lines(TailText))
  BY DEF TailIsLossless
<1>1. HasRead(Shown, Final.reader, decode(TailBytes), LineOf(file.data, start))
  BY ShownGives
<1>2. Tells(file.data, start, reader, session.running, PresentEntries, PresentErrors)
  BY DEF TailInv
<1>3. LineOf(file.data, start) = FirstLine
  BY <1>2, LineOfOpened DEF Tells, FirstLine
<1> QED BY <1>1, <1>3, TailTextIs DEF HasRead

\* The entries, their lines and the errors are those of opening the text.
LEMMA MatchesGives ==
  ASSUME OpenAtLineEnd, TailInv
  PROVE  TailMatchesOpen
<1> SUFFICES ASSUME seen.gen = file.gen, Fits(TailText)
             PROVE  MatchesOpen
  BY DEF TailMatchesOpen
<1>1. FitsIn(decode(TailBytes))
  BY TailTextIs DEF FitsIn, TextOf
<1>2. HasMatched(Shown, Errors, TailBytes, LineOf(file.data, start))
  BY <1>1, ShownGives
<1>3. Tells(file.data, start, reader, session.running, PresentEntries, PresentErrors)
  BY DEF TailInv
<1>4. LineOf(file.data, start) = FirstLine
  BY <1>3, LineOfOpened DEF Tells, FirstLine
<1>5. /\ Strip(Shown) = Rebased(parse(TailText).entries, FirstLine)
      /\ Errors = parse(TailText).errors + (IF Incomplete(TailBytes) THEN 1 ELSE 0)
  BY <1>2, <1>4, TailTextIs DEF HasMatched
<1> QED BY <1>5 DEF MatchesOpen, Strip

LEMMA TailInvHolds == Spec => []TailInv
BY InitTells, StepTells, PTL DEF Spec

\* The tail of a file that was opened at the end of a line loses nothing: whatever is appended,
\* replaced, truncated, cut by the size bound, refused and paused, the entries of
\* read_new_entries and finalize_pending_input hold every character of the file that was read,
\* once and in order, and next_line counts every physical line once.
THEOREM TailLosesNothing ==
  ASSUME OpenAtLineEnd
  PROVE  Spec => []TailIsLossless
<1>1. TailInv => TailIsLossless
  BY LosslessGives
<1> QED BY <1>1, TailInvHolds, PTL

\* Opening the file again shows the same text: the entries of the tail and those of the
\* whole-file parse (parse_lines) hold the same characters, wherever the tail began.
THEOREM TailShowsWhatOpeningShows == Spec => []OpensAlike
BY OpensAlikeGives, TailInvHolds, PTL

\* However the appends, the polls and the failures interleave, the entries of a tail, their lines
\* and its parse errors are those that opening the same text gives, as long as no line of it is
\* cut by the size bound: reading in parts is chunk invariant, for every text.
THEOREM TailEqualsOpen ==
  ASSUME OpenAtLineEnd
  PROVE  Spec => []TailMatchesOpen
<1>1. TailInv => TailMatchesOpen
  BY MatchesGives
<1> QED BY <1>1, TailInvHolds, PTL

----------------------------------------------------------------------------
(* The reset a tail owes: nothing about what the framing computes is needed *)

Fields == {"byte_offset", "file_identity", "pending_reset", "next_id", "next_line",
           "fragment", "continuation", "pending", "carry"}

\* The reader is a record, and while its thread runs it remembers every
\* transition that a failed read observed.
OwedInv ==
  /\ DOMAIN reader = Fields
  /\ DOMAIN session = {"stop", "paused", "running", "waits", "toggles"}
  /\ session.running /\ owed => reader.pending_reset # "none"

\* A transition once owed is still owed by the next read, whatever it observes.
LEMMA OwedIsObserved ==
  ASSUME NEW r, NEW identity, r.pending_reset # "none"
  PROVE  observed_reset(r, identity) # "none"
<1>1. CASE identities_differ(r.file_identity, identity)
  BY <1>1 DEF observed_reset
<1>2. CASE ~identities_differ(r.file_identity, identity)
  BY <1>2 DEF observed_reset
<1> QED BY <1>1, <1>2

\* A read that observes a generation end owes a reset.
LEMMA EndIsObserved ==
  ASSUME NEW r, NEW identity,
         identities_differ(r.file_identity, identity) \/ Len(file.data) < r.byte_offset
  PROVE  observed_reset(r, identity) # "none"
<1>1. CASE identities_differ(r.file_identity, identity)
  BY <1>1 DEF observed_reset
<1>2. CASE ~identities_differ(r.file_identity, identity) /\ r.pending_reset = "none"
  BY <1>2 DEF observed_reset
<1>3. CASE ~identities_differ(r.file_identity, identity) /\ r.pending_reset # "none"
  BY <1>3 DEF observed_reset
<1> QED BY <1>1, <1>2, <1>3

\* Numbering and flushing keep the fields of the reader.
LEMMA FieldsKept ==
  ASSUME NEW r, NEW f
  PROVE  /\ DOMAIN Numbered(r, f).reader = DOMAIN r
         /\ DOMAIN finalize_pending_input(r).reader = DOMAIN r
         /\ DOMAIN Restarted(r) = DOMAIN r
<1>1. \A q, a, b : DOMAIN [q EXCEPT ![a] = b] = DOMAIN q
  OBVIOUS
<1>2. \A q, g : DOMAIN Numbered(q, g).reader = DOMAIN q
  <2>1. \A q, g, parsed : DOMAIN Identified(q, g, parsed).reader = DOMAIN q
    BY <1>1 DEF Identified
  <2> QED BY <2>1 DEF Numbered
<1>3. DOMAIN finalize_pending_input(r).reader = DOMAIN r
  <2> DEFINE q == [r EXCEPT !.carry = <<>>]
             g == FlushText(FramingOf(r))
  <2>1. finalize_pending_input(r).reader = Numbered(q, g).reader
    BY DEF finalize_pending_input, Numbered
  <2>2. DOMAIN q = DOMAIN r
    OBVIOUS
  <2> QED BY <1>2, <2>1, <2>2
<1>4. DOMAIN Restarted(r) = DOMAIN r
  BY <1>1 DEF Restarted
<1> QED BY <1>2, <1>3, <1>4

\* A successful read keeps the fields of the reader, and its batch carries the
\* reset exactly when one is observed.
LEMMA ReadKeepsFields ==
  ASSUME NEW r, NEW identity
  PROVE  /\ DOMAIN read_new_entries(r, identity).reader = DOMAIN r
         /\ read_new_entries(r, identity).batch.reset = (observed_reset(r, identity) # "none")
<1> DEFINE reset == observed_reset(r, identity)
           bytes == ToDecode(r, reset)
           left == LeftBehind(r, reset)
           read == ReadAs(reset, left, bytes)
<1>1. DOMAIN left.reader = DOMAIN r
  BY FieldsKept DEF LeftBehind
<1>2. /\ DOMAIN read = {"reader", "batch"}
      /\ DOMAIN read.reader = DOMAIN r
      /\ read.batch.reset = (reset # "none")
  <2> HIDE DEF reset, left, bytes
  <2> DEFINE ready == IF reset = "none" THEN left.reader ELSE Restarted(left.reader)
             new == Took(ready, decode(bytes))
  <2>1. DOMAIN ready = DOMAIN r
    <3>1. DOMAIN Restarted(left.reader) = DOMAIN r
      BY <1>1, FieldsKept
    <3> QED BY <1>1, <3>1
  <2>2. DOMAIN new.reader = DOMAIN r
    <3> HIDE DEF ready
    <3> QED BY <2>1, FieldsKept DEF Took
  <2>3. read = Delivered(reset, left, new)
    BY DEF ReadAs
  <2> HIDE DEF new, read
  <2> QED BY <2>2, <2>3 DEF Delivered
<1>3. \A q, a, b, c, d :
        LET p == [q EXCEPT !.reader.file_identity = a, !.reader.pending_reset = b,
                           !.reader.byte_offset = c, !.reader.carry = d]
        IN DOMAIN q = {"reader", "batch"} =>
             DOMAIN p.reader = DOMAIN q.reader /\ p.batch = q.batch
  OBVIOUS
<1>4. read_new_entries(r, identity) =
        [read EXCEPT !.reader.file_identity = identity, !.reader.pending_reset = "none",
                     !.reader.byte_offset = Len(file.data), !.reader.carry = carry_of(bytes)]
  BY DEF read_new_entries
<1> HIDE DEF read, bytes
<1> QED BY <1>2, <1>3, <1>4

\* Going back to the wait does not end the thread.
LEMMA LoopKeepsRunning ==
  ASSUME LoopsBack, DOMAIN session = {"stop", "paused", "running", "waits", "toggles"}
  PROVE  session'.running = session.running /\ DOMAIN session' = DOMAIN session
BY DEF LoopsBack

LEMMA InitOwed == Init => OwedInv
BY DEF Init, OwedInv, Fields

\* Every step keeps the invariant, and an owed reset is only settled by a batch
\* that carries it.
LEMMA StepOwed ==
  ASSUME OwedInv, [Next]_vars
  PROVE  OwedInv' /\ (DeliversReset \/ UNCHANGED vars)
<1> USE DEF OwedInv
<1>1. CASE pollNothing
  <2>1. PICK identity \in current_identity :
          ~Due(identity) /\ reader' = [reader EXCEPT !.file_identity = identity]
    BY <1>1 DEF pollNothing
  <2>2. reader'.pending_reset = reader.pending_reset /\ DOMAIN reader' = DOMAIN reader
    BY <2>1 DEF Fields
  <2>3. /\ session'.running = session.running /\ DOMAIN session' = DOMAIN session
        /\ owed' = owed /\ batch'.entries = <<>>
    BY <1>1, LoopKeepsRunning DEF pollNothing, EmptyBatch
  <2> QED BY <2>2, <2>3 DEF DeliversReset
<1>2. CASE pollReads
  <2>1. PICK identity \in current_identity :
          /\ reader' = read_new_entries(reader, identity).reader
          /\ batch' = read_new_entries(reader, identity).batch
    BY <1>2 DEF pollReads
  <2>2. DOMAIN reader' = Fields
    BY <2>1, ReadKeepsFields
  <2>3. /\ session'.running = session.running /\ DOMAIN session' = DOMAIN session
        /\ owed' = FALSE /\ session.running
    BY <1>2, LoopKeepsRunning DEF pollReads, Polls
  <2>4. owed => batch'.reset
    <3>1. batch'.reset = (observed_reset(reader, identity) # "none")
      BY <2>1, ReadKeepsFields
    <3> QED BY <3>1, <2>3, OwedIsObserved
  <2> QED BY <2>2, <2>3, <2>4 DEF DeliversReset
<1>3. CASE pollFails
  <2>1. PICK identity \in current_identity :
          /\ reader' = [reader EXCEPT !.pending_reset = observed_reset(reader, identity)]
          /\ owed' = (owed \/ identities_differ(reader.file_identity, identity)
                           \/ Len(file.data) < reader.byte_offset)
    BY <1>3 DEF pollFails
  <2>2. /\ DOMAIN reader' = Fields
        /\ reader'.pending_reset = observed_reset(reader, identity)
    BY <2>1 DEF Fields
  <2>3. /\ session'.running = session.running /\ DOMAIN session' = DOMAIN session
        /\ session.running /\ batch'.entries = <<>>
    BY <1>3, LoopKeepsRunning DEF pollFails, Polls, EmptyBatch
  <2>4. owed' => reader'.pending_reset # "none"
    BY <2>1, <2>2, <2>3, OwedIsObserved, EndIsObserved
  <2>5. owed => owed'
    BY <2>1
  <2> QED BY <2>2, <2>3, <2>4, <2>5 DEF DeliversReset
<1>4. CASE set_paused \/ stop
  <2>1. UNCHANGED <<reader, owed>> /\ batch'.entries = <<>>
    BY <1>4 DEF set_paused, stop, EmptyBatch
  <2>2. CASE set_paused
    <3>1. session' = [[session EXCEPT !.paused = ~session.paused] EXCEPT
                        !.toggles = session.toggles + 1]
      BY <2>2 DEF set_paused
    <3>2. session'.running = session.running /\ DOMAIN session' = DOMAIN session
      BY <3>1
    <3> QED BY <2>1, <3>2 DEF DeliversReset
  <2>3. CASE stop
    <3>1. session' = [session EXCEPT !.stop = TRUE]
      BY <2>3 DEF stop
    <3>2. session'.running = session.running /\ DOMAIN session' = DOMAIN session
      BY <3>1
    <3> QED BY <2>1, <3>2 DEF DeliversReset
  <2> QED BY <1>4, <2>2, <2>3
<1>5. CASE emit_final_tail_batch
  <2>1. reader' = finalize_pending_input(reader).reader
    BY <1>5 DEF emit_final_tail_batch
  <2>2. DOMAIN reader' = Fields
    BY <2>1, FieldsKept
  <2>3. session'.running = FALSE /\ DOMAIN session' = DOMAIN session
    BY <1>5 DEF emit_final_tail_batch
  <2> QED BY <2>2, <2>3 DEF DeliversReset
<1>6. CASE FileStep
  <2>1. UNCHANGED <<reader, session, owed>> /\ batch' = EmptyBatch
    <3>1. CASE appendByte
      BY <3>1, Zenon DEF appendByte
    <3>2. CASE replaceFile
      BY <3>2, Zenon DEF replaceFile
    <3>3. CASE truncateFile
      BY <3>3, Zenon DEF truncateFile
    <3> QED BY <1>6, <3>1, <3>2, <3>3 DEF FileStep
  <2>2. batch'.entries = <<>>
    BY <2>1 DEF EmptyBatch
  <2> QED BY <2>1, <2>2 DEF DeliversReset
<1>7. CASE UNCHANGED vars
  BY <1>7 DEF vars
<1> QED BY <1>1, <1>2, <1>3, <1>4, <1>5, <1>6, <1>7 DEF Next, Poll

\* The reset that read_new_entries owes: a truncation or replacement seen by a
\* failed read reaches the consumer with the next batch of that tail, whatever
\* the framing, the failures and the regrowth of the file in between.
THEOREM ResetDelivered == Spec => ObservedResetIsDelivered
<1>1. Spec => []OwedInv
  BY InitOwed, StepOwed, PTL DEF Spec
<1>2. OwedInv /\ [Next]_vars => [DeliversReset]_vars
  BY StepOwed
<1> QED BY <1>1, <1>2, PTL DEF Spec, ObservedResetIsDelivered
=============================================================================
