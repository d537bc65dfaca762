--------------------------- MODULE TailReaderReads ---------------------------
(***************************************************************************)
(* What the operators of LogicalRecords and TailReader compute, for every  *)
(* framing bound and every text: the framing, the decoding, a read and the *)
(* opening of a file.                                                      *)
(*                                                                         *)
(* The operators are folds: what they compute is proved with               *)
(* SequenceFolds, by induction over sets of sequences.                     *)
(***************************************************************************)
EXTENDS TailReader, SequenceTheorems, WellFoundedInduction, TLAPS

----------------------------------------------------------------------------
(* Induction over the naturals, as the folds take it *)

LEMMA LeastNatural ==
  ASSUME NEW T, T \subseteq Nat, T # {}
  PROVE  \E x \in T : \A y \in T : x <= y
<1> DEFINE R == OpToRel(<, Nat)
<1>1. IsWellFoundedOn(R, Nat)
  BY NatLessThanWellFounded
<1>2. \A x, y \in Nat : <<x, y>> \notin R => y <= x
  BY DEF OpToRel
<1> HIDE DEF R
<1>3. PICK x \in T : \A y \in T : <<y, x>> \notin R
  BY <1>1, WFMin
<1>4. \A y \in T : x <= y
  BY <1>2, <1>3
<1> QED BY <1>4

\* Induction over the naturals: a set with 0 and every successor has all of them.
THEOREM NaturalInduction ==
  ASSUME NEW S, 0 \in S, \A n \in Nat : n \in S => n + 1 \in S
  PROVE  Nat \subseteq S
<1> DEFINE T == Nat \ S
<1>1. SUFFICES ASSUME T # {} PROVE FALSE
  OBVIOUS
<1>2. PICK x \in T : \A y \in T : x <= y
  BY <1>1, LeastNatural
<1>3. x \in Nat /\ x # 0
  OBVIOUS
<1>4. x - 1 \in Nat /\ x - 1 + 1 = x /\ ~(x <= x - 1)
  BY <1>3
<1> QED BY <1>2, <1>3, <1>4

----------------------------------------------------------------------------
(* The folds of the framing *)

SizeStep(context, size, c) == size + Width(c)
Sizes == INSTANCE SequenceFolds WITH Op <- SizeStep

NewlineStep(context, count, c) == IF c = "n" THEN count + 1 ELSE count
Counts == INSTANCE SequenceFolds WITH Op <- NewlineStep

KeepStep(dropped, kept, d) == IF d = dropped THEN kept ELSE Append(kept, d)
Keeps == INSTANCE SequenceFolds WITH Op <- KeepStep

PieceStep(context, pieces, c) ==
  IF c = "n" THEN Append(pieces, <<>>)
  ELSE [pieces EXCEPT ![Len(pieces)] = Append(@, c)]
Splits == INSTANCE SequenceFolds WITH Op <- PieceStep

AppendStep(context, f, c) == append_character(f, c)
Appends == INSTANCE SequenceFolds WITH Op <- AppendStep

SegmentStep(context, g, line) == process_inventory_line_segment(g, line, TRUE)
Segments == INSTANCE SequenceFolds WITH Op <- SegmentStep

ProjectStep(lines, entries, i) == ProjectLine(entries, i, lines[i])
Projects == INSTANCE SequenceFolds WITH Op <- ProjectStep

ParseStep(context, parsed, record) ==
  [entries |-> parsed.entries \o Rebased(project_logical_record(record), parsed.next),
   next |-> parsed.next + physical_lines(record)]
Parses == INSTANCE SequenceFolds WITH Op <- ParseStep

OverflowStep(context, count, record) == IF record.split THEN count + 1 ELSE count
Overflows == INSTANCE SequenceFolds WITH Op <- OverflowStep

LEMMA Induction ==
  /\ Sizes!Inductive
  /\ Counts!Inductive
  /\ Keeps!Inductive
  /\ Splits!Inductive
  /\ Appends!Inductive
  /\ Segments!Inductive
  /\ Projects!Inductive
  /\ Parses!Inductive
  /\ Overflows!Inductive
BY NaturalInduction
DEF Sizes!Inductive, Counts!Inductive, Keeps!Inductive, Splits!Inductive, Appends!Inductive,
    Segments!Inductive, Projects!Inductive, Parses!Inductive, Overflows!Inductive

\* Induction over sequences: a set with <<>> that is closed under Append has all of them.
THEOREM SequenceInduction ==
  ASSUME NEW A, NEW S, <<>> \in S, \A s \in Seq(A), a \in A : s \in S => Append(s, a) \in S
  PROVE  Seq(A) \subseteq S
BY Induction, Sizes!SequenceInduction

LEMMA SizeIsFold == \A text : Size(text) = Sizes!Fold(0, 0, text)
BY DEF Size, FoldLeft, MapThenFoldSet, Max, SizeStep,
       Sizes!Fold, Sizes!MapThenFoldSet, Sizes!Last
LEMMA NewlinesIsFold == \A text : Newlines(text) = Counts!Fold(0, 0, text)
BY DEF Newlines, FoldLeft, MapThenFoldSet, Max, NewlineStep,
       Counts!Fold, Counts!MapThenFoldSet, Counts!Last
LEMMA WithoutIsFold == \A text, c : Without(text, c) = Keeps!Fold(c, <<>>, text)
BY DEF Without, FoldLeft, MapThenFoldSet, Max, KeepStep,
       Keeps!Fold, Keeps!MapThenFoldSet, Keeps!Last
LEMMA PiecesIsFold == \A text : Pieces(text) = Splits!Fold(0, <<<<>>>>, text)
BY DEF Pieces, FoldLeft, MapThenFoldSet, Max, PieceStep,
       Splits!Fold, Splits!MapThenFoldSet, Splits!Last
LEMMA AppendIsFold ==
  \A f, text : append_bounded(f, text)
    = Appends!Fold(0, [f EXCEPT !.pending = IF @ = None THEN Some(<<>>) ELSE @], text)
BY DEF append_bounded, FoldLeft, MapThenFoldSet, Max, AppendStep,
       Appends!Fold, Appends!MapThenFoldSet, Appends!Last
LEMMA SegmentIsFold ==
  \A f, lines : FoldLeft(LAMBDA g, line : process_inventory_line_segment(g, line, TRUE), f, lines)
    = Segments!Fold(0, f, lines)
BY DEF FoldLeft, MapThenFoldSet, Max, SegmentStep,
       Segments!Fold, Segments!MapThenFoldSet, Segments!Last
LEMMA ProjectIsFold ==
  \A lines : ProjectLines(lines) = Projects!Fold(lines, <<>>, [i \in DOMAIN lines |-> i])
BY DEF ProjectLines, FoldLeftDomain, FoldLeft, MapThenFoldSet, Max, ProjectStep,
       Projects!Fold, Projects!MapThenFoldSet, Projects!Last
LEMMA ParseIsFold ==
  \A records, n : parse_framed_records(records, n)
    = Parses!Fold(0, [entries |-> <<>>, next |-> n], records)
BY DEF parse_framed_records, FoldLeft, MapThenFoldSet, Max, ParseStep,
       Parses!Fold, Parses!MapThenFoldSet, Parses!Last
LEMMA OverflowIsFold == \A records : overflow_count(records) = Overflows!Fold(0, 0, records)
BY DEF overflow_count, FoldLeft, MapThenFoldSet, Max, OverflowStep,
       Overflows!Fold, Overflows!MapThenFoldSet, Overflows!Last

----------------------------------------------------------------------------
(* Text *)

\* The characters of a line.
Plain == Char \ {"n"}

LEMMA SizeEmpty == Size(<<>>) = 0
BY SizeIsFold, Induction, Sizes!FoldEmpty

LEMMA SizeAppend ==
  ASSUME NEW A, NEW s \in Seq(A), NEW c \in A
  PROVE  Size(Append(s, c)) = Size(s) + Width(c)
BY SizeIsFold, Induction, Sizes!FoldAppend DEF SizeStep

LEMMA SizeType ==
  ASSUME NEW A, NEW s \in Seq(A)
  PROVE  Size(s) \in Nat /\ Size(s) >= Len(s)
<1> DEFINE S == {t \in Seq(A) : Size(t) \in Nat /\ Size(t) >= Len(t)}
<1>1. <<>> \in S
  BY SizeEmpty, EmptySeq
<1>2. ASSUME NEW t \in Seq(A), NEW c \in A, t \in S
      PROVE  Append(t, c) \in S
  <2>1. Append(t, c) \in Seq(A) /\ Len(Append(t, c)) = Len(t) + 1 /\ Len(t) \in Nat
    BY AppendProperties, LenProperties
  <2>2. Size(Append(t, c)) = Size(t) + Width(c)
    BY SizeAppend
  <2>3. Width(c) \in {1, 2}
    BY DEF Width
  <2>4. Size(t) \in Nat /\ Size(t) >= Len(t)
    BY <1>2
  <2>5. Size(t) + Width(c) \in Nat /\ Size(t) + Width(c) >= Len(t) + 1
    BY <2>1, <2>3, <2>4
  <2> QED BY <2>1, <2>2, <2>5
<1> HIDE DEF S
<1>3. Seq(A) \subseteq S
  BY <1>1, <1>2, SequenceInduction
<1> QED BY <1>3 DEF S

LEMMA SizeConcat ==
  ASSUME NEW A, NEW s \in Seq(A), NEW t \in Seq(A)
  PROVE  Size(s \o t) = Size(s) + Size(t)
<1> DEFINE S == {u \in Seq(A) : Size(s \o u) = Size(s) + Size(u)}
<1>1. <<>> \in S
  BY SizeEmpty, SizeType, EmptySeq, ConcatEmptySeq
<1>2. ASSUME NEW u \in Seq(A), NEW c \in A, u \in S
      PROVE  Append(u, c) \in S
  <2>1. s \o Append(u, c) = Append(s \o u, c) /\ s \o u \in Seq(A) /\ Append(u, c) \in Seq(A)
    BY ConcatProperties, AppendProperties
  <2>2. \A v \in Seq(A) : Size(Append(v, c)) = Size(v) + Width(c)
    BY SizeAppend
  <2>3. Size(s) \in Nat /\ Size(u) \in Nat
    BY SizeType
  <2>4. Width(c) \in Nat
    BY DEF Width
  <2>5. Size(s \o u) = Size(s) + Size(u)
    BY <1>2
  <2>6. Size(s \o u) + Width(c) = Size(s) + (Size(u) + Width(c))
    BY <2>3, <2>4, <2>5
  <2>7. Size(s \o Append(u, c)) = Size(s) + Size(Append(u, c))
    BY <2>1, <2>2, <2>6
  <2> QED BY <2>1, <2>7
<1> HIDE DEF S
<1>3. Seq(A) \subseteq S
  BY <1>1, <1>2, SequenceInduction
<1> QED BY <1>3 DEF S

\* What fits of a text: a prefix of at most the given bytes.
LEMMA PrefixFits ==
  ASSUME NEW A, NEW s \in Seq(A), NEW maximum \in Nat
  PROVE  /\ utf8_prefix_at_most(s, maximum) \in 0..Len(s)
         /\ Size(SubSeq(s, 1, utf8_prefix_at_most(s, maximum))) <= maximum
         /\ utf8_prefix_at_most(s, maximum) < Len(s)
              => Size(SubSeq(s, 1, utf8_prefix_at_most(s, maximum) + 1)) > maximum
<1> DEFINE T == {k \in Nat : k < Len(s) => Size(SubSeq(s, 1, k + 1)) > maximum}
           Fitting(n) == /\ Size(SubSeq(s, 1, n)) <= maximum
                         /\ n < Len(s) => Size(SubSeq(s, 1, n + 1)) > maximum
<1>1. Len(s) \in Nat /\ Len(s) \in T
  BY LenProperties
<1>2. PICK n \in T : \A k \in T : n <= k
  <2>1. T \subseteq Nat /\ T # {}
    BY <1>1
  <2> QED BY <2>1, LeastNatural
<1>3. n \in 0..Len(s)
  BY <1>1, <1>2
<1>4. Size(SubSeq(s, 1, n)) <= maximum
  <2>1. CASE n = 0
    <3>1. SubSeq(s, 1, 0) = <<>>
      BY SubSeqEmpty
    <3>2. SubSeq(s, 1, n) = <<>>
      BY <2>1, <3>1
    <3>3. \A t : t = <<>> => Size(t) = 0
      BY SizeEmpty, Zenon
    <3>4. Size(SubSeq(s, 1, n)) = 0
      BY <3>2, <3>3
    <3> QED BY <3>4
  <2>2. CASE n # 0
    <3>1. n - 1 \in Nat /\ ~(n <= n - 1) /\ n - 1 + 1 = n /\ n - 1 < Len(s)
      BY <1>3, <2>2
    <3>2. n - 1 \notin T
      BY <1>2, <3>1
    <3>3. ~(Size(SubSeq(s, 1, n)) > maximum)
      BY <3>1, <3>2
    <3>4. SubSeq(s, 1, n) \in Seq(A)
      BY <1>3, <2>2, <3>1, SubSeqProperties
    <3>5. Size(SubSeq(s, 1, n)) \in Nat
      BY <3>4, SizeType
    <3> QED BY <3>3, <3>5
  <2> QED BY <2>1, <2>2
<1>5. \E k \in 0..Len(s) : Fitting(k)
  BY <1>2, <1>3, <1>4
<1>6. utf8_prefix_at_most(s, maximum) = CHOOSE k \in 0..Len(s) : Fitting(k)
  BY DEF utf8_prefix_at_most
<1> HIDE DEF Fitting
<1>7. utf8_prefix_at_most(s, maximum) \in 0..Len(s) /\ Fitting(utf8_prefix_at_most(s, maximum))
  BY <1>5, <1>6
<1> QED BY <1>7 DEF Fitting

LEMMA NewlinesEmpty == Newlines(<<>>) = 0
BY NewlinesIsFold, Induction, Counts!FoldEmpty

LEMMA NewlinesAppend ==
  ASSUME NEW A, NEW s \in Seq(A), NEW c \in A
  PROVE  Newlines(Append(s, c)) = IF c = "n" THEN Newlines(s) + 1 ELSE Newlines(s)
BY NewlinesIsFold, Induction, Counts!FoldAppend DEF NewlineStep

LEMMA NewlinesType ==
  ASSUME NEW A, NEW s \in Seq(A)
  PROVE  Newlines(s) \in Nat
<1>1. \A n \in Nat, c \in A : NewlineStep(0, n, c) \in Nat
  BY DEF NewlineStep
<1> QED BY <1>1, NewlinesIsFold, Induction, Counts!FoldStays

LEMMA NewlinesConcat ==
  ASSUME NEW A, NEW s \in Seq(A), NEW t \in Seq(A)
  PROVE  Newlines(s \o t) = Newlines(s) + Newlines(t)
<1> DEFINE S == {u \in Seq(A) : Newlines(s \o u) = Newlines(s) + Newlines(u)}
<1>1. <<>> \in S
  BY NewlinesEmpty, NewlinesType, EmptySeq, ConcatEmptySeq
<1>2. ASSUME NEW u \in Seq(A), NEW c \in A, u \in S
      PROVE  Append(u, c) \in S
  <2>1. s \o Append(u, c) = Append(s \o u, c) /\ s \o u \in Seq(A) /\ Append(u, c) \in Seq(A)
    BY ConcatProperties, AppendProperties
  <2>2. \A v \in Seq(A) :
          Newlines(Append(v, c)) = IF c = "n" THEN Newlines(v) + 1 ELSE Newlines(v)
    BY NewlinesAppend
  <2>3. Newlines(s) \in Nat /\ Newlines(u) \in Nat
    BY NewlinesType
  <2>4. Newlines(s \o u) = Newlines(s) + Newlines(u)
    BY <1>2
  <2>5. Newlines(s \o u) + 1 = Newlines(s) + (Newlines(u) + 1)
    BY <2>3, <2>4
  <2>6. Newlines(s \o Append(u, c)) = Newlines(s) + Newlines(Append(u, c))
    BY <2>1, <2>2, <2>4, <2>5
  <2> QED BY <2>1, <2>6
<1> HIDE DEF S
<1>3. Seq(A) \subseteq S
  BY <1>1, <1>2, SequenceInduction
<1> QED BY <1>3 DEF S

LEMMA NewlinesPlain ==
  ASSUME NEW s \in Seq(Plain)
  PROVE  Newlines(s) = 0
<1>1. \A n \in {0}, c \in Plain : NewlineStep(0, n, c) \in {0}
  BY DEF NewlineStep, Plain
<1>2. Counts!Fold(0, 0, s) \in {0}
  BY <1>1, Induction, Counts!FoldStays
<1> QED BY <1>2, NewlinesIsFold

LEMMA ConcatAppend ==
  ASSUME NEW A, NEW s \in Seq(A), NEW t \in Seq(A), NEW a \in A
  PROVE  s \o Append(t, a) = Append(s \o t, a)
<1>1. Append(t, a) = t \o <<a>> /\ s \o t \in Seq(A) /\ <<a>> \in Seq(A)
  BY AppendIsConcat, ConcatProperties
<1>2. Append(s \o t, a) = (s \o t) \o <<a>>
  BY <1>1, AppendIsConcat
<1> QED BY <1>1, <1>2, ConcatAssociative

LEMMA PlainAssociative ==
  \A r, s, t \in Seq(Plain) : (r \o s) \o t = r \o (s \o t)
BY ConcatAssociative

LEMMA WithoutEmpty == \A s, c : s = <<>> => Without(s, c) = <<>>
BY WithoutIsFold, Induction, Keeps!FoldEmpty

LEMMA WithoutAppend ==
  ASSUME NEW A, NEW s \in Seq(A), NEW d \in A, NEW c
  PROVE  Without(Append(s, d), c) = IF d = c THEN Without(s, c) ELSE Append(Without(s, c), d)
BY WithoutIsFold, Induction, Keeps!FoldAppend DEF KeepStep

LEMMA WithoutType ==
  ASSUME NEW A, NEW s \in Seq(A), NEW c
  PROVE  Without(s, c) \in Seq(A \ {c})
<1>1. \A t \in Seq(A \ {c}), d \in A : KeepStep(c, t, d) \in Seq(A \ {c})
  <2>1. ASSUME NEW t \in Seq(A \ {c}), NEW d \in A, d # c
        PROVE  Append(t, d) \in Seq(A \ {c})
    <3>1. d \in A \ {c}
      BY <2>1
    <3> QED BY <3>1, AppendProperties
  <2> QED BY <2>1 DEF KeepStep
<1>2. <<>> \in Seq(A \ {c})
  BY EmptySeq
<1>3. Keeps!Fold(c, <<>>, s) \in Seq(A \ {c})
  BY <1>1, <1>2, Induction, Keeps!FoldStays
<1> QED BY <1>3, WithoutIsFold

LEMMA WithoutConcat ==
  ASSUME NEW A, NEW s \in Seq(A), NEW t \in Seq(A), NEW c
  PROVE  Without(s \o t, c) = Without(s, c) \o Without(t, c)
<1> DEFINE S == {u \in Seq(A) : Without(s \o u, c) = Without(s, c) \o Without(u, c)}
<1>0. Without(s, c) \in Seq(A \ {c})
  BY WithoutType
<1>1. <<>> \in S
  <2>1. s \o <<>> = s /\ <<>> \in Seq(A)
    BY EmptySeq, ConcatEmptySeq
  <2>2. Without(s, c) \o <<>> = Without(s, c)
    BY <1>0, ConcatEmptySeq
  <2>3. Without(<<>>, c) = <<>>
    BY WithoutEmpty
  <2> QED BY <2>1, <2>2, <2>3
<1>2. ASSUME NEW u \in Seq(A), NEW d \in A, u \in S
      PROVE  Append(u, d) \in S
  <2>1. s \o Append(u, d) = Append(s \o u, d) /\ s \o u \in Seq(A) /\ Append(u, d) \in Seq(A)
    BY ConcatProperties, AppendProperties
  <2>2. \A v \in Seq(A) :
          Without(Append(v, d), c) = IF d = c THEN Without(v, c) ELSE Append(Without(v, c), d)
    BY WithoutAppend
  <2>3. Without(s \o u, c) = Without(s, c) \o Without(u, c)
    BY <1>2
  <2>4. Without(u, c) \in Seq(A \ {c})
    BY WithoutType
  <2>5. d # c => Append(Without(s, c) \o Without(u, c), d)
                   = Without(s, c) \o Append(Without(u, c), d)
    <3>1. ASSUME d # c
          PROVE  Append(Without(s, c) \o Without(u, c), d)
                   = Without(s, c) \o Append(Without(u, c), d)
      <4> DEFINE B == A \ {c}
                 v == Without(s, c)
                 w == Without(u, c)
      <4>1. d \in B /\ v \in Seq(B) /\ w \in Seq(B)
        BY <3>1, <1>0, <2>4
      <4> HIDE DEF B, v, w
      <4>2. v \o Append(w, d) = Append(v \o w, d)
        BY <4>1, ConcatAppend
      <4> QED BY <4>2 DEF v, w
    <3> QED BY <3>1
  <2>6. Without(s \o Append(u, d), c) = Without(s, c) \o Without(Append(u, d), c)
    BY <2>1, <2>2, <2>3, <2>5
  <2> QED BY <2>1, <2>6
<1> HIDE DEF S
<1>3. Seq(A) \subseteq S
  BY <1>1, <1>2, SequenceInduction
<1> QED BY <1>3 DEF S

\* A text without the character is left as it is.
LEMMA WithoutNone ==
  ASSUME NEW A, NEW c, NEW s \in Seq(A \ {c})
  PROVE  Without(s, c) = s
<1> DEFINE S == {u \in Seq(A \ {c}) : Without(u, c) = u}
<1>1. <<>> \in S
  BY WithoutEmpty, EmptySeq
<1>2. ASSUME NEW u \in Seq(A \ {c}), NEW d \in A \ {c}, u \in S
      PROVE  Append(u, d) \in S
  <2>1. Append(u, d) \in Seq(A \ {c})
    BY AppendProperties
  <2>2. Without(Append(u, d), c) = IF d = c THEN Without(u, c) ELSE Append(Without(u, c), d)
    BY WithoutAppend
  <2>3. d # c /\ Without(u, c) = u
    BY <1>2
  <2> QED BY <2>1, <2>2, <2>3
<1> HIDE DEF S
<1>3. Seq(A \ {c}) \subseteq S
  BY <1>1, <1>2, SequenceInduction
<1> QED BY <1>3 DEF S

----------------------------------------------------------------------------
(* The last element of a sequence, and a sequence of sequences joined *)

LEMMA FrontLast ==
  ASSUME NEW A, NEW s \in Seq(A), s # <<>>
  PROVE  Front(s) \in Seq(A) /\ Last(s) \in A /\ s = Append(Front(s), Last(s))
         /\ Len(Front(s)) = Len(s) - 1
<1>1. Len(s) \in Nat /\ Len(s) >= 1 /\ \A i \in 1..Len(s) : s[i] \in A
  BY EmptySeq, ElementOfSeq
<1>2. Last(s) \in A
  BY <1>1 DEF Last
<1>3. /\ Front(s) \in Seq(A) /\ Len(Front(s)) = Len(s) - 1
      /\ \A i \in 1..(Len(s) - 1) : Front(s)[i] = s[i]
  <2> DEFINE m == Len(s) - 1
  <2>1. m \in Nat /\ m <= Len(s)
    BY <1>1
  <2>2. /\ SubSeq(s, 1, m) \in Seq(A) /\ Len(SubSeq(s, 1, m)) = m
        /\ \A i \in 1..m : SubSeq(s, 1, m)[i] = s[i]
    <3> HIDE DEF m
    <3>1. \A i \in 1..m : i \in 1..Len(s)
      BY <1>1, <2>1
    <3> QED BY <1>1, <2>1, <3>1
  <2> QED BY <2>2 DEF Front
<1>4. s = Append(Front(s), Last(s))
  <2> DEFINE f == Front(s)
             l == Last(s)
  <2>0. l = s[Len(s)]
    BY DEF Last
  <2> HIDE DEF f, l
  <2>1. /\ Append(f, l) \in Seq(A) /\ Len(Append(f, l)) = Len(s)
        /\ \A i \in 1..(Len(s) - 1) : Append(f, l)[i] = f[i]
        /\ Append(f, l)[Len(s) - 1 + 1] = l
    BY <1>1, <1>2, <1>3, AppendProperties DEF f, l
  <2>2. \A i \in 1..Len(s) : Append(f, l)[i] = s[i]
    BY <1>1, <1>3, <2>0, <2>1 DEF f
  <2>3. s = Append(f, l)
    BY <2>1, <2>2, SeqEqual
  <2> QED BY <2>3 DEF f, l
<1> QED BY <1>2, <1>3, <1>4

LEMMA FrontLastOfAppend ==
  ASSUME NEW A, NEW s \in Seq(A), NEW a \in A
  PROVE  Front(Append(s, a)) = s /\ Last(Append(s, a)) = a
<1> DEFINE t == Append(s, a)
<1>1. /\ t \in Seq(A) /\ t # <<>> /\ Len(t) = Len(s) + 1 /\ t[Len(s) + 1] = a
      /\ Len(s) \in Nat
  BY AppendProperties, LenProperties
<1>2. Last(t) = a
  BY <1>1 DEF Last
<1>3. Front(t) = s
  <2>1. SubSeq(t, 1, Len(s)) = s
    BY DEF t
  <2> QED BY <1>1, <2>1 DEF Front
<1> QED BY <1>2, <1>3

\* The function that joins the first i of n sequences.
Joins(f, n, s) == f = [i \in 1..n |-> IF i = 1 THEN s[i] ELSE f[i - 1] \o s[i]]

LEMMA JoinsExists ==
  ASSUME NEW s
  PROVE  \A n \in Nat : \E f : Joins(f, n, s)
<1> DEFINE S == {n \in Nat : \E f : Joins(f, n, s)}
<1>1. 0 \in S
  <2>1. Joins([i \in 1..0 |-> 0], 0, s)
    BY DEF Joins
  <2> QED BY <2>1
<1>2. ASSUME NEW n \in Nat, n \in S
      PROVE  n + 1 \in S
  <2>1. PICK f : Joins(f, n, s)
    BY <1>2
  <2> DEFINE g == [i \in 1..(n + 1) |->
                     IF i = n + 1 THEN IF n = 0 THEN s[1] ELSE f[n] \o s[n + 1] ELSE f[i]]
             h == [i \in 1..(n + 1) |-> IF i = 1 THEN s[i] ELSE g[i - 1] \o s[i]]
  <2>2. ASSUME NEW i \in 1..(n + 1)
        PROVE  g[i] = h[i]
    <3>1. CASE i = n + 1 /\ n = 0
      BY <3>1
    <3>2. CASE i = n + 1 /\ n # 0
      <4>1. n \in 1..(n + 1) /\ n # n + 1 /\ i # 1 /\ i - 1 = n
        BY <3>2
      <4>2. g[n] = f[n]
        BY <4>1
      <4> QED BY <3>2, <4>1, <4>2
    <3>3. CASE i # n + 1
      <4>1. i \in 1..n
        BY <3>3
      <4>2. f[i] = IF i = 1 THEN s[i] ELSE f[i - 1] \o s[i]
        BY <2>1, <4>1 DEF Joins
      <4>3. i # 1 => i - 1 \in 1..(n + 1) /\ i - 1 # n + 1
        BY <4>1
      <4>4. i # 1 => g[i - 1] = f[i - 1]
        BY <4>3
      <4>5. g[i] = f[i]
        BY <3>3
      <4> QED BY <4>2, <4>4, <4>5
    <3> QED BY <3>1, <3>2, <3>3
  <2>3. g = [i \in 1..(n + 1) |-> g[i]] /\ h = [i \in 1..(n + 1) |-> h[i]]
    OBVIOUS
  <2>4. Joins(g, n + 1, s)
    <3>1. g = h
      <4> HIDE DEF g, h
      <4> QED BY <2>2, <2>3
    <3> HIDE DEF g
    <3> QED BY <3>1 DEF Joins
  <2> QED BY <2>4
<1> HIDE DEF S
<1>3. Nat \subseteq S
  BY <1>1, <1>2, NaturalInduction
<1> QED BY <1>3 DEF S

LEMMA JoinsAt ==
  ASSUME NEW f, NEW n \in Nat, NEW s, Joins(f, n, s), NEW i \in Nat, i + 1 \in 1..n
  PROVE  f[i + 1] = IF i = 0 THEN s[i + 1] ELSE f[i] \o s[i + 1]
<1>1. \A j \in 1..n : f[j] = IF j = 1 THEN s[j] ELSE f[j - 1] \o s[j]
  BY DEF Joins
<1>2. i + 1 - 1 = i /\ (i + 1 = 1 <=> i = 0)
  OBVIOUS
<1> QED BY <1>1, <1>2

LEMMA JoinsAgree ==
  ASSUME NEW f, NEW g, NEW m \in Nat, NEW n \in Nat, NEW s, NEW t,
         Joins(f, m, s), Joins(g, n, t), m <= n, \A i \in 1..m : s[i] = t[i]
  PROVE  \A i \in 1..m : f[i] = g[i]
<1> DEFINE S == {i \in Nat : i \in 1..m => f[i] = g[i]}
<1>1. 0 \in S
  OBVIOUS
<1>2. ASSUME NEW i \in Nat, i \in S
      PROVE  i + 1 \in S
  <2>1. SUFFICES ASSUME i + 1 \in 1..m PROVE f[i + 1] = g[i + 1]
    OBVIOUS
  <2>2. i + 1 \in 1..n /\ i + 1 - 1 = i
    BY <2>1
  <2>3. f[i + 1] = IF i = 0 THEN s[i + 1] ELSE f[i] \o s[i + 1]
    BY <2>1, JoinsAt
  <2>4. g[i + 1] = IF i = 0 THEN t[i + 1] ELSE g[i] \o t[i + 1]
    BY <2>2, JoinsAt
  <2>5. s[i + 1] = t[i + 1]
    BY <2>1
  <2>6. i # 0 => f[i] = g[i]
    BY <1>2, <2>1
  <2> QED BY <2>3, <2>4, <2>5, <2>6
<1> HIDE DEF S
<1>3. Nat \subseteq S
  BY <1>1, <1>2, NaturalInduction
<1> QED BY <1>3 DEF S

LEMMA FlattenEmpty == \A s : s = <<>> => FlattenSeq(s) = <<>>
BY DEF FlattenSeq

LEMMA FlattenJoins ==
  ASSUME NEW A, NEW s \in Seq(A), s # <<>>
  PROVE  \E f : Joins(f, Len(s), s) /\ FlattenSeq(s) = f[Len(s)]
<1> DEFINE chosen == CHOOSE f : Joins(f, Len(s), s)
<1>1. Len(s) \in Nat /\ Len(s) # 0
  BY EmptySeq
<1>2. Joins(chosen, Len(s), s)
  <2>1. \E f : Joins(f, Len(s), s)
    BY <1>1, JoinsExists
  <2> QED BY <2>1
<1>3. FlattenSeq(s) = chosen[Len(s)]
  BY <1>1 DEF FlattenSeq, Joins
<1> HIDE DEF chosen
<1> QED BY <1>2, <1>3

LEMMA FlattenAppend ==
  ASSUME NEW A, NEW s \in Seq(Seq(A)), NEW a \in Seq(A)
  PROVE  FlattenSeq(Append(s, a)) = FlattenSeq(s) \o a
<1> DEFINE t == Append(s, a)
           n == Len(s)
<1>1. /\ t \in Seq(Seq(A)) /\ t # <<>> /\ n \in Nat /\ Len(t) = n + 1
      /\ t[n + 1] = a /\ \A i \in 1..n : s[i] = t[i]
  BY AppendProperties, LenProperties
<1> HIDE DEF t
<1>2. PICK g : Joins(g, n + 1, t) /\ FlattenSeq(t) = g[n + 1]
  BY <1>1, FlattenJoins
<1>3. n + 1 \in 1..(n + 1) /\ n + 1 \in Nat /\ n <= n + 1
  BY <1>1
<1>4. g[n + 1] = IF n = 0 THEN t[n + 1] ELSE g[n] \o t[n + 1]
  <2> DEFINE m == n + 1
  <2> HIDE DEF m, n
  <2>1. m \in Nat /\ Joins(g, m, t)
    BY <1>2, <1>3 DEF m
  <2>2. \A i \in Nat : i + 1 \in 1..m => g[i + 1] = IF i = 0 THEN t[i + 1] ELSE g[i] \o t[i + 1]
    BY <2>1, JoinsAt, ZenonT(60)
  <2>3. n \in Nat /\ n + 1 \in 1..m
    BY <1>1, <1>3 DEF m
  <2> QED BY <2>2, <2>3, ZenonT(60)
<1>5. CASE s = <<>>
  <2>1. n = 0 /\ FlattenSeq(s) = <<>> /\ <<>> \o a = a
    BY <1>5, EmptySeq, FlattenEmpty, ConcatEmptySeq
  <2> QED BY <1>1, <1>2, <1>4, <2>1 DEF t
<1>6. CASE s # <<>>
  <2>1. PICK f : Joins(f, n, s) /\ FlattenSeq(s) = f[n]
    BY <1>6, FlattenJoins
  <2>2. n # 0 /\ n \in 1..n
    BY <1>1, <1>6, EmptySeq
  <2>3. f[n] = g[n]
    <3> DEFINE m == n + 1
    <3> HIDE DEF m, n
    <3>1. m \in Nat /\ n \in Nat /\ n <= m /\ Joins(f, n, s) /\ Joins(g, m, t)
          /\ \A i \in 1..n : s[i] = t[i]
      BY <1>1, <1>2, <1>3, <2>1 DEF m
    <3>2. \A i \in 1..n : f[i] = g[i]
      BY <3>1, JoinsAgree, ZenonT(60)
    <3> QED BY <2>2, <3>2
  <2> QED BY <1>1, <1>2, <1>4, <2>1, <2>2, <2>3 DEF t
<1> QED BY <1>5, <1>6

LEMMA FlattenType ==
  ASSUME NEW A, NEW s \in Seq(Seq(A))
  PROVE  FlattenSeq(s) \in Seq(A)
<1> DEFINE S == {u \in Seq(Seq(A)) : FlattenSeq(u) \in Seq(A)}
<1>1. <<>> \in S
  BY FlattenEmpty, EmptySeq
<1>2. ASSUME NEW u \in Seq(Seq(A)), NEW a \in Seq(A), u \in S
      PROVE  Append(u, a) \in S
  BY <1>2, FlattenAppend, AppendProperties, ConcatProperties
<1> HIDE DEF S
<1>3. Seq(Seq(A)) \subseteq S
  BY <1>1, <1>2, SequenceInduction
<1> QED BY <1>3 DEF S

LEMMA FlattenConcat ==
  ASSUME NEW A, NEW s \in Seq(Seq(A)), NEW t \in Seq(Seq(A))
  PROVE  FlattenSeq(s \o t) = FlattenSeq(s) \o FlattenSeq(t)
<1> DEFINE S == {u \in Seq(Seq(A)) : FlattenSeq(s \o u) = FlattenSeq(s) \o FlattenSeq(u)}
<1>0. FlattenSeq(s) \in Seq(A)
  BY FlattenType
<1>1. <<>> \in S
  <2>1. s \o <<>> = s /\ <<>> \in Seq(Seq(A))
    BY EmptySeq, ConcatEmptySeq
  <2>2. FlattenSeq(s) \o <<>> = FlattenSeq(s)
    BY <1>0, ConcatEmptySeq
  <2>3. FlattenSeq(<<>>) = <<>>
    BY FlattenEmpty
  <2> QED BY <2>1, <2>2, <2>3
<1>2. ASSUME NEW u \in Seq(Seq(A)), NEW a \in Seq(A), u \in S
      PROVE  Append(u, a) \in S
  <2>1. s \o Append(u, a) = Append(s \o u, a) /\ s \o u \in Seq(Seq(A))
        /\ Append(u, a) \in Seq(Seq(A))
    BY ConcatProperties, AppendProperties
  <2>2. \A v \in Seq(Seq(A)) : FlattenSeq(Append(v, a)) = FlattenSeq(v) \o a
    BY FlattenAppend
  <2>3. FlattenSeq(u) \in Seq(A)
    BY FlattenType
  <2>4. (FlattenSeq(s) \o FlattenSeq(u)) \o a = FlattenSeq(s) \o (FlattenSeq(u) \o a)
    BY <1>0, <2>3, ConcatAssociative, SMTT(30)
  <2>5. FlattenSeq(s \o Append(u, a)) = FlattenSeq(s) \o FlattenSeq(Append(u, a))
    BY <1>2, <2>1, <2>2, <2>4
  <2> QED BY <2>1, <2>5
<1> HIDE DEF S
<1>3. Seq(Seq(A)) \subseteq S
  BY <1>1, <1>2, SequenceInduction
<1> QED BY <1>3 DEF S

----------------------------------------------------------------------------
(* The pieces of a text *)

LEMMA ChangedLast ==
  ASSUME NEW A, NEW s \in Seq(A), NEW a \in A, NEW b \in A
  PROVE  [Append(s, a) EXCEPT ![Len(Append(s, a))] = b] = Append(s, b)
<1> DEFINE t == Append(s, a)
           u == Append(s, b)
           n == Len(s)
           v == [t EXCEPT ![n + 1] = b]
<1>1. /\ t \in Seq(A) /\ u \in Seq(A) /\ Len(t) = n + 1 /\ Len(u) = n + 1 /\ n \in Nat
      /\ \A i \in 1..n : t[i] = s[i] /\ u[i] = s[i]
      /\ u[n + 1] = b
  BY AppendProperties, LenProperties
<1> HIDE DEF t, u, n
<1>2. v \in Seq(A) /\ Len(v) = n + 1
  <2>1. n + 1 \in 1..Len(t)
    BY <1>1
  <2> QED BY <1>1, <2>1, ExceptSeq
<1>3. DOMAIN t = 1..(n + 1)
  BY <1>1, LenProperties
<1>4. \A i \in 1..(n + 1) : v[i] = u[i]
  <2>1. ASSUME NEW i \in 1..n
        PROVE  v[i] = u[i]
    <3>1. i \in 1..(n + 1) /\ i # n + 1
      BY <1>1
    <3> QED BY <1>1, <1>3, <3>1
  <2>2. n + 1 \in DOMAIN t
    BY <1>1, <1>3
  <2>3. v[n + 1] = u[n + 1]
    BY <1>1, <2>2
  <2>4. \A i \in 1..(n + 1) : i \in 1..n \/ i = n + 1
    BY <1>1
  <2> QED BY <2>1, <2>3, <2>4
<1>5. v = u
  <2> HIDE DEF v
  <2> QED BY <1>1, <1>2, <1>4, SeqEqual
<1> QED BY <1>1, <1>5 DEF t, u, n

LEMMA PiecesEmpty == \A s : s = <<>> => Pieces(s) = <<<<>>>>
BY PiecesIsFold, Induction, Splits!FoldEmpty

LEMMA PiecesAppend ==
  ASSUME NEW A, NEW s \in Seq(A), NEW c \in A
  PROVE  Pieces(Append(s, c)) = IF c = "n" THEN Append(Pieces(s), <<>>)
                                ELSE [Pieces(s) EXCEPT ![Len(Pieces(s))] = Append(@, c)]
BY PiecesIsFold, Induction, Splits!FoldAppend DEF PieceStep

\* One more character ends the last piece or makes it longer.
LEMMA PiecesGrow ==
  ASSUME NEW s \in Seq(Char), NEW c \in Char, NEW lines \in Seq(Seq(Plain)), NEW last \in Seq(Plain),
         Pieces(s) = Append(lines, last)
  PROVE  /\ c = "n" => Pieces(Append(s, c)) = Append(Append(lines, last), <<>>)
         /\ c # "n" => Pieces(Append(s, c)) = Append(lines, Append(last, c))
<1>1. Pieces(Append(s, c)) = IF c = "n" THEN Append(Pieces(s), <<>>)
                             ELSE [Pieces(s) EXCEPT ![Len(Pieces(s))] = Append(@, c)]
  <2>1. \A t \in Seq(Char), d \in Char :
          Pieces(Append(t, d)) = IF d = "n" THEN Append(Pieces(t), <<>>)
                                 ELSE [Pieces(t) EXCEPT ![Len(Pieces(t))] = Append(@, d)]
    BY PiecesAppend
  <2> QED BY <2>1, Zenon
<1>2. ASSUME c # "n"
      PROVE  Pieces(Append(s, c)) = Append(lines, Append(last, c))
  <2> DEFINE t == Append(lines, last)
             longer == Append(last, c)
  <2>1. longer \in Seq(Plain)
    BY <1>2, AppendProperties DEF Plain
  <2>2. Len(t) \in DOMAIN t /\ t[Len(t)] = last
    <3>1. t \in Seq(Seq(Plain)) /\ t[Len(lines) + 1] = last /\ Len(t) = Len(lines) + 1
          /\ Len(lines) \in Nat
      BY AppendProperties, LenProperties
    <3>2. DOMAIN t = 1..Len(t)
      BY <3>1, LenProperties
    <3> QED BY <3>1, <3>2
  <2>3. [t EXCEPT ![Len(t)] = longer] = Append(lines, longer)
    <3>1. \A q \in Seq(Seq(Plain)), a, b \in Seq(Plain) :
            [Append(q, a) EXCEPT ![Len(Append(q, a))] = b] = Append(q, b)
      BY ChangedLast
    <3> HIDE DEF longer
    <3> QED BY <2>1, <3>1, Zenon
  <2>4. Pieces(Append(s, c)) = [t EXCEPT ![Len(t)] = Append(@, c)]
    BY <1>1, <1>2
  <2>5. Pieces(Append(s, c)) = [t EXCEPT ![Len(t)] = Append(t[Len(t)], c)]
    BY <2>4
  <2> QED BY <2>2, <2>3, <2>5
<1>3. c = "n" => Pieces(Append(s, c)) = Append(Append(lines, last), <<>>)
  BY <1>1
<1> QED BY <1>2, <1>3

\* The lines a text ends, and its last piece: there are as many as newlines, and together they are
\* the text without these.
LEMMA PieceParts ==
  ASSUME NEW s \in Seq(Char)
  PROVE  /\ Front(Pieces(s)) \in Seq(Seq(Plain)) /\ Last(Pieces(s)) \in Seq(Plain)
         /\ Pieces(s) \in Seq(Seq(Plain)) /\ Pieces(s) # <<>>
         /\ Pieces(s) = Append(Front(Pieces(s)), Last(Pieces(s)))
         /\ Newlines(s) = Len(Front(Pieces(s)))
         /\ Without(s, "n") = FlattenSeq(Front(Pieces(s))) \o Last(Pieces(s))
<1> DEFINE Parts(t, lines, last) ==
             /\ Pieces(t) = Append(lines, last)
             /\ Newlines(t) = Len(lines)
             /\ Without(t, "n") = FlattenSeq(lines) \o last
           S == {t \in Seq(Char) : \E lines \in Seq(Seq(Plain)), last \in Seq(Plain) :
                                     Parts(t, lines, last)}
<1>1. <<>> \in S
  <2>1. Pieces(<<>>) = <<<<>>>> /\ Newlines(<<>>) = 0 /\ Without(<<>>, "n") = <<>>
        /\ FlattenSeq(<<>>) = <<>>
    BY PiecesEmpty, NewlinesEmpty, WithoutEmpty, FlattenEmpty
  <2>2. <<>> \in Seq(Seq(Plain)) /\ <<>> \in Seq(Plain) /\ <<>> \in Seq(Char) /\ Len(<<>>) = 0
        /\ Append(<<>>, <<>>) = <<<<>>>> /\ <<>> \o <<>> = <<>>
    BY EmptySeq, ConcatEmptySeq
  <2>3. Parts(<<>>, <<>>, <<>>)
    BY <2>1, <2>2
  <2> QED BY <2>2, <2>3
<1>2. ASSUME NEW t \in Seq(Char), NEW c \in Char, t \in S
      PROVE  Append(t, c) \in S
  <2>1. PICK lines \in Seq(Seq(Plain)), last \in Seq(Plain) : Parts(t, lines, last)
    BY <1>2
  <2>2. Append(t, c) \in Seq(Char)
    BY AppendProperties
  <2>3. Newlines(Append(t, c)) = IF c = "n" THEN Newlines(t) + 1 ELSE Newlines(t)
    BY NewlinesAppend
  <2>4. Without(Append(t, c), "n")
          = IF c = "n" THEN Without(t, "n") ELSE Append(Without(t, "n"), c)
    BY WithoutAppend
  <2>5. FlattenSeq(lines) \in Seq(Plain)
    BY FlattenType
  <2>6. CASE c = "n"
    <3> DEFINE more == Append(lines, last)
    <3>1. more \in Seq(Seq(Plain)) /\ Len(more) = Len(lines) + 1
      BY AppendProperties
    <3>2. FlattenSeq(more) = FlattenSeq(lines) \o last
      BY FlattenAppend
    <3>3. FlattenSeq(more) \o <<>> = FlattenSeq(more)
      BY <3>1, FlattenType, ConcatEmptySeq
    <3>4. Pieces(Append(t, c)) = Append(more, <<>>)
      BY <2>1, <2>6, PiecesGrow
    <3>5. <<>> \in Seq(Plain)
      BY EmptySeq
    <3>6. Parts(Append(t, c), more, <<>>)
      <4> HIDE DEF more
      <4>1. Newlines(Append(t, c)) = Len(more)
        BY <2>1, <2>3, <2>6, <3>1
      <4>2. Without(Append(t, c), "n") = FlattenSeq(more) \o <<>>
        BY <2>1, <2>4, <2>6, <3>2, <3>3
      <4> QED BY <3>4, <4>1, <4>2
    <3> QED BY <2>2, <3>1, <3>5, <3>6
  <2>7. CASE c # "n"
    <3> DEFINE longer == Append(last, c)
    <3>1. c \in Plain
      BY <2>7 DEF Plain
    <3>2. longer \in Seq(Plain)
      BY <3>1, AppendProperties
    <3>3. FlattenSeq(lines) \o longer = Append(FlattenSeq(lines) \o last, c)
      BY <2>5, <3>1, ConcatAppend
    <3>4. Pieces(Append(t, c)) = Append(lines, longer)
      BY <2>1, <2>7, PiecesGrow
    <3>5. Parts(Append(t, c), lines, longer)
      <4> HIDE DEF longer
      <4> QED BY <2>1, <2>3, <2>4, <2>7, <3>3, <3>4
    <3> QED BY <2>2, <3>2, <3>5
  <2> QED BY <2>6, <2>7
<1> HIDE DEF S
<1>3. Seq(Char) \subseteq S
  BY <1>1, <1>2, SequenceInduction
<1>4. PICK lines \in Seq(Seq(Plain)), last \in Seq(Plain) : Parts(s, lines, last)
  BY <1>3 DEF S
<1>5. Front(Pieces(s)) = lines /\ Last(Pieces(s)) = last
  BY <1>4, FrontLastOfAppend
<1>6. Append(lines, last) \in Seq(Seq(Plain)) /\ Append(lines, last) # <<>>
  BY AppendProperties
<1> QED BY <1>4, <1>5, <1>6

LEMMA PiecesPlain ==
  ASSUME NEW s \in Seq(Plain)
  PROVE  Pieces(s) = <<s>>
<1> DEFINE S == {t \in Seq(Plain) : Pieces(t) = <<t>>}
<1>1. <<>> \in S
  BY PiecesEmpty, EmptySeq
<1>2. ASSUME NEW t \in Seq(Plain), NEW c \in Plain, t \in S
      PROVE  Append(t, c) \in S
  <2>1. <<t>> = Append(<<>>, t) /\ <<>> \in Seq(Seq(Plain))
    BY EmptySeq
  <2>2. t \in Seq(Char) /\ c \in Char /\ c # "n"
    BY SeqMonotonic DEF Plain
  <2>3. Pieces(t) = Append(<<>>, t)
    BY <1>2, <2>1
  <2>4. Pieces(Append(t, c)) = Append(<<>>, Append(t, c))
    BY <2>1, <2>2, <2>3, PiecesGrow
  <2>5. Append(<<>>, Append(t, c)) = <<Append(t, c)>> /\ Append(t, c) \in Seq(Plain)
    BY AppendProperties
  <2> QED BY <2>4, <2>5
<1> HIDE DEF S
<1>3. Seq(Plain) \subseteq S
  BY <1>1, <1>2, SequenceInduction
<1> QED BY <1>3 DEF S

\* What follows goes on with the last piece.
LEMMA PiecesResume ==
  ASSUME NEW s \in Seq(Char), NEW t \in Seq(Char)
  PROVE  Pieces(s \o t) = Front(Pieces(s)) \o Pieces(Last(Pieces(s)) \o t)
<1> DEFINE F == Front(Pieces(s))
           l == Last(Pieces(s))
           S == {u \in Seq(Char) : Pieces(s \o u) = F \o Pieces(l \o u)}
<1>0. F \in Seq(Seq(Plain)) /\ l \in Seq(Plain) /\ Pieces(s) = Append(F, l) /\ l \in Seq(Char)
  <2>1. Plain \subseteq Char
    BY DEF Plain
  <2> QED BY <2>1, PieceParts, SeqMonotonic
<1> HIDE DEF F, l
<1>1. <<>> \in S
  <2>1. s \o <<>> = s /\ l \o <<>> = l /\ <<>> \in Seq(Char)
    BY <1>0, EmptySeq, ConcatEmptySeq
  <2>2. Pieces(l) = <<l>>
    BY <1>0, PiecesPlain
  <2>3. Append(F, l) = F \o <<l>>
    BY <1>0, AppendIsConcat
  <2> QED BY <1>0, <2>1, <2>2, <2>3
<1>2. ASSUME NEW u \in Seq(Char), NEW c \in Char, u \in S
      PROVE  Append(u, c) \in S
  <2>1. /\ s \o Append(u, c) = Append(s \o u, c) /\ s \o u \in Seq(Char)
        /\ Append(u, c) \in Seq(Char)
    BY ConcatAppend, ConcatProperties, AppendProperties
  <2>2. l \o Append(u, c) = Append(l \o u, c) /\ l \o u \in Seq(Char)
    BY <1>0, ConcatAppend, ConcatProperties
  <2> DEFINE G == Front(Pieces(l \o u))
             k == Last(Pieces(l \o u))
  <2>3. G \in Seq(Seq(Plain)) /\ k \in Seq(Plain) /\ Pieces(l \o u) = Append(G, k)
    BY <2>2, PieceParts
  <2> HIDE DEF G, k
  <2>4. F \o Append(G, k) = Append(F \o G, k) /\ F \o G \in Seq(Seq(Plain))
    BY <1>0, <2>3, ConcatAppend, ConcatProperties, SMTT(30)
  <2>5. Pieces(s \o u) = Append(F \o G, k)
    BY <1>2, <2>3, <2>4
  <2>6. CASE c = "n"
    <3>1. Pieces(Append(s \o u, c)) = Append(Append(F \o G, k), <<>>)
      <4> DEFINE v == s \o u
                 H == F \o G
      <4>1. v \in Seq(Char) /\ H \in Seq(Seq(Plain)) /\ Pieces(v) = Append(H, k)
        BY <2>1, <2>4, <2>5
      <4> HIDE DEF v, H
      <4>2. Pieces(Append(v, c)) = Append(Append(H, k), <<>>)
        BY <2>3, <2>6, <4>1, PiecesGrow
      <4> QED BY <4>2 DEF v, H
    <3>2. Pieces(Append(l \o u, c)) = Append(Append(G, k), <<>>)
      BY <2>2, <2>3, <2>6, PiecesGrow
    <3>3. F \o Append(Append(G, k), <<>>) = Append(F \o Append(G, k), <<>>)
      <4>1. Append(G, k) \in Seq(Seq(Plain)) /\ <<>> \in Seq(Plain)
        BY <2>3, AppendProperties, EmptySeq
      <4> QED BY <1>0, <4>1, ConcatAppend, SMTT(30)
    <3> QED BY <2>1, <2>2, <2>4, <3>1, <3>2, <3>3
  <2>7. CASE c # "n"
    <3>1. Append(k, c) \in Seq(Plain)
      BY <2>3, <2>7, AppendProperties DEF Plain
    <3>2. Pieces(Append(s \o u, c)) = Append(F \o G, Append(k, c))
      BY <2>1, <2>3, <2>4, <2>5, <2>7, PiecesGrow
    <3>3. Pieces(Append(l \o u, c)) = Append(G, Append(k, c))
      BY <2>2, <2>3, <2>7, PiecesGrow
    <3>4. F \o Append(G, Append(k, c)) = Append(F \o G, Append(k, c))
      BY <1>0, <2>3, <3>1, ConcatAppend, SMTT(30)
    <3> QED BY <2>1, <2>2, <3>2, <3>3, <3>4
  <2> QED BY <2>6, <2>7
<1> HIDE DEF S
<1>3. Seq(Char) \subseteq S
  BY <1>1, <1>2, SequenceInduction
<1> QED BY <1>3 DEF S, F, l

----------------------------------------------------------------------------
(* Entries *)

\* What projecting a record gives: entries without an identifier yet.
Projected == [line : Nat \ {0}, text : Seq(Char)]
\* Whatever has a text.
Texted == {e \in Projected \cup Entry : e.text \in Seq(Char)}

LEMMA MapAppend ==
  ASSUME NEW A, NEW B, NEW f \in [A -> B], NEW s \in Seq(A), NEW a \in A
  PROVE  /\ [i \in DOMAIN s |-> f[s[i]]] \in Seq(B)
         /\ [i \in DOMAIN Append(s, a) |-> f[Append(s, a)[i]]]
              = Append([i \in DOMAIN s |-> f[s[i]]], f[a])
<1> DEFINE t == Append(s, a)
           n == Len(s)
           g == [i \in DOMAIN s |-> f[s[i]]]
           h == [i \in DOMAIN t |-> f[t[i]]]
           k == Append(g, f[a])
<1>1. /\ t \in Seq(A) /\ Len(t) = n + 1 /\ n \in Nat /\ DOMAIN s = 1..n /\ DOMAIN t = 1..(n + 1)
      /\ \A i \in 1..n : t[i] = s[i] /\ s[i] \in A
      /\ t[n + 1] = a
  BY AppendProperties, LenProperties, ElementOfSeq
<1> HIDE DEF t, n
<1>2. g \in Seq(B) /\ Len(g) = n /\ \A i \in 1..n : g[i] = f[s[i]]
  <2>1. g \in [1..n -> B]
    BY <1>1
  <2>2. g \in Seq(B) /\ Len(g) = n
    <3> HIDE DEF g
    <3> QED BY <1>1, <2>1, SeqDef, LenProperties
  <2> QED BY <1>1, <2>2
<1>3. h \in Seq(B) /\ Len(h) = n + 1 /\ \A i \in 1..(n + 1) : h[i] = f[t[i]]
  <2>1. \A i \in 1..(n + 1) : t[i] \in A
    BY <1>1, ElementOfSeq
  <2>2. h \in [1..(n + 1) -> B]
    BY <1>1, <2>1
  <2>3. h \in Seq(B) /\ Len(h) = n + 1
    <3>1. n + 1 \in Nat
      BY <1>1
    <3> HIDE DEF h
    <3> QED BY <2>2, <3>1, SeqDef, LenProperties
  <2> QED BY <1>1, <2>3
<1>4. /\ k \in Seq(B) /\ Len(k) = n + 1
      /\ \A i \in 1..n : k[i] = g[i]
      /\ k[n + 1] = f[a]
  <2>1. f[a] \in B
    OBVIOUS
  <2> HIDE DEF g
  <2> QED BY <1>2, <2>1, AppendProperties
<1>5. \A i \in 1..(n + 1) : h[i] = k[i]
  <2>1. \A i \in 1..(n + 1) : i \in 1..n \/ i = n + 1
    BY <1>1
  <2>2. \A i \in 1..n : i \in 1..(n + 1)
    BY <1>1
  <2>3. n + 1 \in 1..(n + 1)
    BY <1>1
  <2>4. ASSUME NEW i \in 1..n
        PROVE  h[i] = k[i]
    <3>1. h[i] = f[t[i]]
      BY <2>2, <1>3
    <3>2. k[i] = g[i] /\ g[i] = f[s[i]] /\ t[i] = s[i]
      BY <1>1, <1>2, <1>4
    <3> QED BY <3>1, <3>2
  <2>5. h[n + 1] = k[n + 1]
    <3>1. h[n + 1] = f[t[n + 1]]
      BY <2>3, <1>3
    <3> QED BY <1>1, <1>4, <3>1
  <2> HIDE DEF g, h, k
  <2> QED BY <2>1, <2>4, <2>5
<1>6. h = k
  <2> HIDE DEF g, h, k
  <2> QED BY <1>3, <1>4, <1>5, SeqEqual
<1> QED BY <1>2, <1>6 DEF t

\* The texts of entries, in order.
TextSeq(entries) == [i \in DOMAIN entries |-> entries[i].text]

LEMMA TextSeqAppend ==
  ASSUME NEW s \in Seq(Texted), NEW e \in Texted
  PROVE  /\ TextSeq(s) \in Seq(Seq(Char))
         /\ TextSeq(Append(s, e)) = Append(TextSeq(s), e.text)
<1> DEFINE f == [x \in Texted |-> x.text]
           t == Append(s, e)
<1>1. f \in [Texted -> Seq(Char)]
  BY DEF Texted
<1>2. /\ DOMAIN s = 1..Len(s) /\ \A i \in 1..Len(s) : s[i] \in Texted
      /\ DOMAIN t = 1..Len(t) /\ \A i \in 1..Len(t) : t[i] \in Texted
  BY AppendProperties, LenProperties, ElementOfSeq
<1>3. /\ [i \in DOMAIN s |-> f[s[i]]] \in Seq(Seq(Char))
      /\ [i \in DOMAIN t |-> f[t[i]]] = Append([i \in DOMAIN s |-> f[s[i]]], f[e])
  <2> DEFINE B == Seq(Char)
  <2>1. f \in [Texted -> B]
    BY <1>1
  <2> HIDE DEF f, B
  <2>2. [i \in DOMAIN s |-> f[s[i]]] \in Seq(B)
    BY <2>1, MapAppend
  <2>3. [i \in DOMAIN Append(s, e) |-> f[Append(s, e)[i]]]
          = Append([i \in DOMAIN s |-> f[s[i]]], f[e])
    BY <2>1, MapAppend
  <2> QED BY <2>2, <2>3 DEF B
<1>4. [i \in DOMAIN s |-> f[s[i]]] = TextSeq(s) /\ [i \in DOMAIN t |-> f[t[i]]] = TextSeq(t)
      /\ f[e] = e.text
  <2> HIDE DEF t
  <2> QED BY <1>2 DEF TextSeq
<1> HIDE DEF f
<1> QED BY <1>3, <1>4

LEMMA TextsEmpty == \A s : s = <<>> => Texts(s) = <<>>
<1>1. \A s : s = <<>> => TextSeq(s) = <<>>
  BY DEF TextSeq
<1> QED BY <1>1, FlattenEmpty, WithoutEmpty DEF Texts, TextSeq

LEMMA TextsAppend ==
  ASSUME NEW s \in Seq(Texted), NEW e \in Texted
  PROVE  Texts(Append(s, e)) = Texts(s) \o Without(e.text, "n")
<1>1. e.text \in Seq(Char)
  BY DEF Texted
<1>2. TextSeq(s) \in Seq(Seq(Char)) /\ TextSeq(Append(s, e)) = Append(TextSeq(s), e.text)
  BY TextSeqAppend
<1>3. FlattenSeq(TextSeq(Append(s, e))) = FlattenSeq(TextSeq(s)) \o e.text
  BY <1>1, <1>2, FlattenAppend
<1>4. FlattenSeq(TextSeq(s)) \in Seq(Char)
  BY <1>2, FlattenType
<1>5. Without(FlattenSeq(TextSeq(s)) \o e.text, "n")
        = Without(FlattenSeq(TextSeq(s)), "n") \o Without(e.text, "n")
  BY <1>1, <1>4, WithoutConcat
<1> QED BY <1>3, <1>5 DEF Texts, TextSeq

LEMMA TextsType ==
  ASSUME NEW s \in Seq(Texted)
  PROVE  Texts(s) \in Seq(Plain)
<1> DEFINE S == {t \in Seq(Texted) : Texts(t) \in Seq(Plain)}
<1>1. <<>> \in S
  BY TextsEmpty, EmptySeq
<1>2. ASSUME NEW t \in Seq(Texted), NEW e \in Texted, t \in S
      PROVE  Append(t, e) \in S
  <2>1. Append(t, e) \in Seq(Texted)
    BY AppendProperties
  <2>2. Without(e.text, "n") \in Seq(Plain)
    BY WithoutType DEF Texted, Plain
  <2>3. Texts(t) \o Without(e.text, "n") \in Seq(Plain)
    BY <1>2, <2>2, ConcatProperties
  <2>4. Texts(Append(t, e)) = Texts(t) \o Without(e.text, "n")
    BY TextsAppend
  <2> QED BY <2>1, <2>3, <2>4
<1> HIDE DEF S
<1>3. Seq(Texted) \subseteq S
  BY <1>1, <1>2, SequenceInduction
<1> QED BY <1>3 DEF S

LEMMA TextsConcat ==
  ASSUME NEW s \in Seq(Texted), NEW t \in Seq(Texted)
  PROVE  Texts(s \o t) = Texts(s) \o Texts(t)
<1> DEFINE S == {u \in Seq(Texted) : Texts(s \o u) = Texts(s) \o Texts(u)}
<1>0. Texts(s) \in Seq(Plain)
  BY TextsType
<1>1. <<>> \in S
  <2>1. s \o <<>> = s /\ <<>> \in Seq(Texted) /\ Texts(s) \o <<>> = Texts(s)
    BY <1>0, EmptySeq, ConcatEmptySeq
  <2>2. Texts(<<>>) = <<>>
    BY TextsEmpty
  <2> QED BY <2>1, <2>2
<1>2. ASSUME NEW u \in Seq(Texted), NEW e \in Texted, u \in S
      PROVE  Append(u, e) \in S
  <2>1. /\ s \o Append(u, e) = Append(s \o u, e) /\ s \o u \in Seq(Texted)
        /\ Append(u, e) \in Seq(Texted)
    BY ConcatAppend, ConcatProperties, AppendProperties
  <2>2. \A v \in Seq(Texted) : Texts(Append(v, e)) = Texts(v) \o Without(e.text, "n")
    BY TextsAppend
  <2>a. Texts(u) \in Seq(Plain)
    BY TextsType
  <2>b. e.text \in Seq(Char)
    BY DEF Texted
  <2>3. Texts(u) \in Seq(Plain) /\ Without(e.text, "n") \in Seq(Plain)
    BY <2>a, <2>b, WithoutType DEF Plain
  <2>4. (Texts(s) \o Texts(u)) \o Without(e.text, "n")
          = Texts(s) \o (Texts(u) \o Without(e.text, "n"))
    BY <1>0, <2>3, PlainAssociative, Zenon
  <2>5. Texts(s \o Append(u, e)) = Texts(s) \o Texts(Append(u, e))
    BY <1>2, <2>1, <2>2, <2>4
  <2> QED BY <2>1, <2>5
<1> HIDE DEF S
<1>3. Seq(Texted) \subseteq S
  BY <1>1, <1>2, SequenceInduction
<1> QED BY <1>3 DEF S

----------------------------------------------------------------------------
(* Projecting records to entries *)

LEMMA ProjectLinesAppend ==
  ASSUME NEW A, NEW lines \in Seq(A), NEW line \in A
  PROVE  ProjectLines(Append(lines, line)) = ProjectLine(ProjectLines(lines), Len(lines) + 1, line)
<1> DEFINE n == Len(lines)
           more == Append(lines, line)
           first == [i \in 1..n |-> i]
           all == [i \in 1..(n + 1) |-> i]
<1>1. /\ n \in Nat /\ DOMAIN lines = 1..n /\ DOMAIN more = 1..(n + 1) /\ more[n + 1] = line
      /\ \A i \in 1..n : more[i] = lines[i]
  BY AppendProperties, LenProperties
<1> HIDE DEF n, more
<1>2. first \in Seq(1..n) /\ first \in Seq(1..(n + 1)) /\ Len(first) = n
  <2>1. first \in [1..n -> 1..n] /\ first \in [1..n -> 1..(n + 1)]
    BY <1>1
  <2> HIDE DEF first
  <2> QED BY <1>1, <2>1, SeqDef, LenProperties
<1>3. all = Append(first, n + 1)
  <2>1. all \in Seq(1..(n + 1)) /\ Len(all) = n + 1
    <3>1. all \in [1..(n + 1) -> 1..(n + 1)] /\ n + 1 \in Nat
      BY <1>1
    <3> HIDE DEF all
    <3> QED BY <3>1, SeqDef, LenProperties
  <2>2. n + 1 \in 1..(n + 1)
    BY <1>1
  <2>3. /\ Append(first, n + 1) \in Seq(1..(n + 1)) /\ Len(Append(first, n + 1)) = n + 1
        /\ \A i \in 1..n : Append(first, n + 1)[i] = first[i]
        /\ Append(first, n + 1)[n + 1] = n + 1
    <3> HIDE DEF first
    <3> QED BY <1>2, <2>2, AppendProperties
  <2>4. \A i \in 1..(n + 1) : i \in 1..n \/ i = n + 1
    BY <1>1
  <2>5. \A i \in 1..(n + 1) : all[i] = Append(first, n + 1)[i]
    <3>1. \A i \in 1..n : first[i] = i
      OBVIOUS
    <3>2. \A i \in 1..(n + 1) : all[i] = i
      OBVIOUS
    <3> HIDE DEF first, all
    <3> QED BY <2>3, <2>4, <3>1, <3>2
  <2> HIDE DEF first, all
  <2> QED BY <2>1, <2>3, <2>5, SeqEqual
<1>4. ProjectLines(lines) = Projects!Fold(lines, <<>>, first)
  BY <1>1, ProjectIsFold
<1>5. ProjectLines(more) = Projects!Fold(more, <<>>, all)
  BY <1>1, ProjectIsFold
<1>6. Projects!Fold(more, <<>>, first) = Projects!Fold(lines, <<>>, first)
  <2>1. \A entries : \A i \in 1..n :
          ProjectStep(more, entries, i) = ProjectStep(lines, entries, i)
    BY <1>1 DEF ProjectStep
  <2> HIDE DEF first
  <2> QED BY <1>2, <2>1, Induction, Projects!FoldSame
<1>7. Projects!Fold(more, <<>>, Append(first, n + 1))
        = ProjectStep(more, Projects!Fold(more, <<>>, first), n + 1)
  <2>1. n + 1 \in 1..(n + 1)
    BY <1>1
  <2> HIDE DEF first
  <2> QED BY <1>2, <2>1, Induction, Projects!FoldAppend
<1>8. ProjectStep(more, Projects!Fold(more, <<>>, first), n + 1)
        = ProjectLine(ProjectLines(lines), n + 1, line)
  BY <1>1, <1>4, <1>6 DEF ProjectStep
<1> HIDE DEF all, first
<1> QED BY <1>3, <1>5, <1>7, <1>8 DEF n, more

LEMMA ProjectLinesEmpty == \A s : s = <<>> => ProjectLines(s) = <<>>
<1>1. \A s : s = <<>> => [i \in DOMAIN s |-> i] = <<>>
  OBVIOUS
<1> QED BY <1>1, ProjectIsFold, Induction, Projects!FoldEmpty

\* An entry is added, the last one gets one more line, or an empty line adds nothing.
LEMMA ProjectLineGives ==
  ASSUME NEW entries \in Seq(Projected), NEW i \in Nat \ {0}, NEW line \in Seq(Plain)
  PROVE  /\ ProjectLine(entries, i, line) \in Seq(Projected)
         /\ Texts(ProjectLine(entries, i, line)) = Texts(entries) \o line
<1> DEFINE out == ProjectLine(entries, i, line)
<1>0. /\ line \in Seq(Char) /\ Without(line, "n") = line
      /\ Projected \subseteq Texted /\ entries \in Seq(Texted)
      /\ Texts(entries) \in Seq(Plain)
  <2>1. Plain \subseteq Char /\ Projected \subseteq Texted
    BY DEF Plain, Projected, Texted
  <2>2. line \in Seq(Char) /\ entries \in Seq(Texted)
    BY <2>1, SeqMonotonic
  <2> QED BY <2>1, <2>2, TextsType, WithoutNone DEF Plain
<1>1. CASE line # <<>> /\ (entries = <<>> \/ is_record_header(line))
  <2> DEFINE e == [line |-> i, text |-> line]
  <2>1. e \in Projected /\ e.text = line
    BY <1>0 DEF Projected
  <2>2. out = Append(entries, e)
    BY <1>1 DEF ProjectLine
  <2> HIDE DEF e, out
  <2>3. out \in Seq(Projected)
    BY <2>1, <2>2, AppendProperties
  <2>4. e \in Texted
    BY <1>0, <2>1
  <2>5. Texts(out) = Texts(entries) \o Without(e.text, "n")
    BY <1>0, <2>2, <2>4, TextsAppend
  <2> QED BY <1>0, <2>1, <2>3, <2>5 DEF out
<1>2. CASE entries # <<>> /\ ~is_record_header(line)
  <2> DEFINE F == Front(entries)
             e == Last(entries)
             longer == [e EXCEPT !.text = @ \o <<"n">> \o line]
  <2>1. F \in Seq(Projected) /\ e \in Projected /\ entries = Append(F, e)
    BY <1>2, FrontLast
  <2>2. e.text \in Seq(Char) /\ <<"n">> \in Seq(Char)
    BY <2>1 DEF Projected, Char
  <2>3. e.text \o <<"n">> \in Seq(Char)
    BY <2>2, ConcatProperties
  <2>4. e.text \o <<"n">> \o line \in Seq(Char)
    BY <1>0, <2>3, ConcatProperties
  <2>5. longer \in Projected /\ longer.text = e.text \o <<"n">> \o line
    BY <2>1, <2>4 DEF Projected
  <2>6. ProjectLine(entries, i, line) = [entries EXCEPT ![Len(entries)].text = @ \o <<"n">> \o line]
    BY <1>2 DEF ProjectLine
  <2>7. e = entries[Len(entries)]
    BY DEF Last
  <2>8. [entries EXCEPT ![Len(entries)].text = @ \o <<"n">> \o line]
          = [entries EXCEPT ![Len(entries)] = longer]
    BY <2>7
  <2>9. [entries EXCEPT ![Len(entries)] = longer] = Append(F, longer)
    <3>1. \A q \in Seq(Projected), a, b \in Projected :
            [Append(q, a) EXCEPT ![Len(Append(q, a))] = b] = Append(q, b)
      BY ChangedLast
    <3> HIDE DEF F, e, longer
    <3> QED BY <2>1, <2>5, <3>1, Zenon
  <2>10. out = Append(F, longer)
    BY <2>6, <2>8, <2>9
  <2>11. Without(longer.text, "n") = Without(e.text, "n") \o line
    <3>1. Without(e.text \o <<"n">> \o line, "n")
            = Without(e.text \o <<"n">>, "n") \o Without(line, "n")
      <4> DEFINE v == e.text \o <<"n">>
      <4>1. v \in Seq(Char)
        BY <2>3
      <4> HIDE DEF v
      <4>2. \A s, t \in Seq(Char) : Without(s \o t, "n") = Without(s, "n") \o Without(t, "n")
        BY WithoutConcat
      <4>3. Without(v \o line, "n") = Without(v, "n") \o Without(line, "n")
        BY <1>0, <4>1, <4>2, Zenon
      <4> QED BY <4>3 DEF v
    <3>2. Without(e.text \o <<"n">>, "n") = Without(e.text, "n")
      <4>1. e.text \o <<"n">> = Append(e.text, "n")
        BY <2>2, AppendIsConcat DEF Char
      <4>2. Without(Append(e.text, "n"), "n") = Without(e.text, "n")
        BY <2>2, WithoutAppend DEF Char
      <4> QED BY <4>1, <4>2
    <3> QED BY <1>0, <2>5, <3>1, <3>2
  <2> HIDE DEF F, e, longer, out
  <2>12. F \in Seq(Texted) /\ e \in Texted /\ longer \in Texted
    BY <1>0, <2>1, <2>5, SeqMonotonic
  <2>13. Texts(entries) = Texts(F) \o Without(e.text, "n")
    BY <2>1, <2>12, TextsAppend
  <2>14. Texts(out) = Texts(F) \o (Without(e.text, "n") \o line)
    BY <2>10, <2>11, <2>12, TextsAppend
  <2>15. Texts(F) \in Seq(Plain) /\ Without(e.text, "n") \in Seq(Plain)
    BY <2>2, <2>12, TextsType, WithoutType DEF Plain
  <2>16. Texts(out) = Texts(entries) \o line
    <3>1. (Texts(F) \o Without(e.text, "n")) \o line = Texts(F) \o (Without(e.text, "n") \o line)
      BY <2>15, PlainAssociative, Zenon
    <3> QED BY <2>13, <2>14, <3>1
  <2>17. out \in Seq(Projected)
    BY <2>1, <2>5, <2>10, AppendProperties
  <2> QED BY <2>16, <2>17 DEF out
<1>3. CASE /\ ~(line # <<>> /\ (entries = <<>> \/ is_record_header(line)))
           /\ ~(entries # <<>> /\ ~is_record_header(line))
  <2>1. line = <<>>
    BY <1>3
  <2>2. out = entries
    BY <1>3 DEF ProjectLine
  <2>3. Texts(entries) \o line = Texts(entries)
    BY <1>0, <2>1, ConcatEmptySeq
  <2> QED BY <2>2, <2>3
<1> QED BY <1>1, <1>2, <1>3

LEMMA ProjectLinesGive ==
  ASSUME NEW lines \in Seq(Seq(Plain))
  PROVE  ProjectLines(lines) \in Seq(Projected) /\ Texts(ProjectLines(lines)) = FlattenSeq(lines)
<1> DEFINE S == {ls \in Seq(Seq(Plain)) : /\ ProjectLines(ls) \in Seq(Projected)
                                          /\ Texts(ProjectLines(ls)) = FlattenSeq(ls)}
<1>1. <<>> \in S
  <2>1. ProjectLines(<<>>) = <<>> /\ Texts(<<>>) = <<>> /\ FlattenSeq(<<>>) = <<>>
    BY ProjectLinesEmpty, TextsEmpty, FlattenEmpty
  <2> QED BY <2>1, EmptySeq
<1>2. ASSUME NEW ls \in Seq(Seq(Plain)), NEW l \in Seq(Plain), ls \in S
      PROVE  Append(ls, l) \in S
  <2> DEFINE entries == ProjectLines(ls)
             n == Len(ls) + 1
  <2>1. Append(ls, l) \in Seq(Seq(Plain)) /\ n \in Nat \ {0}
    BY AppendProperties, LenProperties
  <2>2. ProjectLines(Append(ls, l)) = ProjectLine(entries, n, l)
    BY ProjectLinesAppend
  <2>3. entries \in Seq(Projected) /\ Texts(entries) = FlattenSeq(ls)
    BY <1>2
  <2>4. FlattenSeq(Append(ls, l)) = FlattenSeq(ls) \o l
    BY FlattenAppend
  <2> HIDE DEF entries, n
  <2>5. ProjectLine(entries, n, l) \in Seq(Projected)
        /\ Texts(ProjectLine(entries, n, l)) = Texts(entries) \o l
    BY <2>1, <2>3, ProjectLineGives
  <2> QED BY <2>1, <2>2, <2>3, <2>4, <2>5
<1> HIDE DEF S
<1>3. Seq(Seq(Plain)) \subseteq S
  BY <1>1, <1>2, SequenceInduction
<1> QED BY <1>3 DEF S

LEMMA PiecesFlatten ==
  ASSUME NEW s \in Seq(Char)
  PROVE  FlattenSeq(Pieces(s)) = Without(s, "n") /\ Len(Pieces(s)) = Newlines(s) + 1
<1> DEFINE S == {u \in Seq(Char) : /\ FlattenSeq(Pieces(u)) = Without(u, "n")
                                   /\ Len(Pieces(u)) = Newlines(u) + 1}
<1>1. <<>> \in S
  <2>1. Pieces(<<>>) = <<<<>>>> /\ Without(<<>>, "n") = <<>> /\ Newlines(<<>>) = 0
    BY PiecesEmpty, WithoutEmpty, NewlinesEmpty
  <2>2. FlattenSeq(<<<<>>>>) = <<>>
    <3>1. <<<<>>>> = Append(<<>>, <<>>) /\ <<>> \in Seq(Seq(Plain)) /\ <<>> \in Seq(Plain)
      BY EmptySeq
    <3>2. FlattenSeq(Append(<<>>, <<>>)) = FlattenSeq(<<>>) \o <<>>
      <4>1. \A q \in Seq(Seq(Plain)), a \in Seq(Plain) :
              FlattenSeq(Append(q, a)) = FlattenSeq(q) \o a
        BY FlattenAppend
      <4> QED BY <3>1, <4>1, Zenon
    <3>3. FlattenSeq(<<>>) = <<>>
      BY FlattenEmpty
    <3> QED BY <3>1, <3>2, <3>3
  <2>3. Len(<<<<>>>>) = 1 /\ <<>> \in Seq(Char)
    BY EmptySeq
  <2>4. Len(Pieces(<<>>)) = Newlines(<<>>) + 1
    <3>1. Len(Pieces(<<>>)) = 1
      BY <2>1, <2>3, Zenon
    <3>2. Newlines(<<>>) = 0
      BY <2>1, Zenon
    <3>3. \A a, b : a = 1 /\ b = 0 => a = b + 1
      OBVIOUS
    <3> QED BY <3>1, <3>2, <3>3, Zenon
  <2>5. FlattenSeq(Pieces(<<>>)) = Without(<<>>, "n")
    BY <2>1, <2>2
  <2> QED BY <2>3, <2>4, <2>5
<1>2. ASSUME NEW u \in Seq(Char), NEW c \in Char, u \in S
      PROVE  Append(u, c) \in S
  <2> DEFINE lines == Front(Pieces(u))
             last == Last(Pieces(u))
  <2>1. lines \in Seq(Seq(Plain)) /\ last \in Seq(Plain) /\ Pieces(u) = Append(lines, last)
    BY PieceParts
  <2>2. FlattenSeq(Append(lines, last)) = Without(u, "n") /\ Len(Append(lines, last)) = Newlines(u) + 1
    BY <1>2, <2>1
  <2>3. /\ c = "n" => Pieces(Append(u, c)) = Append(Append(lines, last), <<>>)
        /\ c # "n" => Pieces(Append(u, c)) = Append(lines, Append(last, c))
    <3> HIDE DEF lines, last
    <3> QED BY <2>1, PiecesGrow
  <2>4. Without(Append(u, c), "n") = IF c = "n" THEN Without(u, "n") ELSE Append(Without(u, "n"), c)
    BY WithoutAppend
  <2>5. Newlines(Append(u, c)) = IF c = "n" THEN Newlines(u) + 1 ELSE Newlines(u)
    BY NewlinesAppend
  <2>6. Append(u, c) \in Seq(Char) /\ Newlines(u) \in Nat
    BY AppendProperties, NewlinesType
  <2> HIDE DEF lines, last
  <2>7. FlattenSeq(Append(lines, last)) = FlattenSeq(lines) \o last
    BY <2>1, FlattenAppend
  <2>8. FlattenSeq(lines) \in Seq(Plain)
    BY <2>1, FlattenType
  <2>9. CASE c = "n"
    <3> DEFINE p == Append(lines, last)
    <3>1. p \in Seq(Seq(Plain)) /\ <<>> \in Seq(Plain)
      BY <2>1, AppendProperties, EmptySeq
    <3>2. FlattenSeq(p) \in Seq(Plain)
      BY <2>1, <2>7, <2>8, ConcatProperties
    <3> HIDE DEF p
    <3>3. FlattenSeq(Append(p, <<>>)) = FlattenSeq(p)
      <4>1. \A a \in Seq(Plain) : FlattenSeq(Append(p, a)) = FlattenSeq(p) \o a
        BY <3>1, FlattenAppend
      <4> QED BY <3>1, <3>2, <4>1, ConcatEmptySeq
    <3>4. Len(Append(p, <<>>)) = Len(p) + 1
      BY <3>1, AppendProperties
    <3> QED BY <2>2, <2>3, <2>4, <2>5, <2>6, <2>9, <3>3, <3>4 DEF p
  <2>10. CASE c # "n"
    <3>1. c \in Plain
      BY <2>10 DEF Plain
    <3>2. Append(last, c) \in Seq(Plain)
      BY <2>1, <3>1, AppendProperties
    <3>3. FlattenSeq(Append(lines, Append(last, c))) = FlattenSeq(lines) \o Append(last, c)
      <4>1. \A a \in Seq(Plain) : FlattenSeq(Append(lines, a)) = FlattenSeq(lines) \o a
        BY <2>1, FlattenAppend
      <4> QED BY <3>2, <4>1, Zenon
    <3>4. FlattenSeq(lines) \o Append(last, c) = Append(FlattenSeq(lines) \o last, c)
      BY <2>1, <2>8, <3>1, ConcatAppend
    <3>5. Len(Append(lines, Append(last, c))) = Len(Append(lines, last))
      BY <2>1, <3>2, AppendProperties
    <3> QED BY <2>2, <2>3, <2>4, <2>5, <2>6, <2>7, <2>10, <3>3, <3>4, <3>5
  <2> QED BY <2>9, <2>10
<1> HIDE DEF S
<1>3. Seq(Char) \subseteq S
  BY <1>1, <1>2, SequenceInduction
<1> QED BY <1>3 DEF S

LEMMA EndedFlatten ==
  ASSUME NEW p \in Seq(Seq(Plain)), p # <<>>
  PROVE  Ended(p) \in Seq(Seq(Plain)) /\ FlattenSeq(Ended(p)) = FlattenSeq(p)
<1> DEFINE F == Front(p)
           l == Last(p)
<1>1. F \in Seq(Seq(Plain)) /\ l \in Seq(Plain) /\ p = Append(F, l)
  BY FrontLast
<1>2. Ended(p) = IF l = <<>> THEN F ELSE p
  BY DEF Ended
<1> HIDE DEF F, l
<1>3. FlattenSeq(p) = FlattenSeq(F) \o l
  BY <1>1, FlattenAppend
<1>4. FlattenSeq(F) \in Seq(Plain)
  BY <1>1, FlattenType
<1>5. l = <<>> => FlattenSeq(p) = FlattenSeq(F)
  BY <1>3, <1>4, ConcatEmptySeq
<1> QED BY <1>1, <1>2, <1>5

\* A record: what the framing has completed.
Record == [content : Seq(Char), split : BOOLEAN]

\* project_logical_record loses no character of the record but its newlines.
LEMMA ProjectRecordGives ==
  ASSUME NEW record \in Record
  PROVE  /\ project_logical_record(record) \in Seq(Projected)
         /\ Texts(project_logical_record(record)) = Without(record.content, "n")
<1> DEFINE p == Pieces(record.content)
           lines == IF record.split /\ Len(p) > 1 THEN Ended(p) ELSE p
<1>1. record.content \in Seq(Char)
  BY DEF Record
<1>2. p \in Seq(Seq(Plain)) /\ p # <<>> /\ FlattenSeq(p) = Without(record.content, "n")
  BY <1>1, PieceParts, PiecesFlatten
<1>3. project_logical_record(record) = ProjectLines(lines)
  BY DEF project_logical_record
<1> HIDE DEF p
<1>4. lines \in Seq(Seq(Plain)) /\ FlattenSeq(lines) = FlattenSeq(p)
  BY <1>2, EndedFlatten
<1> HIDE DEF lines
<1> QED BY <1>2, <1>3, <1>4, ProjectLinesGive

LEMMA RebasedGives ==
  ASSUME NEW entries \in Seq(Projected), NEW n \in Nat \ {0}
  PROVE  Rebased(entries, n) \in Seq(Projected) /\ Texts(Rebased(entries, n)) = Texts(entries)
<1> DEFINE out == Rebased(entries, n)
<1>1. DOMAIN entries = 1..Len(entries) /\ Len(entries) \in Nat
      /\ \A i \in 1..Len(entries) : entries[i] \in Projected
  BY LenProperties, ElementOfSeq
<1>2. out = [i \in 1..Len(entries) |-> [entries[i] EXCEPT !.line = n + @ - 1]]
  BY <1>1 DEF Rebased
<1>3. ASSUME NEW i \in 1..Len(entries)
      PROVE  /\ [entries[i] EXCEPT !.line = n + @ - 1] \in Projected
             /\ [entries[i] EXCEPT !.line = n + @ - 1].text = entries[i].text
  <2>1. entries[i].line \in Nat \ {0} /\ entries[i] \in Projected
    BY <1>1 DEF Projected
  <2>2. n + entries[i].line - 1 \in Nat \ {0}
    BY <2>1
  <2> QED BY <2>1, <2>2 DEF Projected
<1>4. out \in [1..Len(entries) -> Projected]
  BY <1>2, <1>3
<1>5. out \in Seq(Projected)
  <2> HIDE DEF out
  <2> QED BY <1>1, <1>4, SeqDef
<1>6. [i \in DOMAIN out |-> out[i].text] = [i \in DOMAIN entries |-> entries[i].text]
  <2>1. DOMAIN out = DOMAIN entries
    BY <1>1, <1>2
  <2>2. \A i \in DOMAIN entries : out[i].text = entries[i].text
    BY <1>1, <1>2, <1>3
  <2> HIDE DEF out
  <2> QED BY <2>1, <2>2
<1>7. Texts(out) = Texts(entries)
  <2> HIDE DEF out
  <2> QED BY <1>6 DEF Texts
<1> QED BY <1>5, <1>7

LEMMA ParseEmpty ==
  \A n, s : s = <<>> => parse_framed_records(s, n) = [entries |-> <<>>, next |-> n]
BY ParseIsFold, Induction, Parses!FoldEmpty

LEMMA ParseAppend ==
  ASSUME NEW A, NEW records \in Seq(A), NEW record \in A, NEW n
  PROVE  LET parsed == parse_framed_records(records, n)
         IN parse_framed_records(Append(records, record), n)
              = [entries |-> parsed.entries \o Rebased(project_logical_record(record), parsed.next),
                 next |-> parsed.next + physical_lines(record)]
<1>1. Parses!Fold(0, [entries |-> <<>>, next |-> n], Append(records, record))
        = ParseStep(0, Parses!Fold(0, [entries |-> <<>>, next |-> n], records), record)
  BY Induction, Parses!FoldAppend
<1> QED BY <1>1, ParseIsFold DEF ParseStep

LEMMA LinesOfRecord ==
  ASSUME NEW record \in Record
  PROVE  physical_lines(record) \in Nat
BY NewlinesType DEF physical_lines, Record

LEMMA ParseType ==
  ASSUME NEW records \in Seq(Record), NEW n \in Nat \ {0}
  PROVE  parse_framed_records(records, n) \in [entries : Seq(Projected), next : Nat \ {0}]
<1> DEFINE T == [entries : Seq(Projected), next : Nat \ {0}]
           base == [entries |-> <<>>, next |-> n]
<1>1. base \in T
  BY EmptySeq
<1>2. ASSUME NEW parsed \in T, NEW record \in Record
      PROVE  ParseStep(0, parsed, record) \in T
  <2>1. project_logical_record(record) \in Seq(Projected) /\ physical_lines(record) \in Nat
    BY ProjectRecordGives, LinesOfRecord
  <2>2. parsed.next \in Nat \ {0} /\ parsed.entries \in Seq(Projected)
    OBVIOUS
  <2>3. Rebased(project_logical_record(record), parsed.next) \in Seq(Projected)
    BY <2>1, <2>2, RebasedGives
  <2>4. parsed.entries \o Rebased(project_logical_record(record), parsed.next) \in Seq(Projected)
    BY <2>2, <2>3, ConcatProperties
  <2>5. parsed.next + physical_lines(record) \in Nat \ {0}
    BY <2>1, <2>2
  <2> QED BY <2>4, <2>5 DEF ParseStep
<1> HIDE DEF T, base
<1>3. Parses!Fold(0, base, records) \in T
  BY <1>1, <1>2, Induction, Parses!FoldStays
<1> QED BY <1>3, ParseIsFold DEF base, T

\* The entries of one more record: its text, and its physical lines.
LEMMA ParseAppendGives ==
  ASSUME NEW records \in Seq(Record), NEW record \in Record, NEW n \in Nat \ {0}
  PROVE  /\ Texts(parse_framed_records(Append(records, record), n).entries)
              = Texts(parse_framed_records(records, n).entries) \o Without(record.content, "n")
         /\ parse_framed_records(Append(records, record), n).next
              = parse_framed_records(records, n).next + physical_lines(record)
<1> DEFINE parsed == parse_framed_records(records, n)
           new == project_logical_record(record)
           moved == Rebased(new, parsed.next)
<1>1. parsed.entries \in Seq(Projected) /\ parsed.next \in Nat \ {0}
  BY ParseType
<1>2. new \in Seq(Projected) /\ Texts(new) = Without(record.content, "n")
  BY ProjectRecordGives
<1>3. parse_framed_records(Append(records, record), n)
        = [entries |-> parsed.entries \o moved, next |-> parsed.next + physical_lines(record)]
  BY ParseAppend
<1> HIDE DEF parsed, new
<1>4. moved \in Seq(Projected) /\ Texts(moved) = Texts(new)
  BY <1>1, <1>2, RebasedGives
<1> HIDE DEF moved
<1>5. parsed.entries \in Seq(Texted) /\ moved \in Seq(Texted)
  <2>1. Projected \subseteq Texted
    BY DEF Projected, Texted
  <2> QED BY <1>1, <1>4, <2>1, SeqMonotonic
<1>6. Texts(parsed.entries \o moved) = Texts(parsed.entries) \o Texts(moved)
  <2> DEFINE e == parsed.entries
  <2>1. e \in Seq(Texted)
    BY <1>5
  <2> HIDE DEF e
  <2>2. Texts(e \o moved) = Texts(e) \o Texts(moved)
    BY <1>5, <2>1, TextsConcat
  <2> QED BY <2>2 DEF e
<1>7. /\ parse_framed_records(Append(records, record), n).entries = parsed.entries \o moved
      /\ parse_framed_records(Append(records, record), n).next
           = parsed.next + physical_lines(record)
  BY <1>3
<1>8. Texts(moved) = Without(record.content, "n")
  BY <1>2, <1>4
<1>9. Texts(parse_framed_records(Append(records, record), n).entries)
        = Texts(parsed.entries) \o Without(record.content, "n")
  BY <1>6, <1>7, <1>8
<1> QED BY <1>7, <1>9 DEF parsed

LEMMA OverflowEmpty == \A s : s = <<>> => overflow_count(s) = 0
BY OverflowIsFold, Induction, Overflows!FoldEmpty

LEMMA OverflowType ==
  ASSUME NEW records \in Seq(Record)
  PROVE  overflow_count(records) \in Nat
<1>1. \A count \in Nat, record \in Record : OverflowStep(0, count, record) \in Nat
  BY DEF OverflowStep
<1> QED BY <1>1, OverflowIsFold, Induction, Overflows!FoldStays

----------------------------------------------------------------------------
(* Framing *)

\* A pending record, which the bound limits, and a framing.
Within == {text \in Seq(Char) : Size(text) <= Cap}
Pending == {None} \cup {Some(text) : text \in Within}
Frames == [done : Seq(Record), pending : Pending]

\* The characters a framing holds, in its completed records and in its pending
\* one, and the line after them, for completed records that start at line n.
Told(g, n) ==
  Texts(parse_framed_records(g.done, n).entries)
    \o (IF g.pending = None THEN <<>> ELSE Without(g.pending[1], "n"))
AtLine(g, n) ==
  parse_framed_records(g.done, n).next
    + (IF g.pending = None THEN 0 ELSE Newlines(g.pending[1]) + 1)

LEMMA PendingText ==
  ASSUME NEW p \in Pending, p # None
  PROVE  p[1] \in Within /\ p[1] \in Seq(Char) /\ p = Some(p[1])
BY DEF Pending, Within, Some, None

LEMMA SomeText == \A text \in Within : Some(text) \in Pending /\ Some(text) # None /\ Some(text)[1] = text
BY DEF Pending, Some, None

LEMMA RecordTypes ==
  ASSUME NEW text \in Seq(Char)
  PROVE  /\ complete(text) \in Record /\ complete(text).content = text
         /\ physical_lines(complete(text)) = Newlines(text) + 1
         /\ split(text) \in Record /\ split(text).content = text
         /\ physical_lines(split(text)) = Newlines(text)
<1>1. Newlines(text) \in Nat
  BY NewlinesType
<1> QED BY <1>1 DEF complete, split, Record, physical_lines

LEMMA DoneTypes ==
  ASSUME NEW done \in Seq(Record), NEW n \in Nat \ {0}
  PROVE  /\ Texts(parse_framed_records(done, n).entries) \in Seq(Plain)
         /\ parse_framed_records(done, n).next \in Nat \ {0}
<1> DEFINE parsed == parse_framed_records(done, n)
<1>1. parsed.entries \in Seq(Projected) /\ parsed.next \in Nat \ {0}
  BY ParseType
<1> HIDE DEF parsed
<1>2. Projected \subseteq Texted
  BY DEF Projected, Texted
<1>3. parsed.entries \in Seq(Texted)
  BY <1>1, <1>2, SeqMonotonic
<1>4. \A s \in Seq(Texted) : Texts(s) \in Seq(Plain)
  BY TextsType
<1> QED BY <1>1, <1>3, <1>4, Zenon DEF parsed

LEMMA ToldType ==
  ASSUME NEW g \in Frames, NEW n \in Nat \ {0}
  PROVE  Told(g, n) \in Seq(Plain) /\ AtLine(g, n) \in Nat \ {0}
<1>1. g.done \in Seq(Record) /\ g.pending \in Pending
  BY DEF Frames
<1> DEFINE D == Texts(parse_framed_records(g.done, n).entries)
           P == IF g.pending = None THEN <<>> ELSE Without(g.pending[1], "n")
           N == parse_framed_records(g.done, n).next
           M == IF g.pending = None THEN 0 ELSE Newlines(g.pending[1]) + 1
<1>2. D \in Seq(Plain) /\ N \in Nat \ {0}
  BY <1>1, DoneTypes
<1>3. P \in Seq(Plain) /\ M \in Nat
  <2>1. CASE g.pending = None
    BY <2>1, EmptySeq
  <2>2. CASE g.pending # None
    <3> DEFINE t == g.pending[1]
    <3>1. t \in Seq(Char)
      BY <1>1, <2>2, PendingText
    <3> HIDE DEF t
    <3>2. Without(t, "n") \in Seq(Plain) /\ Newlines(t) \in Nat
      BY <3>1, WithoutType, NewlinesType DEF Plain
    <3> QED BY <2>2, <3>2 DEF t
  <2> QED BY <2>1, <2>2
<1>4. Told(g, n) = D \o P /\ AtLine(g, n) = N + M
  BY DEF Told, AtLine
<1> HIDE DEF D, P, N, M
<1> QED BY <1>2, <1>3, <1>4, ConcatProperties

\* Completing the pending text as a record, or cutting a piece off it, keeps both.
LEMMA DoneGrows ==
  ASSUME NEW done \in Seq(Record), NEW record \in Record, NEW n \in Nat \ {0}
  PROVE  /\ Append(done, record) \in Seq(Record)
         /\ Texts(parse_framed_records(Append(done, record), n).entries)
              = Texts(parse_framed_records(done, n).entries) \o Without(record.content, "n")
         /\ parse_framed_records(Append(done, record), n).next
              = parse_framed_records(done, n).next + physical_lines(record)
BY ParseAppendGives, AppendProperties

LEMMA AppendCharacterGives ==
  ASSUME NEW g \in Frames, g.pending # None, NEW c \in Char, NEW n \in Nat \ {0}
  PROVE  /\ append_character(g, c) \in Frames /\ append_character(g, c).pending # None
         /\ Told(append_character(g, c), n)
              = IF c = "n" THEN Told(g, n) ELSE Append(Told(g, n), c)
         /\ AtLine(append_character(g, c), n)
              = IF c = "n" THEN AtLine(g, n) + 1 ELSE AtLine(g, n)
<1> DEFINE out == append_character(g, c)
           t == g.pending[1]
           D == Texts(parse_framed_records(g.done, n).entries)
           N == parse_framed_records(g.done, n).next
<1>1. g.done \in Seq(Record) /\ g.pending \in Pending
  BY DEF Frames
<1>2. t \in Within /\ t \in Seq(Char)
  BY <1>1, PendingText
<1>3. D \in Seq(Plain) /\ N \in Nat \ {0}
  BY <1>1, DoneTypes
<1>4. Told(g, n) = D \o Without(t, "n") /\ AtLine(g, n) = N + (Newlines(t) + 1)
  BY DEF Told, AtLine
<1>5. Newlines(t) \in Nat /\ Without(t, "n") \in Seq(Plain) /\ Size(t) \in Nat
  <2> HIDE DEF t
  <2> QED BY <1>2, NewlinesType, WithoutType, SizeType DEF Plain
<1>6. Width(c) \in Nat /\ Width(c) <= Cap /\ Cap \in Nat
  BY CapAssumption DEF Width
<1>7. CASE Size(t) + Width(c) <= Cap
  <2> DEFINE u == Append(t, c)
  <2>1. out = [g EXCEPT !.pending = Some(u)]
    BY <1>7 DEF append_character
  <2>2. u \in Seq(Char) /\ Size(u) = Size(t) + Width(c)
    <3> HIDE DEF t
    <3> QED BY <1>2, AppendProperties, SizeAppend
  <2>3. /\ Without(u, "n") = IF c = "n" THEN Without(t, "n") ELSE Append(Without(t, "n"), c)
        /\ Newlines(u) = IF c = "n" THEN Newlines(t) + 1 ELSE Newlines(t)
    <3> HIDE DEF t
    <3> QED BY <1>2, WithoutAppend, NewlinesAppend
  <2>4. u \in Within
    BY <1>7, <2>2 DEF Within
  <2> HIDE DEF u
  <2>5. Some(u) \in Pending /\ Some(u) # None /\ Some(u)[1] = u
    BY <2>4, SomeText
  <2>6. out \in Frames /\ out.pending = Some(u) /\ out.done = g.done
    BY <2>1, <2>5 DEF Frames
  <2> HIDE DEF out
  <2>7. Told(out, n) = D \o Without(u, "n") /\ AtLine(out, n) = N + (Newlines(u) + 1)
    BY <2>5, <2>6 DEF Told, AtLine
  <2>8. c # "n" => D \o Append(Without(t, "n"), c) = Append(D \o Without(t, "n"), c)
    <3>1. SUFFICES ASSUME c # "n" PROVE D \o Append(Without(t, "n"), c) = Append(D \o Without(t, "n"), c)
      OBVIOUS
    <3>2. c \in Plain
      BY <3>1 DEF Plain
    <3> HIDE DEF D, t
    <3> QED BY <1>3, <1>5, <3>2, ConcatAppend
  <2>9. Told(out, n) = IF c = "n" THEN Told(g, n) ELSE Append(Told(g, n), c)
    <3> HIDE DEF D, t, N
    <3> QED BY <1>4, <2>3, <2>7, <2>8
  <2>10. AtLine(out, n) = IF c = "n" THEN AtLine(g, n) + 1 ELSE AtLine(g, n)
    <3> HIDE DEF D, t, N
    <3> QED BY <1>3, <1>4, <1>5, <2>3, <2>7
  <2> QED BY <2>5, <2>6, <2>9, <2>10 DEF out
<1>8. CASE ~(Size(t) + Width(c) <= Cap)
  <2> DEFINE r == split(t)
             u == <<c>>
             more == Append(g.done, r)
  <2>1. out = [done |-> more, pending |-> Some(u)]
    BY <1>8 DEF append_character
  <2>2. r \in Record /\ r.content = t /\ physical_lines(r) = Newlines(t)
    <3> HIDE DEF t
    <3> QED BY <1>2, RecordTypes
  <2>3. u \in Seq(Char) /\ u = Append(<<>>, c) /\ <<>> \in Seq(Char)
    BY EmptySeq
  <2>4. Size(u) = Width(c) /\ Without(u, "n") = (IF c = "n" THEN <<>> ELSE <<c>>)
        /\ Newlines(u) = IF c = "n" THEN 1 ELSE 0
    <3>1. \A s \in Seq(Char) : s = <<>> =>
            /\ Size(Append(s, c)) = Width(c)
            /\ Without(Append(s, c), "n") = (IF c = "n" THEN <<>> ELSE <<c>>)
            /\ Newlines(Append(s, c)) = IF c = "n" THEN 1 ELSE 0
      <4>1. ASSUME NEW s \in Seq(Char), s = <<>>
            PROVE /\ Size(Append(s, c)) = Width(c)
                  /\ Without(Append(s, c), "n") = (IF c = "n" THEN <<>> ELSE <<c>>)
                  /\ Newlines(Append(s, c)) = IF c = "n" THEN 1 ELSE 0
        <5>1. Size(s) = 0 /\ Newlines(s) = 0 /\ Without(s, "n") = <<>>
          BY <4>1, SizeEmpty, NewlinesEmpty, WithoutEmpty
        <5>2. Size(Append(s, c)) = Size(s) + Width(c)
          BY SizeAppend
        <5>3. Newlines(Append(s, c)) = IF c = "n" THEN Newlines(s) + 1 ELSE Newlines(s)
          BY NewlinesAppend
        <5>4. Without(Append(s, c), "n") = IF c = "n" THEN Without(s, "n") ELSE Append(Without(s, "n"), c)
          BY WithoutAppend
        <5>5. Size(Append(s, c)) = Width(c)
          BY <1>6, <5>1, <5>2
        <5>6. Newlines(Append(s, c)) = IF c = "n" THEN 1 ELSE 0
          BY <5>1, <5>3
        <5>7. Append(s, c) = <<c>>
          BY <4>1
        <5>8. Without(Append(s, c), "n") = (IF c = "n" THEN <<>> ELSE <<c>>)
          BY <4>1, <5>1, <5>4, <5>7
        <5> QED BY <5>5, <5>6, <5>8
      <4> QED BY <4>1
    <3> HIDE DEF t, D, N, r, more, u, out
    <3> QED BY <2>3, <3>1, Zenon
  <2>5. u \in Within
    BY <1>6, <2>3, <2>4 DEF Within
  <2> HIDE DEF u, r
  <2>6. Some(u) \in Pending /\ Some(u) # None /\ Some(u)[1] = u
    BY <2>5, SomeText
  <2>7. /\ more \in Seq(Record)
        /\ Texts(parse_framed_records(more, n).entries) = D \o Without(r.content, "n")
        /\ parse_framed_records(more, n).next = N + physical_lines(r)
    <3> DEFINE d == g.done
    <3>1. d \in Seq(Record)
      BY <1>1
    <3> HIDE DEF d
    <3>2. /\ Append(d, r) \in Seq(Record)
          /\ Texts(parse_framed_records(Append(d, r), n).entries)
              = Texts(parse_framed_records(d, n).entries) \o Without(r.content, "n")
          /\ parse_framed_records(Append(d, r), n).next
              = parse_framed_records(d, n).next + physical_lines(r)
      BY <2>2, <3>1, DoneGrows
    <3> QED BY <3>2 DEF d
  <2> HIDE DEF more
  <2>8. out \in Frames /\ out.pending = Some(u) /\ out.done = more
    BY <2>1, <2>6, <2>7 DEF Frames
  <2> HIDE DEF out
  <2>9. /\ Told(out, n) = (D \o Without(t, "n")) \o Without(u, "n")
        /\ AtLine(out, n) = N + Newlines(t) + (Newlines(u) + 1)
    BY <2>2, <2>6, <2>7, <2>8 DEF Told, AtLine
  <2> HIDE DEF D, t, N
  <2>10. Told(g, n) \in Seq(Plain)
    BY ToldType
  <2>11. Told(out, n) = IF c = "n" THEN Told(g, n) ELSE Append(Told(g, n), c)
    <3>1. CASE c = "n"
      BY <1>4, <2>4, <2>9, <2>10, <3>1, ConcatEmptySeq
    <3>2. CASE c # "n"
      <4>1. c \in Plain
        BY <3>2 DEF Plain
      <4> QED BY <1>4, <2>4, <2>9, <2>10, <3>2, <4>1, AppendIsConcat
    <3> QED BY <3>1, <3>2
  <2>12. AtLine(out, n) = IF c = "n" THEN AtLine(g, n) + 1 ELSE AtLine(g, n)
    BY <1>3, <1>4, <1>5, <2>4, <2>9
  <2> QED BY <2>6, <2>8, <2>11, <2>12 DEF out
<1> QED BY <1>7, <1>8

LEMMA AppendsGive ==
  ASSUME NEW g \in Frames, g.pending # None, NEW text \in Seq(Char), NEW n \in Nat \ {0}
  PROVE  /\ Appends!Fold(0, g, text) \in Frames /\ Appends!Fold(0, g, text).pending # None
         /\ Told(Appends!Fold(0, g, text), n) = Told(g, n) \o Without(text, "n")
         /\ AtLine(Appends!Fold(0, g, text), n) = AtLine(g, n) + Newlines(text)
<1> DEFINE S == {u \in Seq(Char) :
                   /\ Appends!Fold(0, g, u) \in Frames /\ Appends!Fold(0, g, u).pending # None
                   /\ Told(Appends!Fold(0, g, u), n) = Told(g, n) \o Without(u, "n")
                   /\ AtLine(Appends!Fold(0, g, u), n) = AtLine(g, n) + Newlines(u)}
<1>0. Told(g, n) \in Seq(Plain) /\ AtLine(g, n) \in Nat
  BY ToldType
<1>1. <<>> \in S
  <2>1. ASSUME NEW u \in Seq(Char), u = <<>>
        PROVE  u \in S
    <3>1. Appends!Fold(0, g, u) = g
      BY <2>1, Induction, Appends!FoldEmpty
    <3>2. Without(u, "n") = <<>> /\ Newlines(u) = 0
      BY <2>1, WithoutEmpty, NewlinesEmpty
    <3>3. Told(g, n) \o Without(u, "n") = Told(g, n)
      BY <1>0, <3>2, ConcatEmptySeq
    <3>4. AtLine(g, n) + Newlines(u) = AtLine(g, n)
      BY <1>0, <3>2
    <3> QED BY <3>1, <3>3, <3>4
  <2> HIDE DEF S
  <2> QED BY <2>1, EmptySeq
<1>2. ASSUME NEW u \in Seq(Char), NEW c \in Char, u \in S
      PROVE  Append(u, c) \in S
  <2> DEFINE h == Appends!Fold(0, g, u)
             o == Appends!Fold(0, g, Append(u, c))
  <2>1. o = append_character(h, c)
    BY Induction, Appends!FoldAppend DEF AppendStep
  <2>2. /\ h \in Frames /\ h.pending # None /\ Told(h, n) = Told(g, n) \o Without(u, "n")
        /\ AtLine(h, n) = AtLine(g, n) + Newlines(u)
    BY <1>2
  <2> HIDE DEF h, o
  <2>3. /\ o \in Frames /\ o.pending # None
        /\ Told(o, n) = IF c = "n" THEN Told(h, n) ELSE Append(Told(h, n), c)
        /\ AtLine(o, n) = IF c = "n" THEN AtLine(h, n) + 1 ELSE AtLine(h, n)
    BY <2>1, <2>2, AppendCharacterGives
  <2>4. Without(Append(u, c), "n") = IF c = "n" THEN Without(u, "n") ELSE Append(Without(u, "n"), c)
    BY WithoutAppend
  <2>5. Newlines(Append(u, c)) = IF c = "n" THEN Newlines(u) + 1 ELSE Newlines(u)
    BY NewlinesAppend
  <2>6. Append(u, c) \in Seq(Char) /\ Newlines(u) \in Nat /\ Without(u, "n") \in Seq(Plain)
    BY AppendProperties, NewlinesType, WithoutType DEF Plain
  <2>7. Told(o, n) = Told(g, n) \o Without(Append(u, c), "n")
    <3>1. CASE c = "n"
      BY <2>2, <2>3, <2>4, <3>1
    <3>2. CASE c # "n"
      <4>1. c \in Plain
        BY <3>2 DEF Plain
      <4>2. Told(g, n) \o Append(Without(u, "n"), c) = Append(Told(g, n) \o Without(u, "n"), c)
        BY <1>0, <2>6, <4>1, ConcatAppend
      <4> QED BY <2>2, <2>3, <2>4, <3>2, <4>2
    <3> QED BY <3>1, <3>2
  <2>8. AtLine(o, n) = AtLine(g, n) + Newlines(Append(u, c))
    BY <1>0, <2>2, <2>3, <2>5, <2>6
  <2> QED BY <2>3, <2>6, <2>7, <2>8 DEF o
<1> HIDE DEF S
<1>3. Seq(Char) \subseteq S
  BY <1>1, <1>2, SequenceInduction
<1> QED BY <1>3 DEF S

\* append_bounded adds the text, and a line if there was no pending record.
LEMMA AppendBoundedGives ==
  ASSUME NEW g \in Frames, NEW text \in Seq(Char), NEW n \in Nat \ {0}
  PROVE  /\ append_bounded(g, text) \in Frames /\ append_bounded(g, text).pending # None
         /\ Told(append_bounded(g, text), n) = Told(g, n) \o Without(text, "n")
         /\ AtLine(append_bounded(g, text), n)
              = AtLine(g, n) + Newlines(text) + IF g.pending = None THEN 1 ELSE 0
<1> DEFINE h == [g EXCEPT !.pending = IF @ = None THEN Some(<<>>) ELSE @]
<1>1. append_bounded(g, text) = Appends!Fold(0, h, text)
  BY AppendIsFold
<1>2. g.done \in Seq(Record) /\ g.pending \in Pending
  BY DEF Frames
<1>3. \A s : s = <<>> => s \in Within
  <2>1. \A s : s = <<>> => Size(s) = 0 /\ s \in Seq(Char)
    BY SizeEmpty, EmptySeq
  <2> QED BY <2>1, CapAssumption DEF Within
<1>4. h \in Frames /\ h.pending # None /\ h.done = g.done
      /\ h.pending = IF g.pending = None THEN Some(<<>>) ELSE g.pending
  <2>1. Some(<<>>) \in Pending /\ Some(<<>>) # None
    BY <1>3, SomeText
  <2> QED BY <1>2, <2>1 DEF Frames
<1>5. Told(h, n) = Told(g, n) /\ AtLine(h, n) = AtLine(g, n) + IF g.pending = None THEN 1 ELSE 0
  <2> HIDE DEF h
  <2> DEFINE D == Texts(parse_framed_records(g.done, n).entries)
             N == parse_framed_records(g.done, n).next
  <2>1. D \in Seq(Plain) /\ N \in Nat \ {0}
    BY <1>2, DoneTypes
  <2>2. CASE g.pending = None
    <3>1. ASSUME NEW s \in Seq(Char), s = <<>>
          PROVE  Some(s)[1] = s /\ Without(s, "n") = <<>> /\ Newlines(s) = 0
      BY <3>1, WithoutEmpty, NewlinesEmpty DEF Some
    <3>2. Without(h.pending[1], "n") = <<>> /\ Newlines(h.pending[1]) = 0
      <4>1. \A s \in Seq(Char) : s = <<>> => Without(Some(s)[1], "n") = <<>> /\ Newlines(Some(s)[1]) = 0
        BY <3>1
      <4> QED BY <1>4, <2>2, <4>1, EmptySeq
    <3>3. Told(h, n) = D \o <<>> /\ AtLine(h, n) = N + (0 + 1)
      BY <1>4, <3>2 DEF Told, AtLine
    <3>4. Told(g, n) = D \o <<>> /\ AtLine(g, n) = N + 0
      BY <2>2 DEF Told, AtLine
    <3> HIDE DEF D, N
    <3> QED BY <2>1, <2>2, <3>3, <3>4
  <2>3. CASE g.pending # None
    <3>1. Told(h, n) = Told(g, n) /\ AtLine(h, n) = AtLine(g, n)
      BY <1>4, <2>3 DEF Told, AtLine
    <3>2. AtLine(g, n) \in Nat
      BY ToldType
    <3> QED BY <2>3, <3>1, <3>2
  <2> QED BY <2>2, <2>3
<1> HIDE DEF h
<1>6. /\ Appends!Fold(0, h, text) \in Frames /\ Appends!Fold(0, h, text).pending # None
      /\ Told(Appends!Fold(0, h, text), n) = Told(h, n) \o Without(text, "n")
      /\ AtLine(Appends!Fold(0, h, text), n) = AtLine(h, n) + Newlines(text)
  BY <1>4, AppendsGive
<1>7. AtLine(g, n) \in Nat /\ Newlines(text) \in Nat
  BY ToldType, NewlinesType
<1> QED BY <1>1, <1>5, <1>6, <1>7

\* flush_pending neither adds nor loses anything.
LEMMA FlushGives ==
  ASSUME NEW g \in Frames, NEW n \in Nat \ {0}
  PROVE  /\ flush_pending(g) \in Frames /\ flush_pending(g).pending = None
         /\ Told(flush_pending(g), n) = Told(g, n) /\ AtLine(flush_pending(g), n) = AtLine(g, n)
<1>1. g.done \in Seq(Record) /\ g.pending \in Pending
  BY DEF Frames
<1>2. CASE g.pending = None
  BY <1>2 DEF flush_pending
<1>3. CASE g.pending # None
  <2> DEFINE o == flush_pending(g)
             t == g.pending[1]
             r == complete(t)
             d == g.done
             more == Append(d, r)
  <2>1. o = [done |-> more, pending |-> None]
    BY <1>3 DEF flush_pending
  <2>2. t \in Seq(Char)
    BY <1>1, <1>3, PendingText
  <2>3. Told(g, n) = Texts(parse_framed_records(d, n).entries) \o Without(t, "n")
        /\ AtLine(g, n) = parse_framed_records(d, n).next + (Newlines(t) + 1)
    BY <1>3 DEF Told, AtLine
  <2>4. d \in Seq(Record)
    BY <1>1
  <2> HIDE DEF t, d
  <2>5. r \in Record /\ r.content = t /\ physical_lines(r) = Newlines(t) + 1
    BY <2>2, RecordTypes
  <2> HIDE DEF r
  <2>6. /\ more \in Seq(Record)
        /\ Texts(parse_framed_records(more, n).entries)
             = Texts(parse_framed_records(d, n).entries) \o Without(r.content, "n")
        /\ parse_framed_records(more, n).next = parse_framed_records(d, n).next + physical_lines(r)
    BY <2>4, <2>5, DoneGrows
  <2> HIDE DEF more
  <2>7. o \in Frames /\ o.pending = None /\ o.done = more
    BY <2>1, <2>6 DEF Frames, Pending
  <2> HIDE DEF o
  <2>8. /\ Told(o, n) = Texts(parse_framed_records(more, n).entries) \o <<>>
        /\ AtLine(o, n) = parse_framed_records(more, n).next + 0
    BY <2>7 DEF Told, AtLine
  <2>9. Texts(parse_framed_records(more, n).entries) \in Seq(Plain)
        /\ parse_framed_records(more, n).next \in Nat
    BY <2>6, DoneTypes
  <2>10. Texts(parse_framed_records(more, n).entries) \o <<>> = Texts(parse_framed_records(more, n).entries)
    BY <2>9, ConcatEmptySeq
  <2>11. Told(o, n) = Told(g, n)
    BY <2>3, <2>5, <2>6, <2>8, <2>10
  <2>12. AtLine(o, n) = AtLine(g, n)
    BY <2>3, <2>5, <2>6, <2>8, <2>9
  <2> QED BY <2>7, <2>11, <2>12 DEF o
<1> QED BY <1>2, <1>3

\* A line that starts adds itself and one line, more of a line only itself.
LEMMA LineStartGives ==
  ASSUME NEW g \in Frames, NEW line \in Seq(Plain), NEW n \in Nat \ {0}
  PROVE  /\ LineStart(g, line) \in Frames /\ LineStart(g, line).pending # None
         /\ Told(LineStart(g, line), n) = Told(g, n) \o line
         /\ AtLine(LineStart(g, line), n) = AtLine(g, n) + 1
<1> DEFINE h == IF is_record_header(line) THEN flush_pending(g) ELSE g
           text == IF h.pending = None THEN line ELSE <<"n">> \o line
<1>1. h \in Frames /\ Told(h, n) = Told(g, n) /\ AtLine(h, n) = AtLine(g, n)
  BY FlushGives
<1>2. LineStart(g, line) = append_bounded(h, text)
  BY DEF LineStart, AddLine
<1> HIDE DEF h
<1>3. line \in Seq(Char) /\ Without(line, "n") = line /\ Newlines(line) = 0
  <2>1. Plain \subseteq Char
    BY DEF Plain
  <2> QED BY <2>1, SeqMonotonic, WithoutNone, NewlinesPlain DEF Plain
<1>4. /\ text \in Seq(Char) /\ Without(text, "n") = line
      /\ Newlines(text) = IF h.pending = None THEN 0 ELSE 1
  <2>1. CASE h.pending = None
    BY <1>3, <2>1
  <2>2. CASE h.pending # None
    <3> DEFINE nl == <<"n">>
    <3>1. nl \in Seq(Char) /\ text = nl \o line
      BY <2>2 DEF Char
    <3>2. Without(nl, "n") = <<>> /\ Newlines(nl) = 1
      <4>1. \A s \in Seq(Char) : s = <<>> => Append(s, "n") = nl
        OBVIOUS
      <4>2. ASSUME NEW s \in Seq(Char), s = <<>>
            PROVE Without(Append(s, "n"), "n") = <<>> /\ Newlines(Append(s, "n")) = 1
        <5>1. Without(s, "n") = <<>> /\ Newlines(s) = 0 /\ "n" \in Char
          BY <4>2, WithoutEmpty, NewlinesEmpty DEF Char
        <5>2. Without(Append(s, "n"), "n") = Without(s, "n")
          BY <5>1, WithoutAppend
        <5>3. Newlines(Append(s, "n")) = Newlines(s) + 1
          BY <5>1, NewlinesAppend
        <5> QED BY <5>1, <5>2, <5>3
      <4> HIDE DEF nl
      <4>3. <<>> \in Seq(Char)
        BY EmptySeq
      <4> QED BY <4>1, <4>2, <4>3
    <3> HIDE DEF nl, text
    <3>3. nl \o line \in Seq(Char)
      BY <1>3, <3>1, ConcatProperties
    <3>4. Without(nl \o line, "n") = Without(nl, "n") \o Without(line, "n")
      <4>1. \A s, u \in Seq(Char) : Without(s \o u, "n") = Without(s, "n") \o Without(u, "n")
        BY WithoutConcat
      <4> QED BY <1>3, <3>1, <4>1, Zenon
    <3>5. Newlines(nl \o line) = Newlines(nl) + Newlines(line)
      BY <1>3, <3>1, NewlinesConcat
    <3>6. <<>> \o line = line
      BY ConcatEmptySeq
    <3>7. Without(text, "n") = line
      BY <1>3, <3>1, <3>2, <3>4, <3>6, Zenon
    <3>8. Newlines(text) = 1
      BY <1>3, <3>1, <3>2, <3>5
    <3> QED BY <2>2, <3>1, <3>3, <3>7, <3>8
  <2> QED BY <2>1, <2>2
<1> HIDE DEF text
<1> DEFINE o == append_bounded(h, text)
<1>5. /\ o \in Frames /\ o.pending # None /\ Told(o, n) = Told(h, n) \o Without(text, "n")
      /\ AtLine(o, n) = AtLine(h, n) + Newlines(text) + IF h.pending = None THEN 1 ELSE 0
  BY <1>1, <1>4, AppendBoundedGives
<1>6. AtLine(g, n) \in Nat
  BY ToldType
<1>7. AtLine(o, n) = AtLine(g, n) + 1
  BY <1>1, <1>4, <1>5, <1>6
<1> QED BY <1>1, <1>2, <1>4, <1>5, <1>7

LEMMA ContinuationGives ==
  ASSUME NEW g \in Frames, g.pending # None, NEW text \in Seq(Plain), NEW n \in Nat \ {0}
  PROVE  /\ LineContinuation(g, text) \in Frames /\ LineContinuation(g, text).pending # None
         /\ Told(LineContinuation(g, text), n) = Told(g, n) \o text
         /\ AtLine(LineContinuation(g, text), n) = AtLine(g, n)
<1>1. text \in Seq(Char) /\ Without(text, "n") = text /\ Newlines(text) = 0
  <2>1. Plain \subseteq Char
    BY DEF Plain
  <2> QED BY <2>1, SeqMonotonic, WithoutNone, NewlinesPlain DEF Plain
<1> DEFINE o == append_bounded(g, text)
<1>2. /\ o \in Frames /\ o.pending # None /\ Told(o, n) = Told(g, n) \o Without(text, "n")
      /\ AtLine(o, n) = AtLine(g, n) + Newlines(text) + 0
  BY <1>1, AppendBoundedGives
<1>3. AtLine(g, n) \in Nat
  BY ToldType
<1>4. AtLine(o, n) = AtLine(g, n)
  BY <1>1, <1>2, <1>3
<1> QED BY <1>1, <1>2, <1>4 DEF LineContinuation

----------------------------------------------------------------------------
(* Framing with an unterminated line *)

\* What the framing of a reader holds: a continuation belongs to a pending
\* record, and the bound covers the pending record and the unterminated line.
Framings == [done : Seq(Record), pending : Pending, fragment : Seq(Plain), continuation : BOOLEAN]
Coherent(f) == f.continuation => f.fragment = <<>> /\ f.pending # None
HeldBack(f) ==
  LET logical == IF f.pending = None THEN 0 ELSE Size(f.pending[1])
      joint == IF f.pending # None /\ f.fragment # <<>> THEN 1 ELSE 0
  IN logical + joint + Size(f.fragment)
Bounded(f) == HeldBack(f) <= Cap

\* Its characters, the line that is open or comes next, and whether one is open.
Framing2(f) == [done |-> f.done, pending |-> f.pending]
Out(f, n) == Told(Framing2(f), n) \o f.fragment
Line(f, n) == AtLine(Framing2(f), n) - IF f.continuation THEN 1 ELSE 0
Open(f) == f.continuation \/ f.fragment # <<>>

LEMMA FramingParts ==
  ASSUME NEW f \in Framings
  PROVE  /\ Framing2(f) \in Frames /\ Framing2(f).pending = f.pending
         /\ f.fragment \in Seq(Plain) /\ f.continuation \in BOOLEAN /\ f.pending \in Pending
BY DEF Framings, Framing2, Frames

LEMMA WithParts ==
  ASSUME NEW g \in Frames, NEW fragment \in Seq(Plain), NEW continuation \in BOOLEAN
  PROVE  /\ With(g, fragment, continuation) \in Framings
         /\ Framing2(With(g, fragment, continuation)) = g
         /\ With(g, fragment, continuation).fragment = fragment
         /\ With(g, fragment, continuation).continuation = continuation
         /\ With(g, fragment, continuation).pending = g.pending
BY DEF With, Framings, Framing2, Frames

LEMMA PendingFits ==
  ASSUME NEW f \in Framings, f.fragment = <<>>
  PROVE  Bounded(f)
<1>1. f.pending \in Pending /\ CapAssumption!1
  BY CapAssumption DEF Framings
<1>2. Size(f.fragment) = 0
  BY SizeEmpty
<1>3. f.pending # None => Size(f.pending[1]) <= Cap
  BY <1>1, PendingText DEF Within
<1>4. f.pending # None => Size(f.pending[1]) \in Nat
  BY <1>1, PendingText, SizeType
<1> DEFINE L == IF f.pending = None THEN 0 ELSE Size(f.pending[1])
<1>5. L \in Nat /\ L <= Cap
  BY <1>1, <1>3, <1>4, CapAssumption
<1>6. HeldBack(f) = L + 0 + Size(f.fragment)
  BY DEF HeldBack
<1> HIDE DEF L
<1> QED BY <1>2, <1>5, <1>6, CapAssumption DEF Bounded

LEMMA SplitAt ==
  ASSUME NEW A, NEW s \in Seq(A), NEW k \in 0..Len(s)
  PROVE  /\ SubSeq(s, 1, k) \in Seq(A) /\ SubSeq(s, k + 1, Len(s)) \in Seq(A)
         /\ SubSeq(s, 1, k) \o SubSeq(s, k + 1, Len(s)) = s
<1>1. k \in Nat /\ Len(s) \in Nat /\ k <= Len(s)
  BY LenProperties
<1>2. /\ \A i \in 1..k : s[i] \in A
      /\ \A i \in (k + 1)..Len(s) : s[i] \in A
  BY <1>1, ElementOfSeq
<1>3. 1 \in 1..(Len(s) + 1) /\ k \in (1 - 1)..Len(s) /\ Len(s) \in k..Len(s)
  BY <1>1
<1>4. SubSeq(s, 1, k) \o SubSeq(s, k + 1, Len(s)) = SubSeq(s, 1, Len(s))
  BY <1>3, ConcatAdjacentSubSeq
<1>5. SubSeq(s, 1, Len(s)) = s
  BY SubSeqFull
<1>6. SubSeq(s, 1, k) \in Seq(A)
  BY <1>1, <1>2, SubSeqProperties
<1>7. SubSeq(s, k + 1, Len(s)) \in Seq(A)
  BY <1>1, <1>2, SubSeqProperties
<1> QED BY <1>4, <1>5, <1>6, <1>7

\* A part of a line: it is added, and when it ends the line the line is counted.
LEMMA SegmentGives ==
  ASSUME NEW f \in Framings, Coherent(f), Bounded(f), NEW content \in Seq(Plain),
         NEW terminated \in BOOLEAN, NEW n \in Nat \ {0}
  PROVE  LET out == process_inventory_line_segment(f, content, terminated)
         IN /\ out \in Framings /\ Coherent(out) /\ Bounded(out)
            /\ Out(out, n) = Out(f, n) \o content
            /\ Line(out, n) = Line(f, n) + IF terminated THEN 1 ELSE 0
            /\ terminated => ~Open(out)
            /\ ~terminated /\ content # <<>> => Open(out)
<1> DEFINE out == process_inventory_line_segment(f, content, terminated)
           g == Framing2(f)
           fragment == f.fragment
           take == utf8_prefix_at_most(content, Available(f))
           T == Told(g, n)
           A == AtLine(g, n)
           Goal == /\ out \in Framings /\ Coherent(out) /\ Bounded(out)
                   /\ Out(out, n) = Out(f, n) \o content
                   /\ Line(out, n) = Line(f, n) + IF terminated THEN 1 ELSE 0
                   /\ terminated => ~Open(out)
                   /\ ~terminated /\ content # <<>> => Open(out)
<1>0. SUFFICES Goal
  OBVIOUS
<1>1. /\ g \in Frames /\ g.pending = f.pending
      /\ fragment \in Seq(Plain) /\ f.continuation \in BOOLEAN /\ f.pending \in Pending
  BY FramingParts
<1>2. T \in Seq(Plain) /\ A \in Nat \ {0}
  BY <1>1, ToldType
<1>3. Out(f, n) = T \o fragment /\ Line(f, n) = A - IF f.continuation THEN 1 ELSE 0
  BY DEF Out, Line
<1>4. g = [done |-> f.done, pending |-> f.pending]
  BY DEF Framing2
\* The outcomes that leave no fragment.
<1>5. ASSUME NEW h \in Frames, NEW c \in BOOLEAN, h.pending # None, out = With(h, <<>>, c), c = ~terminated,
             Told(h, n) = (T \o fragment) \o content,
             AtLine(h, n) = A - (IF f.continuation THEN 1 ELSE 0) + 1
      PROVE  Goal
  <2>1. <<>> \in Seq(Plain)
    BY EmptySeq
  <2> DEFINE e == <<>>
  <2> HIDE DEF e
  <2> HIDE DEF out, T, A, g, fragment
  <2>2. /\ out \in Framings /\ Framing2(out) = h /\ out.fragment = e
        /\ out.continuation = c /\ out.pending = h.pending
    <3>1. out = With(h, e, c) /\ e \in Seq(Plain)
      BY <1>5, <2>1 DEF e
    <3> QED BY <3>1, WithParts
  <2>3. Coherent(out) /\ Bounded(out)
    BY <1>5, <2>2, PendingFits DEF Coherent, e
  <2>4. Out(out, n) = Told(h, n) \o e
    BY <2>2 DEF Out
  <2>5. Told(h, n) \o e = Told(h, n)
    BY ToldType, ConcatEmptySeq DEF e
  <2>6. Line(out, n) = AtLine(h, n) - IF c THEN 1 ELSE 0
    BY <2>2 DEF Line
  <2>7. Line(out, n) = Line(f, n) + IF terminated THEN 1 ELSE 0
    <3> DEFINE x == IF f.continuation THEN 1 ELSE 0
    <3>1. x \in Nat /\ Line(f, n) = A - x /\ AtLine(h, n) = A - x + 1
      BY <1>3, <1>5
    <3> HIDE DEF x
    <3> DEFINE y == IF c THEN 1 ELSE 0
               z == IF terminated THEN 1 ELSE 0
    <3>2. CASE terminated
      <4>1. y = 0 /\ z = 1
        BY <1>5, <3>2, Zenon
      <4> HIDE DEF y, z
      <4> QED BY <1>2, <2>6, <3>1, <4>1 DEF y, z
    <3>3. CASE ~terminated
      <4>1. y = 1 /\ z = 0
        BY <1>5, <3>3, Zenon
      <4> HIDE DEF y, z
      <4> QED BY <1>2, <2>6, <3>1, <4>1 DEF y, z
    <3> QED BY <3>2, <3>3
  <2>8. Open(out) = c
    BY <2>2 DEF Open, e
  <2>9. terminated => ~Open(out)
    BY <1>5, <2>8
  <2>10. ~terminated => Open(out)
    BY <1>5, <2>8
  <2>11. Out(out, n) = Out(f, n) \o content
    BY <1>3, <1>5, <2>4, <2>5
  <2> QED BY <2>2, <2>3, <2>7, <2>9, <2>10, <2>11
<1> HIDE DEF Goal
<1>6. CASE f.continuation
  <2> DEFINE h == Continue(f, content)
  <2>1. out = With(h, f.fragment, ~terminated)
    BY <1>6 DEF process_inventory_line_segment
  <2>2. fragment = <<>> /\ f.pending # None
    BY <1>6 DEF Coherent
  <2>3. h = LineContinuation(g, content)
    BY <1>4 DEF Continue
  <2> HIDE DEF h, out, g, T, A, fragment
  <2>4. h \in Frames /\ h.pending # None /\ Told(h, n) = T \o content /\ AtLine(h, n) = A
    BY <1>1, <2>2, <2>3, ContinuationGives DEF T, A
  <2>5. T \o fragment = T
    BY <1>2, <2>2, ConcatEmptySeq
  <2>6. AtLine(h, n) = A - (IF f.continuation THEN 1 ELSE 0) + 1
    BY <1>2, <1>6, <2>4
  <2>7. out = With(h, <<>>, ~terminated)
    BY <2>1, <2>2 DEF fragment
  <2>8. Told(h, n) = (T \o fragment) \o content
    BY <2>4, <2>5
  <2> QED BY <1>5, <2>4, <2>6, <2>7, <2>8
<1>7. CASE ~f.continuation /\ terminated /\ f.fragment = <<>>
  <2> DEFINE h == Start(f, content)
  <2>1. out = With(h, <<>>, FALSE)
    BY <1>7 DEF process_inventory_line_segment
  <2>3. h = LineStart(g, content)
    BY <1>4 DEF Start
  <2> HIDE DEF h, out, g, T, A
  <2>4. h \in Frames /\ h.pending # None /\ Told(h, n) = T \o content /\ AtLine(h, n) = A + 1
    BY <1>1, <2>3, LineStartGives DEF T, A
  <2>5. T \o fragment = T
    BY <1>2, <1>7, ConcatEmptySeq
  <2> HIDE DEF fragment
  <2>6. AtLine(h, n) = A - (IF f.continuation THEN 1 ELSE 0) + 1
    BY <1>2, <1>7, <2>4
  <2>7. FALSE = ~terminated
    BY <1>7
  <2>8. Told(h, n) = (T \o fragment) \o content
    BY <2>4, <2>5
  <2> QED BY <1>5, <2>1, <2>4, <2>6, <2>7, <2>8
<1>8. CASE ~f.continuation /\ ~(terminated /\ f.fragment = <<>>)
  <2>1. out = AddPiece(f, content, terminated, take)
    BY <1>8 DEF process_inventory_line_segment
  <2>2. /\ Held(f) \in Nat /\ Held(f) >= Size(fragment)
        /\ f.pending # None => Held(f) = Size(f.pending[1]) + 1 + Size(fragment)
                               /\ Size(f.pending[1]) \in Nat
        /\ f.pending = None => Held(f) = Size(fragment)
    <3>1. f.pending # None => Size(f.pending[1]) \in Nat
      BY <1>1, PendingText, SizeType
    <3>2. Size(fragment) \in Nat
      BY <1>1, SizeType
    <3>3. Held(f) = (IF f.pending = None THEN 0 ELSE Size(f.pending[1]) + 1) + Size(fragment)
      BY DEF Held
    <3> QED BY <3>1, <3>2, <3>3
  <2>3. Available(f) \in Nat /\ (Held(f) <= Cap => Held(f) + Available(f) = Cap)
        /\ (Held(f) > Cap => Available(f) = 0)
    BY <2>2, CapAssumption DEF Available
  <2> DEFINE room == Available(f)
  <2> HIDE DEF room
  <2>4. take \in 0..Len(content) /\ Size(SubSeq(content, 1, take)) <= room
    BY <2>3, PrefixFits DEF room
  <2>5. Len(content) \in Nat /\ fragment \o content \in Seq(Plain)
    BY <1>1, LenProperties, ConcatProperties
  <2> HIDE DEF take
  <2>6. CASE take < Len(content)
    <3> DEFINE first == SubSeq(content, 1, take)
               rest == SubSeq(content, take + 1, Len(content))
               h == Start(f, fragment \o first)
               k == Continue(h, rest)
    <3>1. out = With(k, <<>>, ~terminated)
      <4> HIDE DEF out, g, T, A
      <4>1. take \in Int /\ Len(content) \in Int
        BY <2>4, <2>5
      <4>2. take # Len(content)
        BY <2>6, <4>1
      <4> QED BY <2>1, <2>6, <4>2, Zenon DEF AddPiece, k, h, first, rest
    <3>2. first \in Seq(Plain) /\ rest \in Seq(Plain) /\ first \o rest = content
      BY <2>4, SplitAt
    <3>3. h = LineStart(g, fragment \o first)
      BY <1>4 DEF Start
    <3> HIDE DEF first, rest, h, k, out, g, T, A
    <3>4. fragment \o first \in Seq(Plain)
      BY <1>1, <3>2, ConcatProperties
    <3>5. /\ h \in Frames /\ h.pending # None
          /\ Told(h, n) = T \o (fragment \o first) /\ AtLine(h, n) = A + 1
      <4> DEFINE u == fragment \o first
      <4>1. u \in Seq(Plain)
        BY <3>4
      <4> HIDE DEF u, fragment
      <4>2. h = LineStart(g, u)
        BY <3>3 DEF u, fragment
      <4>3. h \in Frames /\ h.pending # None /\ Told(h, n) = T \o u /\ AtLine(h, n) = A + 1
        BY <1>1, <4>1, <4>2, LineStartGives DEF T, A
      <4> QED BY <4>3 DEF u
    <3>6. [done |-> h.done, pending |-> h.pending] = h
      BY <3>5 DEF Frames
    <3>7. k = LineContinuation(h, rest)
      BY <3>6 DEF k, Continue
    <3>8. /\ k \in Frames /\ k.pending # None
          /\ Told(k, n) = Told(h, n) \o rest /\ AtLine(k, n) = AtLine(h, n)
      BY <3>2, <3>5, <3>7, ContinuationGives
    <3>9. Told(k, n) = (T \o fragment) \o content
      <4>1. T \o (fragment \o first) = (T \o fragment) \o first
        <5> HIDE DEF fragment
        <5>1. T \in Seq(Plain) /\ fragment \in Seq(Plain) /\ first \in Seq(Plain)
          BY <1>1, <1>2, <3>2
        <5> QED BY <5>1, PlainAssociative, ZenonT(60)
      <4>2. ((T \o fragment) \o first) \o rest = (T \o fragment) \o (first \o rest)
        <5> DEFINE u == T \o fragment
        <5>1. u \in Seq(Plain)
          BY <1>1, <1>2, ConcatProperties
        <5> HIDE DEF u
        <5>2. (u \o first) \o rest = u \o (first \o rest)
          BY <3>2, <5>1, PlainAssociative, Zenon
        <5> QED BY <5>2 DEF u
      <4> QED BY <3>2, <3>5, <3>8, <4>1, <4>2
    <3>10. AtLine(k, n) = A - (IF f.continuation THEN 1 ELSE 0) + 1
      BY <1>2, <1>8, <3>5, <3>8
    <3> QED BY <1>5, <3>1, <3>8, <3>9, <3>10
  <2>7. CASE take = Len(content) /\ terminated
    <3> DEFINE h == Start(f, fragment \o content)
               u == fragment \o content
    <3>1. out = With(h, <<>>, FALSE)
      BY <2>1, <2>5, <2>7 DEF AddPiece
    <3>2. h = LineStart(g, u)
      BY <1>4 DEF Start
    <3>3. u \in Seq(Plain) /\ T \o u = (T \o fragment) \o content
      <4> HIDE DEF T, A, g, fragment
      <4> QED BY <1>1, <1>2, <2>5, PlainAssociative, ZenonT(60) DEF u
    <3> HIDE DEF h, u, out, g, T, A
    <3>4. h \in Frames /\ h.pending # None /\ Told(h, n) = T \o u /\ AtLine(h, n) = A + 1
      BY <1>1, <3>2, <3>3, LineStartGives DEF T, A
    <3>5. AtLine(h, n) = A - (IF f.continuation THEN 1 ELSE 0) + 1
      BY <1>2, <1>8, <3>4
    <3>6. FALSE = ~terminated
      BY <2>7
    <3>7. Told(h, n) = (T \o fragment) \o content
      BY <3>3, <3>4
    <3> HIDE DEF fragment
    <3> QED BY <1>5, <3>1, <3>4, <3>5, <3>6, <3>7
  <2>8. CASE take = Len(content) /\ ~terminated
    <3> DEFINE u == fragment \o content
    <3>1. out = [f EXCEPT !.fragment = u]
      BY <2>1, <2>5, <2>8 DEF AddPiece
    <3>2. /\ out \in Framings /\ out.fragment = u /\ out.continuation = f.continuation
          /\ out.pending = f.pending /\ Framing2(out) = g
      BY <2>5, <3>1 DEF Framings, Framing2
    <3>3. T \o u = (T \o fragment) \o content
      <4> HIDE DEF T, A, g, fragment
      <4> QED BY <1>1, <1>2, PlainAssociative, Zenon DEF u
    <3>4. Size(u) = Size(fragment) + Size(content) /\ Size(content) \in Nat /\ Size(fragment) \in Nat
          /\ Len(content) <= Size(content)
      BY <1>1, SizeConcat, SizeType
    <3>5. Size(content) <= room
      <4>1. SubSeq(content, 1, Len(content)) = content
        BY SubSeqFull
      <4> QED BY <2>4, <2>8, <4>1
    <3>6. content = <<>> => u = fragment
      BY <1>1, ConcatEmptySeq
    <3>7. content # <<>> => Len(content) > 0
      BY <2>5, EmptySeq
    <3>8. content # <<>> => u # <<>>
      <4>1. Len(u) = Len(fragment) + Len(content) /\ Len(fragment) \in Nat
        BY <1>1, ConcatProperties, LenProperties
      <4>2. Len(<<>>) = 0
        BY EmptySeq
      <4> QED BY <2>5, <3>7, <4>1, <4>2
    <3> HIDE DEF u, out, g, T, A, fragment, room
    <3>9. HeldBack(out) <= Cap
      <4>1. CASE content = <<>>
        <5>1. u = fragment
          BY <3>6, <4>1
        <5>2. HeldBack(out) = HeldBack(f)
          BY <3>2, <5>1 DEF HeldBack, fragment
        <5> QED BY <5>2 DEF Bounded
      <4>2. CASE content # <<>>
        <5>1. Size(content) > 0
          BY <2>5, <3>4, <3>7, <4>2
        <5>2. Held(f) <= Cap /\ Held(f) + Size(content) <= Cap
          BY <2>2, <2>3, <3>4, <3>5, <5>1, CapAssumption DEF room
        <5>3. CASE f.pending = None
          <6>1. HeldBack(out) = 0 + 0 + Size(u)
            BY <3>2, <5>3 DEF HeldBack
          <6> QED BY <2>2, <3>4, <5>2, <5>3, <6>1
        <5>4. CASE f.pending # None
          <6>1. HeldBack(out) = Size(f.pending[1]) + 1 + Size(u)
            BY <3>2, <3>8, <4>2, <5>4 DEF HeldBack
          <6> QED BY <2>2, <3>4, <5>2, <5>4, <6>1
        <5> QED BY <5>3, <5>4
      <4> QED BY <4>1, <4>2
    <3>10. Coherent(out)
      BY <1>8, <3>2 DEF Coherent
    <3>11. Out(out, n) = T \o u
      BY <3>2 DEF Out, T
    <3>12. Line(out, n) = Line(f, n) /\ Line(f, n) = A - 0
      BY <1>3, <1>8, <3>2 DEF Line, A
    <3>13. Line(out, n) = Line(f, n) + IF terminated THEN 1 ELSE 0
      BY <1>2, <2>8, <3>12
    <3>14. content # <<>> => Open(out)
      BY <3>2, <3>8 DEF Open
    <3> QED BY <1>3, <2>8, <3>2, <3>3, <3>9, <3>10, <3>11, <3>13, <3>14 DEF Bounded, Goal
  <2> QED BY <2>4, <2>5, <2>6, <2>7, <2>8
<1> QED BY <1>1, <1>6, <1>7, <1>8

\* A text whose last line is not terminated has a last piece.
Unended(text) == text # <<>> /\ Last(text) # "n"

LEMMA PiecesEnd ==
  ASSUME NEW s \in Seq(Char)
  PROVE  /\ s = <<>> => Front(Pieces(s)) = <<>> /\ Last(Pieces(s)) = <<>>
         /\ s # <<>> /\ ~Unended(s) => Front(Pieces(s)) # <<>> /\ Last(Pieces(s)) = <<>>
         /\ Unended(s) => Last(Pieces(s)) # <<>>
<1>1. ASSUME s = <<>>
      PROVE  Front(Pieces(s)) = <<>> /\ Last(Pieces(s)) = <<>>
  <2>1. Pieces(s) = <<<<>>>>
    BY <1>1, PiecesEmpty
  <2>2. <<<<>>>> = Append(<<>>, <<>>) /\ <<>> \in Seq(Seq(Plain)) /\ <<>> \in Seq(Plain)
    BY EmptySeq
  <2>3. \A q \in Seq(Seq(Plain)), a \in Seq(Plain) : Front(Append(q, a)) = q /\ Last(Append(q, a)) = a
    BY FrontLastOfAppend
  <2> QED BY <2>1, <2>2, <2>3, ZenonT(60)
<1>2. ASSUME s # <<>>
      PROVE  (Last(s) = "n" => Front(Pieces(s)) # <<>> /\ Last(Pieces(s)) = <<>>)
                            /\ (Last(s) # "n" => Last(Pieces(s)) # <<>>)
  <2> DEFINE t == Front(s)
             c == Last(s)
             lines == Front(Pieces(t))
             last == Last(Pieces(t))
  <2>1. t \in Seq(Char) /\ c \in Char /\ s = Append(t, c)
    BY <1>2, FrontLast
  <2> HIDE DEF t, c
  <2>2. lines \in Seq(Seq(Plain)) /\ last \in Seq(Plain) /\ Pieces(t) = Append(lines, last)
    BY <2>1, PieceParts
  <2> HIDE DEF lines, last
  <2>3. /\ c = "n" => Pieces(s) = Append(Append(lines, last), <<>>)
        /\ c # "n" => Pieces(s) = Append(lines, Append(last, c))
    BY <2>1, <2>2, PiecesGrow
  <2>4. \A q \in Seq(Seq(Plain)), a \in Seq(Plain) :
          Front(Append(q, a)) = q /\ Last(Append(q, a)) = a /\ Append(q, a) \in Seq(Seq(Plain)) /\ Append(q, a) # <<>>
    BY FrontLastOfAppend, AppendProperties
  <2>5. CASE c = "n"
    <3>1. <<>> \in Seq(Plain)
      BY EmptySeq
    <3>2. Append(lines, last) \in Seq(Seq(Plain)) /\ Append(lines, last) # <<>>
      BY <2>2, <2>4, Zenon
    <3>3. Front(Pieces(s)) = Append(lines, last) /\ Last(Pieces(s)) = <<>>
      BY <2>3, <2>4, <2>5, <3>1, <3>2, Zenon
    <3> QED BY <2>5, <3>2, <3>3, Zenon DEF c
  <2>6. CASE c # "n"
    <3>1. c \in Plain
      BY <2>1, <2>6 DEF Plain
    <3>2. Append(last, c) \in Seq(Plain) /\ Append(last, c) # <<>>
      BY <2>2, <3>1, AppendProperties
    <3> QED BY <2>2, <2>3, <2>4, <2>6, <3>2, Zenon DEF c
  <2> QED BY <2>5, <2>6 DEF c
<1> QED BY <1>1, <1>2 DEF Unended

LEMMA SegmentsGive ==
  ASSUME NEW f \in Framings, Coherent(f), Bounded(f), NEW lines \in Seq(Seq(Plain)), NEW n \in Nat \ {0}
  PROVE  /\ Segments!Fold(0, f, lines) \in Framings
         /\ Coherent(Segments!Fold(0, f, lines)) /\ Bounded(Segments!Fold(0, f, lines))
         /\ Out(Segments!Fold(0, f, lines), n) = Out(f, n) \o FlattenSeq(lines)
         /\ Line(Segments!Fold(0, f, lines), n) = Line(f, n) + Len(lines)
         /\ lines # <<>> => ~Open(Segments!Fold(0, f, lines))
         /\ lines = <<>> => Segments!Fold(0, f, lines) = f
<1> DEFINE S == {u \in Seq(Seq(Plain)) :
         /\ Segments!Fold(0, f, u) \in Framings
         /\ Coherent(Segments!Fold(0, f, u)) /\ Bounded(Segments!Fold(0, f, u))
         /\ Out(Segments!Fold(0, f, u), n) = Out(f, n) \o FlattenSeq(u)
         /\ Line(Segments!Fold(0, f, u), n) = Line(f, n) + Len(u)
         /\ u # <<>> => ~Open(Segments!Fold(0, f, u))
         /\ u = <<>> => Segments!Fold(0, f, u) = f}
<1>0. Out(f, n) \in Seq(Plain) /\ Line(f, n) \in Int
  <2>1. /\ Told(Framing2(f), n) \in Seq(Plain) /\ AtLine(Framing2(f), n) \in Nat
        /\ f.fragment \in Seq(Plain)
    BY FramingParts, ToldType
  <2> QED BY <2>1, ConcatProperties DEF Out, Line
<1>1. <<>> \in S
  <2>1. ASSUME NEW u \in Seq(Seq(Plain)), u = <<>>
        PROVE  u \in S
    <3>1. Segments!Fold(0, f, u) = f
      BY <2>1, Induction, Segments!FoldEmpty
    <3>2. FlattenSeq(u) = <<>> /\ Len(u) = 0
      BY <2>1, FlattenEmpty
    <3>3. Out(f, n) \o FlattenSeq(u) = Out(f, n)
      BY <1>0, <3>2, ConcatEmptySeq
    <3>4. Line(f, n) + Len(u) = Line(f, n)
      BY <1>0, <3>2
    <3> QED BY <2>1, <3>1, <3>3, <3>4
  <2> HIDE DEF S
  <2> QED BY <2>1, EmptySeq
<1>2. ASSUME NEW u \in Seq(Seq(Plain)), NEW line \in Seq(Plain), u \in S
      PROVE  Append(u, line) \in S
  <2> DEFINE h == Segments!Fold(0, f, u)
             o == Segments!Fold(0, f, Append(u, line))
  <2>1. o = process_inventory_line_segment(h, line, TRUE)
    BY Induction, Segments!FoldAppend DEF SegmentStep
  <2>2. /\ h \in Framings /\ Coherent(h) /\ Bounded(h) /\ Out(h, n) = Out(f, n) \o FlattenSeq(u)
        /\ Line(h, n) = Line(f, n) + Len(u)
    BY <1>2
  <2> HIDE DEF h, o
  <2>3. /\ o \in Framings /\ Coherent(o) /\ Bounded(o) /\ Out(o, n) = Out(h, n) \o line
        /\ Line(o, n) = Line(h, n) + 1 /\ ~Open(o)
    BY <2>1, <2>2, SegmentGives
  <2>4. /\ Append(u, line) \in Seq(Seq(Plain)) /\ Append(u, line) # <<>>
        /\ Len(Append(u, line)) = Len(u) + 1 /\ Len(u) \in Nat
    BY AppendProperties, LenProperties
  <2>5. FlattenSeq(Append(u, line)) = FlattenSeq(u) \o line /\ FlattenSeq(u) \in Seq(Plain)
    BY FlattenAppend, FlattenType
  <2>6. Out(o, n) = Out(f, n) \o FlattenSeq(Append(u, line))
    <3>1. (Out(f, n) \o FlattenSeq(u)) \o line = Out(f, n) \o (FlattenSeq(u) \o line)
      BY <1>0, <2>5, PlainAssociative, Zenon
    <3> QED BY <2>2, <2>3, <2>5, <3>1
  <2>7. Line(o, n) = Line(f, n) + Len(Append(u, line))
    BY <1>0, <2>2, <2>3, <2>4
  <2> QED BY <2>3, <2>4, <2>6, <2>7 DEF o
<1> HIDE DEF S
<1>3. Seq(Seq(Plain)) \subseteq S
  BY <1>1, <1>2, SequenceInduction
<1> QED BY <1>3 DEF S

\* process_inventory_text adds a text: every character of it but the newlines,
\* and every line that ends in it.
LEMMA InventoryTextGives ==
  ASSUME NEW f \in Framings, Coherent(f), Bounded(f), NEW text \in Seq(Char), NEW n \in Nat \ {0}
  PROVE  LET out == process_inventory_text(f, text)
         IN /\ out \in Framings /\ Coherent(out) /\ Bounded(out)
            /\ Out(out, n) = Out(f, n) \o Without(text, "n")
            /\ Line(out, n) = Line(f, n) + Newlines(text)
            /\ Open(out) <=> IF text = <<>> THEN Open(f) ELSE Unended(text)
<1> DEFINE p == Pieces(text)
           lines == Front(p)
           rest == Last(p)
           h == Segments!Fold(0, f, lines)
           o == FrameRest(h, rest)
<1>1. /\ lines \in Seq(Seq(Plain)) /\ rest \in Seq(Plain) /\ p \in Seq(Seq(Plain)) /\ p # <<>>
      /\ p = Append(lines, rest)
  BY PieceParts
<1>2. FlattenSeq(p) = Without(text, "n") /\ Len(p) = Newlines(text) + 1 /\ Newlines(text) \in Nat
  BY PiecesFlatten, NewlinesType
<1>3. /\ text = <<>> => lines = <<>> /\ rest = <<>>
      /\ text # <<>> /\ ~Unended(text) => lines # <<>> /\ rest = <<>>
      /\ Unended(text) => rest # <<>>
  BY PiecesEnd
<1>4. process_inventory_text(f, text) = o
  BY SegmentIsFold DEF process_inventory_text
<1> HIDE DEF p, lines, rest
<1>5. FlattenSeq(p) = FlattenSeq(lines) \o rest /\ Len(p) = Len(lines) + 1
      /\ FlattenSeq(lines) \in Seq(Plain) /\ Len(lines) \in Nat
  BY <1>1, FlattenAppend, FlattenType, AppendProperties, LenProperties
<1>6. /\ h \in Framings /\ Coherent(h) /\ Bounded(h) /\ Out(h, n) = Out(f, n) \o FlattenSeq(lines)
      /\ Line(h, n) = Line(f, n) + Len(lines) /\ (lines # <<>> => ~Open(h)) /\ (lines = <<>> => h = f)
  BY <1>1, SegmentsGive
<1> HIDE DEF h
<1>7. Out(f, n) \in Seq(Plain) /\ Line(f, n) \in Int /\ Out(h, n) \in Seq(Plain)
  <2>1. \A k \in Framings : /\ Told(Framing2(k), n) \in Seq(Plain) /\ AtLine(Framing2(k), n) \in Nat
                            /\ k.fragment \in Seq(Plain)
    BY FramingParts, ToldType
  <2>2. \A k \in Framings : Out(k, n) \in Seq(Plain) /\ Line(k, n) \in Int
    BY <2>1, ConcatProperties DEF Out, Line
  <2> QED BY <1>6, <2>2
<1>8. Line(f, n) + Len(lines) = Line(f, n) + Newlines(text)
  BY <1>2, <1>5, <1>7
<1>9. (Out(f, n) \o FlattenSeq(lines)) \o rest = Out(f, n) \o Without(text, "n")
  <2>1. (Out(f, n) \o FlattenSeq(lines)) \o rest = Out(f, n) \o (FlattenSeq(lines) \o rest)
    BY <1>1, <1>5, <1>7, PlainAssociative, Zenon
  <2> QED BY <1>2, <1>5, <2>1
<1>10. CASE rest = <<>>
  <2>1. o = h
    BY <1>10 DEF FrameRest
  <2>2. Out(h, n) \o rest = Out(h, n)
    BY <1>7, <1>10, ConcatEmptySeq
  <2>3. Open(h) <=> IF text = <<>> THEN Open(f) ELSE Unended(text)
    BY <1>3, <1>6, <1>10 DEF Unended
  <2> HIDE DEF o
  <2> QED BY <1>4, <1>6, <1>8, <1>9, <2>1, <2>2, <2>3
<1>11. CASE rest # <<>>
  <2>1. o = process_inventory_line_segment(h, rest, FALSE)
    BY <1>11 DEF FrameRest
  <2> HIDE DEF o
  <2>2. /\ o \in Framings /\ Coherent(o) /\ Bounded(o) /\ Out(o, n) = Out(h, n) \o rest
        /\ Line(o, n) = Line(h, n) + 0 /\ Open(o)
    BY <1>1, <1>6, <1>11, <2>1, SegmentGives
  <2>3. Line(o, n) = Line(f, n) + Newlines(text)
    BY <1>2, <1>5, <1>6, <1>7, <2>2
  <2>4. text # <<>> /\ Unended(text)
    BY <1>3, <1>11
  <2> QED BY <1>4, <1>6, <1>9, <2>2, <2>3, <2>4
<1> QED BY <1>10, <1>11

\* flush_pending_text completes everything: the open line, too, is one.
LEMMA FlushTextGives ==
  ASSUME NEW f \in Framings, Coherent(f), NEW n \in Nat \ {0}
  PROVE  LET out == flush_pending_text(f)
         IN /\ out \in Framings /\ out.pending = None /\ out.fragment = <<>> /\ ~out.continuation
            /\ Texts(parse_framed_records(out.done, n).entries) = Out(f, n)
            /\ parse_framed_records(out.done, n).next = Line(f, n) + IF Open(f) THEN 1 ELSE 0
<1> DEFINE g == Framing2(f)
           fragment == f.fragment
           h == IF fragment = <<>> THEN g ELSE LineStart(g, fragment)
           k == flush_pending(h)
           out == flush_pending_text(f)
           e == <<>>
<1>1. /\ g \in Frames /\ g.pending = f.pending /\ fragment \in Seq(Plain) /\ f.continuation \in BOOLEAN
  BY FramingParts
<1>2. g = [done |-> f.done, pending |-> f.pending]
  BY DEF Framing2
<1>3. out = With(k, e, FALSE)
  BY <1>2 DEF flush_pending_text, Start
<1>4. Told(g, n) \in Seq(Plain) /\ AtLine(g, n) \in Nat
  BY <1>1, ToldType
<1>5. Out(f, n) = Told(g, n) \o fragment /\ Line(f, n) = AtLine(g, n) - IF f.continuation THEN 1 ELSE 0
  BY DEF Out, Line
<1>6. Open(f) = (f.continuation \/ fragment # <<>>)
  BY DEF Open
<1>7. f.continuation => fragment = <<>>
  BY DEF Coherent
<1> HIDE DEF g, fragment, out, k
<1>8. /\ h \in Frames /\ Told(h, n) = Out(f, n)
      /\ AtLine(h, n) = Line(f, n) + IF Open(f) THEN 1 ELSE 0
  <2>1. CASE fragment = <<>>
    <3>1. Told(g, n) \o fragment = Told(g, n)
      BY <1>4, <2>1, ConcatEmptySeq
    <3>2. h = g
      BY <2>1
    <3> HIDE DEF h
    <3> DEFINE x == IF f.continuation THEN 1 ELSE 0
               y == IF Open(f) THEN 1 ELSE 0
    <3>3. x = y
      BY <1>1, <1>6, <2>1
    <3>4. x \in Nat /\ Line(f, n) = AtLine(g, n) - x
      BY <1>5
    <3> HIDE DEF x, y
    <3>5. AtLine(h, n) = Line(f, n) + y
      BY <1>4, <3>2, <3>3, <3>4
    <3> QED BY <1>1, <1>5, <3>1, <3>2, <3>5 DEF y
  <2>2. CASE fragment # <<>>
    <3>1. /\ LineStart(g, fragment) \in Frames /\ Told(LineStart(g, fragment), n) = Told(g, n) \o fragment
          /\ AtLine(LineStart(g, fragment), n) = AtLine(g, n) + 1
      BY <1>1, LineStartGives
    <3>2. ~f.continuation
      BY <1>7, <2>2
    <3>3. h = LineStart(g, fragment)
      BY <2>2
    <3> HIDE DEF h
    <3> DEFINE x == IF f.continuation THEN 1 ELSE 0
               y == IF Open(f) THEN 1 ELSE 0
    <3>4. y = 1 /\ x = 0
      BY <1>6, <2>2, <3>2
    <3>5. Line(f, n) = AtLine(g, n) - x
      BY <1>5
    <3> HIDE DEF x, y
    <3>6. AtLine(h, n) = Line(f, n) + y
      BY <1>4, <3>1, <3>3, <3>4, <3>5
    <3> QED BY <1>5, <3>1, <3>3, <3>6 DEF y
  <2> QED BY <2>1, <2>2
<1> HIDE DEF h
<1>9. k \in Frames /\ k.pending = None /\ Told(k, n) = Told(h, n) /\ AtLine(k, n) = AtLine(h, n)
  BY <1>8, FlushGives DEF k
<1>10. e \in Seq(Plain)
  BY EmptySeq
<1> HIDE DEF e
<1>11. out \in Framings /\ Framing2(out) = k /\ out.fragment = e /\ out.continuation = FALSE /\ out.pending = None
  BY <1>3, <1>9, <1>10, WithParts
<1>12. out.done = k.done
  <2>1. Framing2(out).done = out.done
    BY DEF Framing2
  <2> QED BY <1>11, <2>1
<1> DEFINE D == Texts(parse_framed_records(out.done, n).entries)
           N == parse_framed_records(out.done, n).next
<1>13. D \in Seq(Plain) /\ N \in Nat
  <2>1. out.done \in Seq(Record)
    BY <1>11 DEF Framings
  <2> QED BY <2>1, DoneTypes
<1>14. Told(k, n) = D \o <<>> /\ AtLine(k, n) = N + 0
  BY <1>9, <1>12 DEF Told, AtLine
<1> HIDE DEF D, N
<1>15. D \o <<>> = D /\ N + 0 = N
  BY <1>13, ConcatEmptySeq
<1>16. D = Out(f, n) /\ N = Line(f, n) + IF Open(f) THEN 1 ELSE 0
  BY <1>8, <1>9, <1>14, <1>15
<1> QED BY <1>11, <1>16 DEF out, D, N, e

\* The records of terminated lines.
Completed(lines) == [i \in DOMAIN lines |-> complete(lines[i])]

LEMMA CompletedAppend ==
  ASSUME NEW lines \in Seq(Seq(Plain)), NEW line \in Seq(Plain)
  PROVE  /\ Completed(lines) \in Seq(Record)
         /\ Completed(Append(lines, line)) = Append(Completed(lines), complete(line))
<1> DEFINE A == Seq(Plain)
           f == [x \in A |-> complete(x)]
           t == Append(lines, line)
<1>1. f \in [A -> Record]
  <2>1. \A x \in A : x \in Seq(Char)
    <3>1. Plain \subseteq Char
      BY DEF Plain
    <3> QED BY <3>1, SeqMonotonic
  <2>2. \A x \in A : complete(x) \in Record
    BY <2>1, RecordTypes
  <2> QED BY <2>2
<1>2. /\ DOMAIN lines = 1..Len(lines) /\ \A i \in 1..Len(lines) : lines[i] \in A
      /\ DOMAIN t = 1..Len(t) /\ \A i \in 1..Len(t) : t[i] \in A
  BY AppendProperties, LenProperties, ElementOfSeq
<1> HIDE DEF A
<1>3. lines \in Seq(A) /\ line \in A
  BY DEF A
<1>4. [i \in DOMAIN lines |-> f[lines[i]]] \in Seq(Record)
  <2> DEFINE m == [i \in DOMAIN lines |-> f[lines[i]]]
  <2>1. m \in [1..Len(lines) -> Record] /\ Len(lines) \in Nat
    <3> HIDE DEF f, t
    <3> QED BY <1>1, <1>2, LenProperties
  <2> HIDE DEF m
  <2>2. m \in Seq(Record)
    BY <2>1, SeqDef
  <2> QED BY <2>2 DEF m
<1>5. [i \in DOMAIN Append(lines, line) |-> f[Append(lines, line)[i]]]
        = Append([i \in DOMAIN lines |-> f[lines[i]]], f[line])
  <2> HIDE DEF f
  <2> QED BY <1>1, <1>3, MapAppend
<1>6. /\ [i \in DOMAIN lines |-> f[lines[i]]] = Completed(lines)
      /\ [i \in DOMAIN t |-> f[t[i]]] = Completed(t) /\ f[line] = complete(line)
  <2> HIDE DEF t
  <2> QED BY <1>2, <1>3 DEF Completed
<1> HIDE DEF f
<1> QED BY <1>4, <1>5, <1>6

LEMMA CompletedGive ==
  ASSUME NEW lines \in Seq(Seq(Plain)), NEW n \in Nat \ {0}
  PROVE  /\ Completed(lines) \in Seq(Record)
         /\ Texts(parse_framed_records(Completed(lines), n).entries) = FlattenSeq(lines)
         /\ parse_framed_records(Completed(lines), n).next = n + Len(lines)
<1> DEFINE S == {u \in Seq(Seq(Plain)) :
         /\ Completed(u) \in Seq(Record)
         /\ Texts(parse_framed_records(Completed(u), n).entries) = FlattenSeq(u)
         /\ parse_framed_records(Completed(u), n).next = n + Len(u)}
<1>1. <<>> \in S
  <2>1. ASSUME NEW u \in Seq(Seq(Plain)), u = <<>>
        PROVE  u \in S
    <3>1. Completed(u) = <<>> /\ FlattenSeq(u) = <<>> /\ Len(u) = 0
      BY <2>1, FlattenEmpty DEF Completed
    <3>2. parse_framed_records(Completed(u), n) = [entries |-> <<>>, next |-> n]
      BY <3>1, ParseEmpty
    <3>3. Texts(parse_framed_records(Completed(u), n).entries) = <<>>
      BY <3>2, TextsEmpty
    <3>4. Completed(u) \in Seq(Record)
      BY <3>1, EmptySeq
    <3> QED BY <3>1, <3>2, <3>3, <3>4
  <2> HIDE DEF S
  <2> QED BY <2>1, EmptySeq
<1>2. ASSUME NEW u \in Seq(Seq(Plain)), NEW line \in Seq(Plain), u \in S
      PROVE  Append(u, line) \in S
  <2> DEFINE rs == Completed(u)
             r == complete(line)
  <2>1. rs \in Seq(Record) /\ Completed(Append(u, line)) = Append(rs, r)
    BY CompletedAppend
  <2>2. line \in Seq(Char) /\ Without(line, "n") = line /\ Newlines(line) = 0
    <3>1. Plain \subseteq Char
      BY DEF Plain
    <3> QED BY <3>1, SeqMonotonic, WithoutNone, NewlinesPlain DEF Plain
  <2>3. r \in Record /\ r.content = line /\ physical_lines(r) = 0 + 1
    BY <2>2, RecordTypes
  <2>4. /\ Texts(parse_framed_records(rs, n).entries) = FlattenSeq(u)
        /\ parse_framed_records(rs, n).next = n + Len(u)
    BY <1>2
  <2> HIDE DEF rs, r
  <2>5. /\ Append(rs, r) \in Seq(Record)
        /\ Texts(parse_framed_records(Append(rs, r), n).entries)
             = Texts(parse_framed_records(rs, n).entries) \o Without(r.content, "n")
        /\ parse_framed_records(Append(rs, r), n).next = parse_framed_records(rs, n).next + physical_lines(r)
    BY <2>1, <2>3, DoneGrows
  <2>6. FlattenSeq(Append(u, line)) = FlattenSeq(u) \o line
        /\ Append(u, line) \in Seq(Seq(Plain)) /\ Len(Append(u, line)) = Len(u) + 1 /\ Len(u) \in Nat
    BY FlattenAppend, AppendProperties, LenProperties
  <2>7. parse_framed_records(Append(rs, r), n).next = n + Len(Append(u, line))
    BY <2>3, <2>4, <2>5, <2>6
  <2>8. Texts(parse_framed_records(Append(rs, r), n).entries) = FlattenSeq(Append(u, line))
    BY <2>2, <2>3, <2>4, <2>5, <2>6
  <2> QED BY <2>1, <2>5, <2>6, <2>7, <2>8
<1> HIDE DEF S
<1>3. Seq(Seq(Plain)) \subseteq S
  BY <1>1, <1>2, SequenceInduction
<1> QED BY <1>3 DEF S

\* collect_complete_lines completes every terminated line and keeps the rest.
LEMMA CompleteLinesGive ==
  ASSUME NEW f \in Framings, NEW text \in Seq(Char), NEW n \in Nat \ {0}
  PROVE  LET out == collect_complete_lines(f, text)
             p == Pieces(f.fragment \o text)
         IN /\ out \in Framings /\ out.fragment = Last(p) /\ out.done = Completed(Front(p))
            /\ out.pending = f.pending /\ out.continuation = f.continuation
            /\ Texts(parse_framed_records(out.done, n).entries) = FlattenSeq(Front(p))
            /\ parse_framed_records(out.done, n).next = n + Len(Front(p))
<1> DEFINE t == f.fragment \o text
           p == Pieces(t)
           lines == Front(p)
           out == collect_complete_lines(f, text)
<1>1. t \in Seq(Char)
  <2>1. f.fragment \in Seq(Plain) /\ Plain \subseteq Char
    BY DEF Framings, Plain
  <2>2. f.fragment \in Seq(Char)
    BY <2>1, SeqMonotonic
  <2> QED BY <2>2, ConcatProperties
<1>2. lines \in Seq(Seq(Plain)) /\ Last(p) \in Seq(Plain) /\ p = Append(lines, Last(p))
  <2> HIDE DEF t
  <2> QED BY <1>1, PieceParts
<1>3. \A i \in DOMAIN lines : p[i] = lines[i]
  <2> DEFINE l == Last(p)
  <2>1. l \in Seq(Plain) /\ p = Append(lines, l)
    BY <1>2
  <2> HIDE DEF l, lines, p
  <2>2. \A i \in 1..Len(lines) : Append(lines, l)[i] = lines[i]
    BY <1>2, <2>1, AppendProperties
  <2>3. DOMAIN lines = 1..Len(lines)
    BY <1>2, LenProperties
  <2> QED BY <2>1, <2>2, <2>3
<1>4. out = [f EXCEPT !.done = [i \in DOMAIN lines |-> complete(p[i])], !.fragment = Last(p)]
  BY DEF collect_complete_lines
<1>5. [i \in DOMAIN lines |-> complete(p[i])] = Completed(lines)
  <2> HIDE DEF lines, p
  <2> QED BY <1>3 DEF Completed
<1>6. /\ Completed(lines) \in Seq(Record)
      /\ Texts(parse_framed_records(Completed(lines), n).entries) = FlattenSeq(lines)
      /\ parse_framed_records(Completed(lines), n).next = n + Len(lines)
  <2> HIDE DEF lines
  <2> QED BY <1>2, CompletedGive
<1> DEFINE l == Last(p)
<1>7. l \in Seq(Plain)
  BY <1>2
<1>8. out = [f EXCEPT !.done = Completed(lines), !.fragment = l]
  BY <1>4, <1>5
<1> HIDE DEF out, lines, l
<1>9. /\ out \in Framings /\ out.fragment = l /\ out.done = Completed(lines)
      /\ out.pending = f.pending /\ out.continuation = f.continuation
  BY <1>6, <1>7, <1>8 DEF Framings
<1> QED BY <1>6, <1>9 DEF out, lines, l

----------------------------------------------------------------------------
(* Decoding *)

Byte == {"h", "x", "n", "l", "t", "b"}
Valid == Byte \ {"b"}

\* The characters that whole bytes encode, and the whole part of some bytes.
CharOf(byte) == IF byte = "l" THEN "u" ELSE byte
Chars(bytes) ==
  [i \in DOMAIN Without(bytes, "t") |-> IF Without(bytes, "t")[i] = "l" THEN "u"
                                        ELSE Without(bytes, "t")[i]]
Whole(bytes) == IF Incomplete(bytes) THEN Front(bytes) ELSE bytes

LEMMA DecodeIsChars == \A bytes : decode(bytes) = Chars(Whole(bytes))
BY DEF decode, Chars, Whole

LEMMA CharsEmpty == \A s : s = <<>> => Chars(s) = <<>>
<1>1. \A s : s = <<>> => Without(s, "t") = <<>>
  BY WithoutEmpty
<1> QED BY <1>1 DEF Chars

LEMMA CharsAppend ==
  ASSUME NEW s \in Seq(Byte), NEW c \in Byte
  PROVE  /\ Chars(s) \in Seq(Char \cup {"b"})
         /\ Chars(Append(s, c)) = IF c = "t" THEN Chars(s) ELSE Append(Chars(s), CharOf(c))
<1> DEFINE A == Byte \ {"t"}
           B == Char \cup {"b"}
           f == [x \in A |-> IF x = "l" THEN "u" ELSE x]
           leads == Without(s, "t")
<1>1. leads \in Seq(A) /\ Without(Append(s, c), "t") = IF c = "t" THEN leads ELSE Append(leads, c)
  BY WithoutType, WithoutAppend
<1>2. f \in [A -> B] /\ (c # "t" => c \in A /\ f[c] = CharOf(c)) /\ \A x \in A : f[x] = IF x = "l" THEN "u" ELSE x
  BY DEF Byte, Char, CharOf
<1> HIDE DEF A, B, f, leads
<1>3. ASSUME NEW q \in Seq(A)
      PROVE  /\ [i \in DOMAIN q |-> IF q[i] = "l" THEN "u" ELSE q[i]] \in Seq(B)
             /\ [i \in DOMAIN q |-> IF q[i] = "l" THEN "u" ELSE q[i]] = [i \in DOMAIN q |-> f[q[i]]]
  <2> DEFINE m == [i \in DOMAIN q |-> IF q[i] = "l" THEN "u" ELSE q[i]]
             k == [i \in DOMAIN q |-> f[q[i]]]
  <2>1. DOMAIN q = 1..Len(q) /\ Len(q) \in Nat /\ \A i \in 1..Len(q) : q[i] \in A
    BY LenProperties, ElementOfSeq
  <2>2. m = k
    BY <1>2, <2>1
  <2>3. k \in [1..Len(q) -> B]
    BY <1>2, <2>1
  <2> HIDE DEF k
  <2>4. k \in Seq(B)
    BY <2>1, <2>3, SeqDef
  <2> QED BY <2>2, <2>4 DEF k
<1>4. Chars(s) = [i \in DOMAIN leads |-> IF leads[i] = "l" THEN "u" ELSE leads[i]]
  BY DEF Chars, leads
<1>5. CASE c = "t"
  <2>1. Without(Append(s, c), "t") = leads
    BY <1>1, <1>5
  <2>2. Chars(Append(s, c)) = Chars(s)
    BY <1>4, <2>1 DEF Chars
  <2>3. Chars(s) \in Seq(B)
    BY <1>1, <1>3, <1>4
  <2> QED BY <1>5, <2>2, <2>3 DEF B
<1>6. CASE c # "t"
  <2> DEFINE t == Append(leads, c)
  <2>1. Without(Append(s, c), "t") = t /\ c \in A /\ f[c] = CharOf(c)
    BY <1>1, <1>2, <1>6
  <2>2. t \in Seq(A)
    BY <1>1, <2>1, AppendProperties
  <2>3. [i \in DOMAIN Append(leads, c) |-> f[Append(leads, c)[i]]]
          = Append([i \in DOMAIN leads |-> f[leads[i]]], f[c])
    BY <1>1, <1>2, <2>1, MapAppend
  <2>4. Chars(Append(s, c)) = [i \in DOMAIN t |-> IF t[i] = "l" THEN "u" ELSE t[i]]
    <3> HIDE DEF t
    <3> QED BY <2>1 DEF Chars
  <2>5. [i \in DOMAIN t |-> IF t[i] = "l" THEN "u" ELSE t[i]] = [i \in DOMAIN t |-> f[t[i]]]
    <3> HIDE DEF t
    <3> QED BY <1>3, <2>2
  <2>6. Chars(s) = [i \in DOMAIN leads |-> f[leads[i]]] /\ Chars(s) \in Seq(B)
    BY <1>1, <1>3, <1>4
  <2>7. Chars(Append(s, c)) = Append(Chars(s), CharOf(c))
    BY <2>1, <2>3, <2>4, <2>5, <2>6
  <2> QED BY <1>6, <2>6, <2>7 DEF B
<1> QED BY <1>5, <1>6

LEMMA CharsConcat ==
  ASSUME NEW s \in Seq(Byte), NEW t \in Seq(Byte)
  PROVE  Chars(s \o t) = Chars(s) \o Chars(t)
<1> DEFINE S == {u \in Seq(Byte) : Chars(s \o u) = Chars(s) \o Chars(u)}
           B == Char \cup {"b"}
<1>0. \A u \in Seq(Byte), c \in Byte :
        /\ Chars(u) \in Seq(B)
        /\ Chars(Append(u, c)) = IF c = "t" THEN Chars(u) ELSE Append(Chars(u), CharOf(c))
  BY CharsAppend
<1>a. Chars(s) \in Seq(B)
  <2>1. "n" \in Byte
    BY DEF Byte
  <2> QED BY <1>0, <2>1
<1> HIDE DEF B
<1>1. <<>> \in S
  <2>1. ASSUME NEW u \in Seq(Byte), u = <<>>
        PROVE  u \in S
    <3>1. Chars(u) = <<>> /\ s \o u = s
      BY <2>1, CharsEmpty, ConcatEmptySeq
    <3>2. Chars(s) \o Chars(u) = Chars(s)
      BY <1>a, <3>1, ConcatEmptySeq
    <3> QED BY <3>1, <3>2
  <2> HIDE DEF S
  <2> QED BY <2>1, EmptySeq
<1>2. ASSUME NEW u \in Seq(Byte), NEW c \in Byte, u \in S
      PROVE  Append(u, c) \in S
  <2> DEFINE v == s \o u
             d == CharOf(c)
  <2>1. v \in Seq(Byte) /\ s \o Append(u, c) = Append(v, c) /\ Append(u, c) \in Seq(Byte)
    BY ConcatProperties, ConcatAppend, AppendProperties
  <2>2. Chars(v) = Chars(s) \o Chars(u)
    BY <1>2
  <2>3. c # "t" => d \in B
    BY DEF B, Char, CharOf, Byte
  <2> HIDE DEF v, d
  <2>4. Chars(Append(v, c)) = IF c = "t" THEN Chars(v) ELSE Append(Chars(v), d)
    BY <1>0, <2>1 DEF d
  <2>5. Chars(u) \in Seq(B) /\ Chars(Append(u, c)) = IF c = "t" THEN Chars(u) ELSE Append(Chars(u), d)
    BY <1>0 DEF d
  <2>6. c # "t" => Chars(s) \o Append(Chars(u), d) = Append(Chars(s) \o Chars(u), d)
    BY <1>a, <2>3, <2>5, ConcatAppend
  <2>7. Chars(Append(v, c)) = Chars(s) \o Chars(Append(u, c))
    BY <2>2, <2>4, <2>5, <2>6
  <2> QED BY <2>1, <2>7
<1> HIDE DEF S
<1>3. Seq(Byte) \subseteq S
  BY <1>1, <1>2, SequenceInduction
<1> QED BY <1>3 DEF S

LEMMA CharsGive ==
  ASSUME NEW s \in Seq(Valid)
  PROVE  Chars(s) \in Seq(Char) /\ Newlines(Chars(s)) = Newlines(s)
<1> DEFINE S == {u \in Seq(Valid) : Chars(u) \in Seq(Char) /\ Newlines(Chars(u)) = Newlines(u)}
<1>1. <<>> \in S
  <2>1. ASSUME NEW u \in Seq(Valid), u = <<>>
        PROVE  u \in S
    <3>1. Chars(u) = <<>>
      BY <2>1, CharsEmpty
    <3> QED BY <2>1, <3>1, EmptySeq
  <2> HIDE DEF S
  <2> QED BY <2>1, EmptySeq
<1>2. ASSUME NEW u \in Seq(Valid), NEW c \in Valid, u \in S
      PROVE  Append(u, c) \in S
  <2> DEFINE m == Chars(u)
             d == CharOf(c)
  <2>1. u \in Seq(Byte) /\ c \in Byte /\ Append(u, c) \in Seq(Valid)
    <3>1. Valid \subseteq Byte
      BY DEF Valid
    <3> QED BY <3>1, SeqMonotonic, AppendProperties
  <2>2. Chars(Append(u, c)) = IF c = "t" THEN m ELSE Append(m, d)
    BY <2>1, CharsAppend
  <2>3. m \in Seq(Char) /\ Newlines(m) = Newlines(u)
    BY <1>2
  <2>4. (c # "t" => d \in Char) /\ (d = "n" <=> c = "n")
    BY DEF Valid, Byte, Char, CharOf
  <2>5. Newlines(Append(u, c)) = IF c = "n" THEN Newlines(u) + 1 ELSE Newlines(u)
    BY NewlinesAppend
  <2> HIDE DEF m, d
  <2>6. c # "t" => /\ Append(m, d) \in Seq(Char)
                   /\ Newlines(Append(m, d)) = IF d = "n" THEN Newlines(m) + 1 ELSE Newlines(m)
    BY <2>3, <2>4, AppendProperties, NewlinesAppend
  <2> QED BY <2>1, <2>2, <2>3, <2>4, <2>5, <2>6
<1> HIDE DEF S
<1>3. Seq(Valid) \subseteq S
  BY <1>1, <1>2, SequenceInduction
<1> QED BY <1>3 DEF S

LEMMA WholeGives ==
  ASSUME NEW A, NEW s \in Seq(A)
  PROVE  Whole(s) \in Seq(A) /\ s = Whole(s) \o carry_of(s)
<1>1. CASE Incomplete(s)
  <2>1. s # <<>> /\ Last(s) = "l"
    BY <1>1 DEF Incomplete
  <2>2. Front(s) \in Seq(A) /\ Last(s) \in A /\ s = Append(Front(s), Last(s))
    BY <2>1, FrontLast
  <2>3. Whole(s) = Front(s) /\ carry_of(s) = <<"l">>
    BY <1>1 DEF Whole, carry_of
  <2> DEFINE F == Front(s)
  <2>4. F \in Seq(A) /\ "l" \in A /\ s = Append(F, "l")
    BY <2>1, <2>2
  <2> HIDE DEF F
  <2>5. Append(F, "l") = F \o <<"l">>
    BY <2>4, AppendIsConcat
  <2> QED BY <2>2, <2>3, <2>4, <2>5 DEF F
<1>2. CASE ~Incomplete(s)
  <2>1. Whole(s) = s /\ carry_of(s) = <<>>
    BY <1>2 DEF Whole, carry_of
  <2> QED BY <2>1, ConcatEmptySeq
<1> QED BY <1>1, <1>2

\* Reading in two parts decodes what reading at once does, and carries the same over.
LEMMA DecodeConcat ==
  ASSUME NEW s \in Seq(Byte), NEW t \in Seq(Byte)
  PROVE  /\ decode(s \o t) = decode(s) \o decode(carry_of(s) \o t)
         /\ carry_of(s \o t) = carry_of(carry_of(s) \o t)
<1> DEFINE k == carry_of(s)
           w == Whole(s)
           B == Char \cup {"b"}
<1>1. w \in Seq(Byte) /\ s = w \o k
  BY WholeGives
<1>2. k \in Seq(Byte) /\ (k = <<>> \/ k = <<"l">>)
  <2>1. k = <<>> \/ k = <<"l">>
    BY Zenon DEF carry_of
  <2>2. <<>> \in Seq(Byte) /\ <<"l">> \in Seq(Byte)
    BY EmptySeq DEF Byte
  <2> HIDE DEF k
  <2> QED BY <2>1, <2>2
<1>3. decode(s) = Chars(w)
  BY DecodeIsChars
<1>4. \A u \in Seq(Byte) : Chars(u) \in Seq(B)
  <2>1. "n" \in Byte
    BY DEF Byte
  <2> QED BY <2>1, CharsAppend
<1> HIDE DEF w, B
<1>5. CASE t = <<>>
  <2>1. s \o t = s /\ k \o t = k
    BY <1>2, <1>5, ConcatEmptySeq
  <2>2. decode(k) = <<>> /\ carry_of(k) = k
    <3>1. CASE k = <<>>
      <4>1. ~Incomplete(k)
        BY <3>1 DEF Incomplete
      <4>2. Whole(k) = <<>> /\ carry_of(k) = <<>>
        <5> HIDE DEF k
        <5> QED BY <3>1, <4>1 DEF Whole, carry_of
      <4>3. Chars(Whole(k)) = <<>>
        BY <4>2, CharsEmpty
      <4> QED BY <3>1, <4>2, <4>3, DecodeIsChars
    <3>2. CASE k = <<"l">>
      <4>1. <<"l">> = Append(<<>>, "l") /\ <<>> \in Seq(Byte) /\ "l" \in Byte
        BY EmptySeq DEF Byte
      <4>2. \A q \in Seq(Byte), a \in Byte : Front(Append(q, a)) = q /\ Last(Append(q, a)) = a
        BY FrontLastOfAppend
      <4>3. Front(k) = <<>> /\ Last(k) = "l" /\ k # <<>>
        <5>1. Front(<<"l">>) = <<>> /\ Last(<<"l">>) = "l"
          BY <4>1, <4>2, Zenon
        <5>2. <<"l">> # <<>>
          OBVIOUS
        <5> HIDE DEF k
        <5> QED BY <3>2, <5>1, <5>2, Zenon
      <4>4. Whole(k) = <<>> /\ carry_of(k) = <<"l">>
        <5> HIDE DEF k
        <5> QED BY <4>3 DEF Whole, carry_of, Incomplete
      <4>5. Chars(Whole(k)) = <<>>
        BY <4>4, CharsEmpty
      <4> QED BY <3>2, <4>4, <4>5, DecodeIsChars
    <3> QED BY <1>2, <3>1, <3>2
  <2>3. decode(s) \o <<>> = decode(s)
    BY <1>1, <1>3, <1>4, ConcatEmptySeq
  <2> HIDE DEF k
  <2> QED BY <2>1, <2>2, <2>3 DEF k
<1>6. CASE t # <<>>
  <2> DEFINE c == Front(t)
             d == Last(t)
  <2>1. c \in Seq(Byte) /\ d \in Byte /\ t = Append(c, d)
    BY <1>6, FrontLast
  <2> HIDE DEF c, d, k
  <2>2. ASSUME NEW q \in Seq(Byte)
        PROVE  /\ Whole(q \o t) = q \o Whole(t)
               /\ carry_of(q \o t) = carry_of(t)
    <3> DEFINE v == q \o c
    <3>1. q \o t = Append(v, d) /\ v \in Seq(Byte)
      BY <2>1, ConcatAppend, ConcatProperties
    <3> HIDE DEF v
    <3>2. Front(Append(v, d)) = v /\ Last(Append(v, d)) = d /\ Append(v, d) # <<>>
      BY <2>1, <3>1, FrontLastOfAppend, AppendProperties
    <3>3. Front(t) = c /\ Last(t) = d
      BY DEF c, d
    <3>4. Incomplete(q \o t) = (d = "l") /\ Incomplete(t) = (d = "l")
      BY <1>6, <3>1, <3>2, <3>3 DEF Incomplete
    <3>5. carry_of(q \o t) = carry_of(t)
      BY <3>4 DEF carry_of
    <3>6. Whole(q \o t) = q \o Whole(t)
      BY <3>1, <3>2, <3>3, <3>4 DEF Whole, v
    <3> QED BY <3>5, <3>6
  <2> DEFINE W == Whole(t)
  <2>3. W \in Seq(Byte)
    BY WholeGives
  <2> HIDE DEF W
  <2>4. decode(s \o t) = Chars(s \o W) /\ decode(k \o t) = Chars(k \o W)
    BY <1>2, <2>2, DecodeIsChars DEF W
  <2>5. Chars(s \o W) = Chars(s) \o Chars(W) /\ Chars(k \o W) = Chars(k) \o Chars(W)
        /\ Chars(w \o k) = Chars(w) \o Chars(k)
    BY <1>1, <1>2, <2>3, CharsConcat
  <2>6. Chars(w) \in Seq(B) /\ Chars(k) \in Seq(B) /\ Chars(W) \in Seq(B)
    BY <1>1, <1>2, <1>4, <2>3
  <2>7. (Chars(w) \o Chars(k)) \o Chars(W) = Chars(w) \o (Chars(k) \o Chars(W))
    BY <2>6, ConcatAssociative
  <2>8. decode(s \o t) = decode(s) \o decode(k \o t)
    BY <1>1, <1>3, <2>4, <2>5, <2>7
  <2>9. carry_of(s \o t) = carry_of(k \o t)
    BY <1>2, <2>2
  <2> QED BY <2>8, <2>9 DEF k
<1> QED BY <1>5, <1>6

LEMMA DecodeGives ==
  ASSUME NEW s \in Seq(Valid)
  PROVE  /\ decode(s) \in Seq(Char)
         /\ ~Incomplete(s) => Newlines(decode(s)) = Newlines(s)
<1>1. Whole(s) \in Seq(Valid)
  BY WholeGives
<1>2. ~Incomplete(s) => Whole(s) = s
  BY DEF Whole
<1> QED BY <1>1, <1>2, DecodeIsChars, CharsGive

----------------------------------------------------------------------------
(* The terminated lines of a text *)

Closed(s) == SubSeq(s, 1, Len(s) - Len(Last(Pieces(s))))

LEMMA SubSeqAppend ==
  ASSUME NEW A, NEW s \in Seq(A), NEW a \in A, NEW k \in 0..Len(s)
  PROVE  SubSeq(Append(s, a), 1, k) = SubSeq(s, 1, k)
<1> DEFINE t == Append(s, a)
<1>1. /\ Len(s) \in Nat /\ k \in Nat /\ k <= Len(s) /\ t \in Seq(A)
      /\ \A i \in 1..Len(s) : t[i] = s[i]
  BY AppendProperties, LenProperties
<1>2. \A i \in 1..k : i \in 1..Len(s) /\ s[i] \in A
  BY <1>1, ElementOfSeq
<1> HIDE DEF t
<1>3. \A i \in 1..k : t[i] \in A
  BY <1>1, <1>2
<1>4. /\ SubSeq(t, 1, k) \in Seq(A) /\ Len(SubSeq(t, 1, k)) = IF 1 <= k THEN k - 1 + 1 ELSE 0
      /\ \A i \in 1..(k - 1 + 1) : SubSeq(t, 1, k)[i] = t[1 + i - 1]
  BY <1>1, <1>3, SubSeqProperties
<1>5. /\ SubSeq(s, 1, k) \in Seq(A) /\ Len(SubSeq(s, 1, k)) = IF 1 <= k THEN k - 1 + 1 ELSE 0
      /\ \A i \in 1..(k - 1 + 1) : SubSeq(s, 1, k)[i] = s[1 + i - 1]
  BY <1>1, <1>2, SubSeqProperties
<1>6. Len(SubSeq(t, 1, k)) = k /\ Len(SubSeq(s, 1, k)) = k
  BY <1>1, <1>4, <1>5
<1>7. \A i \in 1..k : i \in 1..(k - 1 + 1) /\ 1 + i - 1 = i
  BY <1>1
<1>8. \A i \in 1..k : SubSeq(t, 1, k)[i] = SubSeq(s, 1, k)[i]
  BY <1>1, <1>2, <1>4, <1>5, <1>7
<1> DEFINE p == SubSeq(t, 1, k)
           q == SubSeq(s, 1, k)
<1>9. p \in Seq(A) /\ q \in Seq(A) /\ Len(p) = Len(q) /\ \A i \in 1..Len(p) : p[i] = q[i]
  BY <1>4, <1>5, <1>6, <1>8
<1> HIDE DEF p, q
<1>10. p = q
  BY <1>9, SeqEqual
<1> QED BY <1>10 DEF p, q, t

LEMMA ClosedPieces ==
  ASSUME NEW s \in Seq(Char)
  PROVE  /\ Closed(s) \in Seq(Char) /\ Len(Last(Pieces(s))) <= Len(s)
         /\ Pieces(Closed(s)) = Append(Front(Pieces(s)), <<>>)
<1> DEFINE S == {u \in Seq(Char) : /\ Closed(u) \in Seq(Char) /\ Len(Last(Pieces(u))) <= Len(u)
                                   /\ Pieces(Closed(u)) = Append(Front(Pieces(u)), <<>>)}
<1>0. \A q \in Seq(Seq(Plain)), a \in Seq(Plain) : Front(Append(q, a)) = q /\ Last(Append(q, a)) = a
  BY FrontLastOfAppend
<1>1. <<>> \in S
  <2>1. ASSUME NEW u \in Seq(Char), u = <<>>
        PROVE  u \in S
    <3>1. Front(Pieces(u)) = <<>> /\ Last(Pieces(u)) = <<>>
      BY <2>1, PiecesEnd
    <3>2. Len(u) = 0 /\ Len(Last(Pieces(u))) = 0
      BY <2>1, <3>1
    <3>3. Closed(u) = <<>>
      <4>1. Closed(u) = SubSeq(u, 1, 0)
        BY <3>2 DEF Closed
      <4> QED BY <4>1, SubSeqEmpty
    <3>4. Pieces(Closed(u)) = <<<<>>>>
      BY <3>3, PiecesEmpty
    <3>5. Append(Front(Pieces(u)), <<>>) = <<<<>>>>
      BY <3>1
    <3>6. Closed(u) \in Seq(Char) /\ Len(Last(Pieces(u))) <= Len(u)
      BY <3>2, <3>3, EmptySeq
    <3>7. Pieces(Closed(u)) = Append(Front(Pieces(u)), <<>>)
      BY <3>4, <3>5, Zenon
    <3> QED BY <3>6, <3>7
  <2> HIDE DEF S
  <2> QED BY <2>1, EmptySeq
<1>2. ASSUME NEW u \in Seq(Char), NEW c \in Char, u \in S
      PROVE  Append(u, c) \in S
  <2> DEFINE lines == Front(Pieces(u))
             last == Last(Pieces(u))
             v == Append(u, c)
  <2>1. lines \in Seq(Seq(Plain)) /\ last \in Seq(Plain) /\ Pieces(u) = Append(lines, last)
    BY PieceParts
  <2>2. v \in Seq(Char) /\ Len(v) = Len(u) + 1 /\ Len(u) \in Nat /\ Len(last) \in Nat
    BY <2>1, AppendProperties, LenProperties
  <2>3. Closed(u) \in Seq(Char) /\ Len(last) <= Len(u) /\ Pieces(Closed(u)) = Append(lines, <<>>)
        /\ Closed(u) = SubSeq(u, 1, Len(u) - Len(last))
    BY <1>2 DEF Closed
  <2> HIDE DEF lines, last
  <2>4. /\ c = "n" => Pieces(v) = Append(Append(lines, last), <<>>)
        /\ c # "n" => Pieces(v) = Append(lines, Append(last, c))
    BY <2>1, PiecesGrow
  <2> HIDE DEF v
  <2>5. CASE c = "n"
    <3>1. Append(lines, last) \in Seq(Seq(Plain)) /\ <<>> \in Seq(Plain)
      BY <2>1, AppendProperties, EmptySeq
    <3>2. Front(Pieces(v)) = Append(lines, last) /\ Last(Pieces(v)) = <<>>
      BY <1>0, <2>4, <2>5, <3>1, Zenon
    <3>3. Len(Last(Pieces(v))) = 0
      BY <3>2
    <3>4. Closed(v) = SubSeq(v, 1, Len(v))
      BY <2>2, <3>3 DEF Closed
    <3>5. Closed(v) = v
      BY <2>2, <3>4, SubSeqFull
    <3>6. Closed(v) \in Seq(Char) /\ Len(Last(Pieces(v))) <= Len(v)
      BY <2>2, <3>3, <3>5
    <3>7. Pieces(Closed(v)) = Append(Front(Pieces(v)), <<>>)
      BY <2>4, <2>5, <3>2, <3>5, Zenon
    <3> QED BY <2>2, <3>6, <3>7 DEF v
  <2>6. CASE c # "n"
    <3> DEFINE longer == Append(last, c)
    <3>1. longer \in Seq(Plain) /\ Len(longer) = Len(last) + 1
      <4>1. c \in Plain
        BY <2>6 DEF Plain
      <4> QED BY <2>1, <4>1, AppendProperties
    <3> HIDE DEF longer
    <3>2. Front(Pieces(v)) = lines /\ Last(Pieces(v)) = longer
      BY <1>0, <2>1, <2>4, <2>6, <3>1, Zenon DEF longer
    <3>3. Closed(v) = SubSeq(v, 1, Len(u) - Len(last))
      <4>1. Len(v) - Len(longer) = Len(u) - Len(last)
        BY <2>2, <3>1
      <4> QED BY <3>2, <4>1 DEF Closed
    <3>4. Len(u) - Len(last) \in 0..Len(u)
      BY <2>2, <2>3
    <3>5. Closed(v) = Closed(u)
      <4>1. \A k \in 0..Len(u) : SubSeq(v, 1, k) = SubSeq(u, 1, k)
        BY SubSeqAppend DEF v
      <4> QED BY <2>3, <3>3, <3>4, <4>1
    <3>6. Len(longer) <= Len(v)
      BY <2>2, <2>3, <3>1
    <3> QED BY <2>2, <2>3, <3>2, <3>5, <3>6 DEF v
  <2> QED BY <2>5, <2>6
<1> HIDE DEF S
<1>3. Seq(Char) \subseteq S
  BY <1>1, <1>2, SequenceInduction
<1> QED BY <1>3 DEF S

\* Without an unterminated last line a text is its terminated lines.
LEMMA ClosedGives ==
  ASSUME NEW s \in Seq(Char)
  PROVE  /\ Without(Closed(s), "n") = FlattenSeq(Front(Pieces(s)))
         /\ Lines(Closed(s)) = Front(Pieces(s))
<1> DEFINE c == Closed(s)
           lines == Front(Pieces(s))
<1>1. c \in Seq(Char) /\ Pieces(c) = Append(lines, <<>>)
  BY ClosedPieces
<1>2. lines \in Seq(Seq(Plain))
  BY PieceParts
<1>3. FlattenSeq(Pieces(c)) = Without(c, "n")
  <2> HIDE DEF c
  <2> QED BY <1>1, PiecesFlatten
<1> HIDE DEF c, lines
<1>4. /\ FlattenSeq(Append(lines, <<>>)) = FlattenSeq(lines) \o <<>> /\ FlattenSeq(lines) \in Seq(Plain)
      /\ Front(Append(lines, <<>>)) = lines /\ Last(Append(lines, <<>>)) = <<>>
  <2>1. \A q \in Seq(Seq(Plain)), a \in Seq(Plain) :
          /\ Front(Append(q, a)) = q /\ Last(Append(q, a)) = a
          /\ FlattenSeq(Append(q, a)) = FlattenSeq(q) \o a
    BY FrontLastOfAppend, FlattenAppend
  <2>2. <<>> \in Seq(Plain) /\ FlattenSeq(lines) \in Seq(Plain)
    BY <1>2, FlattenType, EmptySeq
  <2> QED BY <1>2, <2>1, <2>2, Zenon
<1>5. FlattenSeq(lines) \o <<>> = FlattenSeq(lines)
  BY <1>4, ConcatEmptySeq
<1>6. Lines(c) = lines
  BY <1>1, <1>4 DEF Lines, Ended
<1>7. Without(c, "n") = FlattenSeq(lines)
  BY <1>1, <1>3, <1>4, <1>5
<1> QED BY <1>6, <1>7 DEF c, lines

LEMMA LinesCount ==
  ASSUME NEW s \in Seq(Char)
  PROVE  Len(Lines(s)) = Newlines(s) + IF Unended(s) THEN 1 ELSE 0
<1> DEFINE p == Pieces(s)
           lines == Front(p)
           last == Last(p)
<1>1. lines \in Seq(Seq(Plain)) /\ last \in Seq(Plain) /\ p = Append(lines, last)
  BY PieceParts
<1>2. Len(p) = Newlines(s) + 1 /\ Newlines(s) \in Nat
  BY PiecesFlatten, NewlinesType
<1>3. (last = <<>>) = ~Unended(s)
  BY PiecesEnd DEF Unended
<1>4. Lines(s) = IF last = <<>> THEN lines ELSE p
  BY DEF Lines, Ended
<1> HIDE DEF p, lines, last
<1>5. Len(p) = Len(lines) + 1 /\ Len(lines) \in Nat
  BY <1>1, AppendProperties, LenProperties
<1>6. CASE Unended(s)
  <2>1. Lines(s) = p
    BY <1>3, <1>4, <1>6
  <2> QED BY <1>2, <1>6, <2>1
<1>7. CASE ~Unended(s)
  <2>1. Lines(s) = lines
    BY <1>3, <1>4, <1>7
  <2>2. Len(Lines(s)) = Newlines(s) + 0
    BY <1>2, <1>5, <2>1
  <2> QED BY <1>7, <2>2
<1> QED BY <1>6, <1>7

LEMMA UnendedConcat ==
  ASSUME NEW s \in Seq(Char), NEW t \in Seq(Char)
  PROVE  Unended(s \o t) = IF t = <<>> THEN Unended(s) ELSE Unended(t)
<1>1. CASE t = <<>>
  <2>1. s \o t = s
    BY <1>1, ConcatEmptySeq
  <2> QED BY <1>1, <2>1
<1>2. CASE t # <<>>
  <2> DEFINE c == Front(t)
             d == Last(t)
             v == s \o c
  <2>1. c \in Seq(Char) /\ d \in Char /\ t = Append(c, d)
    BY <1>2, FrontLast
  <2> HIDE DEF c, d
  <2>2. s \o t = Append(v, d) /\ v \in Seq(Char)
    BY <2>1, ConcatAppend, ConcatProperties
  <2> HIDE DEF v
  <2>3. Last(Append(v, d)) = d /\ Append(v, d) # <<>>
    BY <2>1, <2>2, FrontLastOfAppend, AppendProperties
  <2>4. Last(t) = d
    BY DEF d
  <2>5. Unended(s \o t) = (d # "n") /\ Unended(t) = (d # "n")
    BY <1>2, <2>2, <2>3, <2>4 DEF Unended
  <2> QED BY <1>2, <2>5
<1> QED BY <1>1, <1>2

\* The lines of a text that grows, from its unterminated last line on.
LEMMA PiecesGrown ==
  ASSUME NEW s \in Seq(Char), NEW t \in Seq(Char)
  PROVE  LET p == Pieces(Last(Pieces(s)) \o t)
         IN /\ Front(Pieces(s \o t)) = Front(Pieces(s)) \o Front(p)
            /\ Last(Pieces(s \o t)) = Last(p)
            /\ Front(p) \in Seq(Seq(Plain)) /\ Last(p) \in Seq(Plain)
<1> DEFINE l == Last(Pieces(s))
           p == Pieces(l \o t)
           lines == Front(Pieces(s))
<1>1. l \in Seq(Plain) /\ lines \in Seq(Seq(Plain))
  BY PieceParts
<1>2. Pieces(s \o t) = lines \o p
  BY PiecesResume
<1>3. l \o t \in Seq(Char)
  <2>1. Plain \subseteq Char
    BY DEF Plain
  <2>2. l \in Seq(Char)
    BY <1>1, <2>1, SeqMonotonic
  <2> QED BY <2>2, ConcatProperties
<1> DEFINE more == Front(p)
           rest == Last(p)
<1>4. more \in Seq(Seq(Plain)) /\ rest \in Seq(Plain) /\ p = Append(more, rest)
  <2> DEFINE u == l \o t
  <2> HIDE DEF u
  <2>1. u \in Seq(Char)
    BY <1>3 DEF u
  <2>2. Front(Pieces(u)) \in Seq(Seq(Plain)) /\ Last(Pieces(u)) \in Seq(Plain)
        /\ Pieces(u) = Append(Front(Pieces(u)), Last(Pieces(u)))
    BY <2>1, PieceParts
  <2> QED BY <2>2 DEF u
<1> HIDE DEF p, more, rest, lines, l
<1>5. lines \o p = Append(lines \o more, rest) /\ lines \o more \in Seq(Seq(Plain))
  BY <1>1, <1>4, ConcatAppend, ConcatProperties, SMTT(30)
<1>6. Front(Append(lines \o more, rest)) = lines \o more /\ Last(Append(lines \o more, rest)) = rest
  <2> DEFINE v == lines \o more
  <2>1. v \in Seq(Seq(Plain))
    BY <1>5
  <2> HIDE DEF v
  <2>2. Front(Append(v, rest)) = v /\ Last(Append(v, rest)) = rest
    BY <1>4, <2>1, FrontLastOfAppend
  <2> QED BY <2>2 DEF v
<1> QED BY <1>2, <1>4, <1>5, <1>6 DEF p, more, rest, lines, l

----------------------------------------------------------------------------
(* The reader *)

ReaderOK(r) ==
  /\ r \in Reader /\ Len(r.carry) <= 1
  /\ FramingOf(r) \in Framings /\ Coherent(FramingOf(r))
  /\ Framing = "inventory" => Bounded(FramingOf(r))
  /\ Framing = "line" => r.pending = None /\ ~r.continuation

LEMMA PendingType ==
  ASSUME NEW p \in Pending
  PROVE  p \in Seq(Seq(Char)) /\ Len(p) <= 1
<1>1. CASE p = None
  <2>1. p = <<>>
    BY <1>1 DEF None
  <2> QED BY <2>1, EmptySeq
<1>2. CASE p # None
  <2> DEFINE t == p[1]
  <2>1. t \in Seq(Char) /\ p = <<t>>
    BY <1>2, PendingText DEF Some
  <2> HIDE DEF t
  <2> QED BY <2>1
<1> QED BY <1>1, <1>2

LEMMA FramingOfReader ==
  ASSUME NEW r
  PROVE  LET f == FramingOf(r)
         IN /\ f.done = <<>> /\ f.pending = r.pending /\ f.fragment = r.fragment
            /\ f.continuation = r.continuation
BY DEF FramingOf

LEMMA OutParts ==
  ASSUME NEW f, NEW n
  PROVE  /\ Out(f, n) = (Texts(parse_framed_records(f.done, n).entries)
                          \o (IF f.pending = None THEN <<>> ELSE Without(f.pending[1], "n"))) \o f.fragment
         /\ Line(f, n) = (parse_framed_records(f.done, n).next
                          + (IF f.pending = None THEN 0 ELSE Newlines(f.pending[1]) + 1))
                         - (IF f.continuation THEN 1 ELSE 0)
<1>1. Framing2(f).done = f.done /\ Framing2(f).pending = f.pending
  BY DEF Framing2
<1>2. Told(Framing2(f), n) = Texts(parse_framed_records(f.done, n).entries)
                          \o (IF f.pending = None THEN <<>> ELSE Without(f.pending[1], "n"))
  BY <1>1 DEF Told
<1>3. AtLine(Framing2(f), n) = parse_framed_records(f.done, n).next
                          + (IF f.pending = None THEN 0 ELSE Newlines(f.pending[1]) + 1)
  BY <1>1 DEF AtLine
<1>4. Out(f, n) = Told(Framing2(f), n) \o f.fragment
  BY DEF Out
<1>5. Line(f, n) = AtLine(Framing2(f), n) - (IF f.continuation THEN 1 ELSE 0)
  BY DEF Line
<1> QED BY <1>2, <1>3, <1>4, <1>5

\* Of the characters a framing holds, some are in entries and the rest stays held back.
LEMMA OutSplits ==
  ASSUME NEW f \in Framings, NEW r, NEW n \in Nat \ {0}, r.pending = f.pending,
         r.fragment = f.fragment, r.continuation = f.continuation
  PROVE  LET parsed == parse_framed_records(f.done, n)
         IN /\ FramingOf(r) \in Framings
            /\ Texts(parsed.entries) \in Seq(Plain) /\ parsed.next \in Nat \ {0}
            /\ Out(FramingOf(r), parsed.next) \in Seq(Plain)
            /\ Out(f, n) = Texts(parsed.entries) \o Out(FramingOf(r), parsed.next)
            /\ Line(f, n) = Line(FramingOf(r), parsed.next)
            /\ Coherent(f) => Coherent(FramingOf(r))
            /\ Bounded(f) => Bounded(FramingOf(r))
            /\ Open(f) = Open(FramingOf(r))
<1> DEFINE h == FramingOf(r)
           D == Texts(parse_framed_records(f.done, n).entries)
           N == parse_framed_records(f.done, n).next
           P == IF f.pending = None THEN <<>> ELSE Without(f.pending[1], "n")
           M == IF f.pending = None THEN 0 ELSE Newlines(f.pending[1]) + 1
           F == f.fragment
           X == IF f.continuation THEN 1 ELSE 0
           e == <<>>
<1>1. h.done = e /\ h.pending = f.pending /\ h.fragment = f.fragment /\ h.continuation = f.continuation
  BY FramingOfReader
<1>2. e \in Seq(Record) /\ e \in Seq(Plain)
  BY EmptySeq
<1>3. h \in Framings
  BY <1>2 DEF Framings, FramingOf
<1>4. f.done \in Seq(Record) /\ F \in Seq(Plain) /\ f.pending \in Pending
  BY DEF Framings
<1>5. D \in Seq(Plain) /\ N \in Nat \ {0}
  BY <1>4, DoneTypes
<1>6. P \in Seq(Plain) /\ M \in Nat
  <2>1. CASE f.pending = None
    BY <1>2, <2>1
  <2>2. CASE f.pending # None
    <3> DEFINE t == f.pending[1]
    <3>1. t \in Seq(Char)
      BY <1>4, <2>2, PendingText
    <3> HIDE DEF t
    <3>2. Without(t, "n") \in Seq(Plain) /\ Newlines(t) \in Nat
      BY <3>1, WithoutType, NewlinesType DEF Plain
    <3> QED BY <2>2, <3>2 DEF t
  <2> QED BY <2>1, <2>2
<1>7. Out(f, n) = (D \o P) \o F /\ Line(f, n) = (N + M) - X
  BY OutParts
<1>8. /\ Texts(parse_framed_records(e, N).entries) = e
      /\ parse_framed_records(e, N).next = N
  <2>1. parse_framed_records(e, N) = [entries |-> <<>>, next |-> N]
    BY ParseEmpty
  <2>2. Texts(<<>>) = <<>>
    BY TextsEmpty
  <2> HIDE DEF N
  <2> QED BY <2>1, <2>2
<1> HIDE DEF e, h, D, N
<1>9. Out(h, N) = (e \o P) \o F /\ Line(h, N) = (N + M) - X
  <2> DEFINE L == Line(h, N)
             O == Out(h, N)
  <2>1. O = (Texts(parse_framed_records(h.done, N).entries)
               \o (IF h.pending = None THEN <<>> ELSE Without(h.pending[1], "n"))) \o h.fragment
        /\ L = (parse_framed_records(h.done, N).next
               + (IF h.pending = None THEN 0 ELSE Newlines(h.pending[1]) + 1))
               - (IF h.continuation THEN 1 ELSE 0)
    BY OutParts
  <2> HIDE DEF L, O
  <2>2. O = (e \o P) \o F /\ L = (N + M) - X
    BY <1>1, <1>8, <2>1
  <2> QED BY <2>2 DEF L, O
<1> HIDE DEF P, M, F, X
<1>10. e \o P = P
  BY <1>6, ConcatEmptySeq DEF e
<1>11. (D \o P) \o F = D \o (P \o F)
  BY <1>4, <1>5, <1>6, PlainAssociative, Zenon
<1>12. P \o F \in Seq(Plain)
  BY <1>4, <1>6, ConcatProperties
<1>13. HeldBack(h) = HeldBack(f)
  BY <1>1 DEF HeldBack
<1>14. Coherent(f) => Coherent(h)
  BY <1>1 DEF Coherent
<1>15. Open(f) = Open(h)
  BY <1>1 DEF Open
<1> QED BY <1>3, <1>5, <1>7, <1>9, <1>10, <1>11, <1>12, <1>13, <1>14, <1>15 DEF Bounded, D, N, h

\* Numbering keeps the texts of the entries, and the rest of the reader.
LEMMA NumberedGives ==
  ASSUME NEW r \in Reader, NEW f \in Framings
  PROVE  LET out == Numbered(r, f)
             parsed == parse_framed_records(f.done, r.next_line)
         IN /\ out.entries \in Seq(Entry) /\ out.errors \in Nat
            /\ Texts(out.entries) = Texts(parsed.entries)
            /\ out.reader \in Reader
            /\ out.reader.next_line = parsed.next
            /\ out.reader.pending = f.pending /\ out.reader.fragment = f.fragment
            /\ out.reader.continuation = f.continuation
            /\ out.reader.carry = r.carry /\ out.reader.byte_offset = r.byte_offset
            /\ out.reader.file_identity = r.file_identity
            /\ out.reader.pending_reset = r.pending_reset
<1> DEFINE out == Numbered(r, f)
           parsed == parse_framed_records(f.done, r.next_line)
           E == parsed.entries
           id == r.next_id
           new == [i \in DOMAIN E |-> [id |-> id + i - 1, line |-> E[i].line, text |-> E[i].text]]
<1>1. r.next_line \in Nat \ {0} /\ id \in Nat
  BY DEF Reader
<1>2. f.done \in Seq(Record) /\ f.pending \in Pending /\ f.fragment \in Seq(Plain) /\ f.continuation \in BOOLEAN
  BY DEF Framings
<1>3. E \in Seq(Projected) /\ parsed.next \in Nat \ {0}
  BY <1>1, <1>2, ParseType
<1>4. out = Identified(r, f, parsed)
  BY DEF Numbered
<1> HIDE DEF parsed, out, id
<1>5. /\ out.entries = new /\ out.errors = overflow_count(f.done)
      /\ out.reader = [r EXCEPT !.next_id = @ + Len(E), !.next_line = parsed.next,
                                !.pending = f.pending, !.fragment = f.fragment,
                                !.continuation = f.continuation]
  BY <1>4 DEF Identified, id
<1> HIDE DEF E
<1>6. DOMAIN E = 1..Len(E) /\ Len(E) \in Nat /\ \A i \in 1..Len(E) : E[i] \in Projected
  BY <1>3, LenProperties, ElementOfSeq DEF E
<1>7. ASSUME NEW i \in 1..Len(E)
      PROVE  [id |-> id + i - 1, line |-> E[i].line, text |-> E[i].text] \in Entry
  <2>1. E[i].line \in Nat \ {0} /\ E[i].text \in Seq(Char)
    BY <1>6 DEF Projected
  <2>2. id + i - 1 \in Nat
    BY <1>1, <1>6
  <2> QED BY <2>1, <2>2 DEF Entry
<1>8. new \in [1..Len(E) -> Entry]
  BY <1>6, <1>7
<1>9. new \in Seq(Entry)
  <2> HIDE DEF new
  <2> QED BY <1>6, <1>8, SeqDef
<1>10. Texts(new) = Texts(E)
  <2>1. DOMAIN new = DOMAIN E /\ \A i \in DOMAIN E : new[i].text = E[i].text
    OBVIOUS
  <2> HIDE DEF new
  <2>2. [i \in DOMAIN new |-> new[i].text] = [i \in DOMAIN E |-> E[i].text]
    BY <2>1
  <2> QED BY <2>2 DEF Texts
<1> HIDE DEF new
<1>11. overflow_count(f.done) \in Nat
  BY <1>2, OverflowType
<1>12. f.pending \in Seq(Seq(Char)) /\ f.fragment \in Seq(Char)
  <2>1. Plain \subseteq Char
    BY DEF Plain
  <2> QED BY <1>2, <2>1, PendingType, SeqMonotonic
<1>13. id + Len(E) \in Nat
  BY <1>1, <1>6
<1>14. /\ out.reader \in Reader
       /\ out.reader.next_line = parsed.next
       /\ out.reader.pending = f.pending /\ out.reader.fragment = f.fragment
       /\ out.reader.continuation = f.continuation
       /\ out.reader.carry = r.carry /\ out.reader.byte_offset = r.byte_offset
       /\ out.reader.file_identity = r.file_identity
       /\ out.reader.pending_reset = r.pending_reset
  <2> DEFINE d == f.pending
             g == f.fragment
             c == f.continuation
             m == parsed.next
             k == id + Len(E)
  <2>1. d \in Seq(Seq(Char)) /\ g \in Seq(Char) /\ c \in BOOLEAN /\ m \in Nat \ {0} /\ k \in Nat
    BY <1>2, <1>3, <1>12, <1>13
  <2>2. out.reader = [r EXCEPT !.next_id = k, !.next_line = m, !.pending = d, !.fragment = g,
                               !.continuation = c]
    BY <1>5 DEF id
  <2> HIDE DEF d, g, c, m, k
  <2>3. /\ out.reader \in Reader /\ out.reader.next_line = m /\ out.reader.pending = d
        /\ out.reader.fragment = g /\ out.reader.continuation = c
        /\ out.reader.carry = r.carry /\ out.reader.byte_offset = r.byte_offset
        /\ out.reader.file_identity = r.file_identity /\ out.reader.pending_reset = r.pending_reset
    BY <2>1, <2>2 DEF Reader
  <2> QED BY <2>3 DEF d, g, c, m
<1>15. out.entries \in Seq(Entry) /\ out.errors \in Nat /\ Texts(out.entries) = Texts(E)
  BY <1>5, <1>9, <1>10, <1>11
<1> QED BY <1>14, <1>15 DEF out, parsed, E

\* The framing of what a reader reads.
LEMMA FrameTextGives ==
  ASSUME NEW r, ReaderOK(r), NEW text \in Seq(Char)
  PROVE  LET out == FrameText(FramingOf(r), text)
         IN /\ out \in Framings /\ Coherent(out)
            /\ Framing = "inventory" => Bounded(out)
            /\ Framing = "line" => out.pending = None /\ ~out.continuation
<1> DEFINE f == FramingOf(r)
           out == FrameText(f, text)
<1>1. f \in Framings /\ Coherent(f)
  BY DEF ReaderOK
<1>2. f.pending = r.pending /\ f.continuation = r.continuation
  BY FramingOfReader
<1>3. 1 \in Nat \ {0}
  OBVIOUS
<1> HIDE DEF f
<1>4. CASE Framing = "inventory"
  <2>1. Bounded(f)
    BY <1>4 DEF ReaderOK, f
  <2>2. out = process_inventory_text(f, text)
    BY <1>4 DEF FrameText
  <2> HIDE DEF out
  <2>3. out \in Framings /\ Coherent(out) /\ Bounded(out)
    BY <1>1, <1>3, <2>1, <2>2, InventoryTextGives
  <2> QED BY <1>4, <2>3 DEF out, f
<1>5. CASE Framing = "line"
  <2>1. f.pending = None /\ ~f.continuation
    BY <1>2, <1>5 DEF ReaderOK
  <2>2. out = collect_complete_lines(f, text)
    BY <1>5 DEF FrameText
  <2> HIDE DEF out
  <2>3. out \in Framings /\ out.pending = f.pending /\ out.continuation = f.continuation
    BY <1>1, <1>3, <2>2, CompleteLinesGive
  <2>4. Coherent(out)
    BY <2>1, <2>3 DEF Coherent
  <2> QED BY <1>5, <2>1, <2>3, <2>4 DEF out, f
<1> QED BY <1>4, <1>5, FramingAssumption

LEMMA ReaderParts ==
  ASSUME NEW r, ReaderOK(r)
  PROVE  /\ r \in Reader /\ r.next_line \in Nat \ {0} /\ r.next_id \in Nat /\ r.carry \in Seq({"l"})
         /\ Len(r.carry) \in Nat /\ r.byte_offset \in 0..MaxLen
         /\ r.pending \in Pending /\ r.fragment \in Seq(Plain) /\ r.continuation \in BOOLEAN
<1>1. r \in Reader
  BY DEF ReaderOK
<1>2. /\ r.next_line \in Nat \ {0} /\ r.next_id \in Nat /\ r.carry \in Seq({"l"})
      /\ r.byte_offset \in 0..MaxLen
  BY <1>1 DEF Reader
<1>3. Len(r.carry) \in Nat
  BY <1>2, LenProperties
<1> DEFINE f == FramingOf(r)
<1>4. f \in Framings
  BY DEF ReaderOK
<1>5. f.pending = r.pending /\ f.fragment = r.fragment /\ f.continuation = r.continuation
  BY FramingOfReader
<1> HIDE DEF f
<1>6. f.pending \in Pending /\ f.fragment \in Seq(Plain) /\ f.continuation \in BOOLEAN
  BY <1>4 DEF Framings
<1> QED BY <1>1, <1>2, <1>3, <1>5, <1>6

\* A reader that keeps nothing back.
Emptied(r) == r.pending = None /\ r.fragment = <<>> /\ ~r.continuation

LEMMA EmptiedIsOK ==
  ASSUME NEW r \in Reader, Emptied(r), Len(r.carry) <= 1
  PROVE  ReaderOK(r)
<1> DEFINE f == FramingOf(r)
<1>1. f.pending = r.pending /\ f.fragment = r.fragment /\ f.continuation = r.continuation /\ f.done = <<>>
  BY FramingOfReader
<1>2. f \in Framings
  <2>1. <<>> \in Seq(Record) /\ <<>> \in Seq(Plain) /\ None \in Pending
    BY EmptySeq DEF Pending
  <2>2. r.continuation \in BOOLEAN
    BY DEF Reader
  <2> QED BY <2>1, <2>2 DEF Framings, FramingOf, Emptied
<1> HIDE DEF f
<1>3. Bounded(f)
  BY <1>1, <1>2, PendingFits DEF Emptied
<1>4. Coherent(f)
  BY <1>1 DEF Coherent, Emptied
<1> QED BY <1>2, <1>3, <1>4 DEF ReaderOK, Emptied, f

\* Completing what a reader holds back: without a logical framing it is dropped.
LEMMA FlushedGives ==
  ASSUME NEW r, ReaderOK(r)
  PROVE  LET f == FramingOf(r)
             out == FlushText(f)
             parsed == parse_framed_records(out.done, r.next_line)
         IN /\ out \in Framings /\ Emptied(out)
            /\ Framing = "inventory" => /\ Texts(parsed.entries) = Out(f, r.next_line)
                                        /\ parsed.next = Line(f, r.next_line) + IF Open(f) THEN 1 ELSE 0
            /\ Framing = "line" => parsed.entries = <<>> /\ parsed.next = r.next_line
<1> DEFINE f == FramingOf(r)
           out == FlushText(f)
           n == r.next_line
<1>1. f \in Framings /\ Coherent(f) /\ n \in Nat \ {0}
  BY ReaderParts DEF ReaderOK
<1>2. f.done = <<>> /\ f.pending = r.pending /\ f.continuation = r.continuation
  BY FramingOfReader
<1> HIDE DEF f, n
<1>3. CASE Framing = "inventory"
  <2>1. out = flush_pending_text(f)
    BY <1>3 DEF FlushText
  <2> HIDE DEF out
  <2>2. /\ out \in Framings /\ out.pending = None /\ out.fragment = <<>> /\ ~out.continuation
        /\ Texts(parse_framed_records(out.done, n).entries) = Out(f, n)
        /\ parse_framed_records(out.done, n).next = Line(f, n) + IF Open(f) THEN 1 ELSE 0
    BY <1>1, <2>1, FlushTextGives
  <2> QED BY <1>3, <2>2 DEF out, f, n, Emptied
<1>4. CASE Framing = "line"
  <2>1. out = [f EXCEPT !.fragment = <<>>]
    BY <1>4 DEF FlushText
  <2>2. r.pending = None /\ ~r.continuation
    BY <1>4 DEF ReaderOK
  <2>3. <<>> \in Seq(Plain)
    BY EmptySeq
  <2> HIDE DEF out
  <2>4. /\ out \in Framings /\ out.fragment = <<>> /\ out.pending = None /\ ~out.continuation
        /\ out.done = <<>>
    BY <1>1, <1>2, <2>1, <2>2, <2>3 DEF Framings
  <2>5. parse_framed_records(out.done, n) = [entries |-> <<>>, next |-> n]
    BY <2>4, ParseEmpty
  <2> QED BY <1>4, <2>4, <2>5 DEF out, f, n, Emptied
<1> QED BY <1>3, <1>4, FramingAssumption

LEMMA FinalGives ==
  ASSUME NEW r, ReaderOK(r)
  PROVE  LET out == finalize_pending_input(r)
             f == FramingOf(r)
         IN /\ out.entries \in Seq(Entry) /\ out.errors \in Nat
            /\ ReaderOK(out.reader) /\ Emptied(out.reader) /\ out.reader.carry = <<>>
            /\ out.reader.byte_offset = r.byte_offset
            /\ Framing = "inventory" =>
                 /\ Texts(out.entries) = Out(f, r.next_line)
                 /\ out.reader.next_line = Line(f, r.next_line) + IF Open(f) THEN 1 ELSE 0
            /\ Framing = "line" => Texts(out.entries) = <<>> /\ out.reader.next_line = r.next_line
<1> DEFINE out == finalize_pending_input(r)
           q == [r EXCEPT !.carry = <<>>]
           f == FramingOf(r)
           g == FlushText(f)
           n == r.next_line
           flushed == Numbered(q, g)
           parsed == parse_framed_records(g.done, n)
<1>1. r \in Reader /\ Len(r.carry) \in Nat
  BY ReaderParts
<1>2. /\ q \in Reader /\ q.next_line = n /\ q.carry = <<>> /\ q.byte_offset = r.byte_offset
      /\ q.pending = r.pending
  <2>1. <<>> \in Seq({"l"})
    BY EmptySeq
  <2> QED BY <1>1, <2>1 DEF Reader
<1>3. /\ g \in Framings /\ Emptied(g)
      /\ Framing = "inventory" => /\ Texts(parsed.entries) = Out(f, n)
                                  /\ parsed.next = Line(f, n) + IF Open(f) THEN 1 ELSE 0
      /\ Framing = "line" => parsed.entries = <<>> /\ parsed.next = n
  BY FlushedGives
<1>4. out = [flushed EXCEPT !.errors = @ + Len(r.carry)]
  BY DEF finalize_pending_input
<1>5. flushed = Identified(q, g, parse_framed_records(g.done, q.next_line))
  BY DEF Numbered
<1> HIDE DEF q, g, f, n, out
<1>6. /\ flushed.entries \in Seq(Entry) /\ flushed.errors \in Nat
      /\ Texts(flushed.entries) = Texts(parse_framed_records(g.done, q.next_line).entries)
      /\ flushed.reader \in Reader
      /\ flushed.reader.next_line = parse_framed_records(g.done, q.next_line).next
      /\ flushed.reader.pending = g.pending /\ flushed.reader.fragment = g.fragment
      /\ flushed.reader.continuation = g.continuation
      /\ flushed.reader.carry = q.carry /\ flushed.reader.byte_offset = q.byte_offset
  BY <1>2, <1>3, NumberedGives
<1>7. DOMAIN flushed = {"reader", "entries", "errors"}
  BY <1>5 DEF Identified
<1> HIDE DEF flushed
<1>8. out.entries = flushed.entries /\ out.reader = flushed.reader /\ out.errors = flushed.errors + Len(r.carry)
  BY <1>4, <1>7
<1>9. Emptied(out.reader)
  BY <1>3, <1>6, <1>8 DEF Emptied
<1>10. Len(out.reader.carry) <= 1 /\ out.reader.carry = <<>>
  <2>1. Len(<<>>) <= 1
    OBVIOUS
  <2> QED BY <1>2, <1>6, <1>8, <2>1
<1>11. ReaderOK(out.reader)
  BY <1>6, <1>8, <1>9, <1>10, EmptiedIsOK
<1>12. out.errors \in Nat
  BY <1>1, <1>6, <1>8
<1>13. Texts(out.entries) = Texts(parsed.entries) /\ out.reader.next_line = parsed.next
  BY <1>2, <1>6, <1>8
<1> HIDE DEF parsed
<1>14. Framing = "inventory" => /\ Texts(out.entries) = Out(f, n)
                                /\ out.reader.next_line = Line(f, n) + IF Open(f) THEN 1 ELSE 0
  BY <1>3, <1>13
<1>15. Framing = "line" => Texts(out.entries) = <<>> /\ out.reader.next_line = n
  BY <1>3, <1>13, TextsEmpty
<1>16. out.entries \in Seq(Entry) /\ out.reader.byte_offset = r.byte_offset
  BY <1>2, <1>6, <1>8
<1> QED BY <1>9, <1>10, <1>11, <1>12, <1>14, <1>15, <1>16 DEF out, f, n

LEMMA RestartedGives ==
  ASSUME NEW r, ReaderOK(r)
  PROVE  /\ ReaderOK(Restarted(r)) /\ Emptied(Restarted(r)) /\ Restarted(r).next_line = 1
         /\ Restarted(r).carry = r.carry
<1> DEFINE q == Restarted(r)
<1>1. r \in Reader /\ Len(r.carry) <= 1
  BY DEF ReaderOK
<1>2. <<>> \in Seq(Char) /\ None \in Seq(Seq(Char)) /\ 1 \in Nat \ {0}
  BY EmptySeq DEF None
<1>3. q = [r EXCEPT !.fragment = <<>>, !.continuation = FALSE, !.pending = None, !.next_line = 1]
  BY DEF Restarted
<1> HIDE DEF q
<1>4. /\ q \in Reader /\ q.pending = None /\ q.fragment = <<>> /\ q.continuation = FALSE
      /\ q.next_line = 1 /\ q.carry = r.carry
  BY <1>1, <1>2, <1>3 DEF Reader
<1> QED BY <1>1, <1>4, EmptiedIsOK DEF q, Emptied

LEMMA LeftGives ==
  ASSUME NEW r, ReaderOK(r), NEW reset
  PROVE  /\ LeftBehind(r, reset).entries \in Seq(Entry) /\ LeftBehind(r, reset).errors \in Nat
         /\ ReaderOK(LeftBehind(r, reset).reader)
         /\ reset = "none" => /\ LeftBehind(r, reset).reader = r
                              /\ LeftBehind(r, reset).entries = <<>>
<1>1. CASE reset = "Truncated"
  <2>1. LeftBehind(r, reset) = finalize_pending_input(r) /\ reset # "none"
    BY <1>1 DEF LeftBehind
  <2> QED BY <2>1, FinalGives
<1>2. CASE reset # "Truncated"
  <2>1. LeftBehind(r, reset) = [reader |-> r, entries |-> <<>>, errors |-> 0]
    BY <1>2 DEF LeftBehind
  <2> QED BY <2>1, EmptySeq
<1> QED BY <1>1, <1>2

----------------------------------------------------------------------------
(* A read *)

\* The entries of what a reader reads, with what it holds back afterwards, are what it held back
\* before followed by the text; without a logical framing they are the lines that end.
LEMMA TookGives ==
  ASSUME NEW r, ReaderOK(r), NEW text \in Seq(Char)
  PROVE  LET out == Took(r, text)
             f == FramingOf(r)
             q == out.reader
             h == FramingOf(q)
             p == Pieces(r.fragment \o text)
         IN /\ out.entries \in Seq(Entry) /\ out.errors \in Nat
            /\ q \in Reader /\ q.carry = r.carry /\ h \in Framings /\ Coherent(h)
            /\ Texts(out.entries) \in Seq(Plain)
            /\ Framing = "inventory" =>
                 /\ Bounded(h)
                 /\ Out(h, q.next_line) \in Seq(Plain)
                 /\ Texts(out.entries) \o Out(h, q.next_line)
                      = Out(f, r.next_line) \o Without(text, "n")
                 /\ Line(h, q.next_line) = Line(f, r.next_line) + Newlines(text)
                 /\ Open(h) <=> IF text = <<>> THEN Open(f) ELSE Unended(text)
            /\ Framing = "line" =>
                 /\ q.pending = None /\ ~q.continuation
                 /\ Texts(out.entries) = FlattenSeq(Front(p))
                 /\ q.next_line = r.next_line + Len(Front(p))
                 /\ q.fragment = Last(p)
<1> DEFINE out == Took(r, text)
           f == FramingOf(r)
           g == FrameText(f, text)
           n == r.next_line
           q == out.reader
           h == FramingOf(q)
           p == Pieces(r.fragment \o text)
           parsed == parse_framed_records(g.done, n)
<1>1. r \in Reader /\ n \in Nat \ {0} /\ f \in Framings /\ Coherent(f)
  BY ReaderParts DEF ReaderOK
<1>2. /\ g \in Framings /\ Coherent(g)
      /\ Framing = "inventory" => Bounded(g)
      /\ Framing = "line" => g.pending = None /\ ~g.continuation
  BY FrameTextGives
<1>3. out = Numbered(r, g)
  BY DEF Took
<1>a. f.fragment = r.fragment
  BY FramingOfReader
<1> HIDE DEF out, f, g
<1>4. /\ out.entries \in Seq(Entry) /\ out.errors \in Nat
      /\ Texts(out.entries) = Texts(parsed.entries)
      /\ q \in Reader /\ q.next_line = parsed.next
      /\ q.pending = g.pending /\ q.fragment = g.fragment /\ q.continuation = g.continuation
      /\ q.carry = r.carry
  BY <1>1, <1>2, <1>3, NumberedGives
<1> HIDE DEF n, q
<1>5. /\ h \in Framings
      /\ Texts(parsed.entries) \in Seq(Plain) /\ parsed.next \in Nat \ {0}
      /\ Out(h, parsed.next) \in Seq(Plain)
      /\ Out(g, n) = Texts(parsed.entries) \o Out(h, parsed.next)
      /\ Line(g, n) = Line(h, parsed.next)
      /\ Coherent(g) => Coherent(h)
      /\ Bounded(g) => Bounded(h)
      /\ Open(g) = Open(h)
  BY <1>1, <1>2, <1>4, OutSplits
<1> HIDE DEF h
<1>6. ASSUME Framing = "inventory"
      PROVE  /\ Bounded(h)
             /\ Out(h, q.next_line) \in Seq(Plain)
             /\ Texts(out.entries) \o Out(h, q.next_line) = Out(f, n) \o Without(text, "n")
             /\ Line(h, q.next_line) = Line(f, n) + Newlines(text)
             /\ Open(h) <=> IF text = <<>> THEN Open(f) ELSE Unended(text)
  <2>1. g = process_inventory_text(f, text)
    BY <1>6 DEF FrameText, g
  <2>2. Bounded(f)
    BY <1>6 DEF ReaderOK, f
  <2>3. /\ Out(g, n) = Out(f, n) \o Without(text, "n")
        /\ Line(g, n) = Line(f, n) + Newlines(text)
        /\ Open(g) <=> IF text = <<>> THEN Open(f) ELSE Unended(text)
    BY <1>1, <2>1, <2>2, InventoryTextGives
  <2> HIDE DEF parsed
  <2>4. Bounded(h) /\ Out(h, q.next_line) \in Seq(Plain)
    BY <1>2, <1>4, <1>5, <1>6
  <2>5. Texts(out.entries) \o Out(h, q.next_line) = Out(f, n) \o Without(text, "n")
    BY <1>4, <1>5, <2>3
  <2>6. Line(h, q.next_line) = Line(f, n) + Newlines(text)
    BY <1>4, <1>5, <2>3
  <2>7. Open(h) <=> IF text = <<>> THEN Open(f) ELSE Unended(text)
    BY <1>5, <2>3, Zenon
  <2> QED BY <2>4, <2>5, <2>6, <2>7
<1>7. ASSUME Framing = "line"
      PROVE  /\ q.pending = None /\ ~q.continuation
             /\ Texts(out.entries) = FlattenSeq(Front(p))
             /\ q.next_line = n + Len(Front(p))
             /\ q.fragment = Last(p)
  <2>1. g = collect_complete_lines(f, text)
    BY <1>7 DEF FrameText, g
  <2> DEFINE v == f.fragment \o text
             o == collect_complete_lines(f, text)
  <2>2. /\ o.fragment = Last(Pieces(v))
        /\ Texts(parse_framed_records(o.done, n).entries) = FlattenSeq(Front(Pieces(v)))
        /\ parse_framed_records(o.done, n).next = n + Len(Front(Pieces(v)))
    BY <1>1, CompleteLinesGive
  <2>3. Pieces(v) = p /\ o = g
    BY <1>a, <2>1
  <2> HIDE DEF v, o
  <2>4. /\ g.fragment = Last(p)
        /\ Texts(parsed.entries) = FlattenSeq(Front(p))
        /\ parsed.next = n + Len(Front(p))
    BY <2>2, <2>3
  <2> HIDE DEF parsed, p
  <2> QED BY <1>2, <1>4, <1>7, <2>4
<1> HIDE DEF parsed
<1>8. Texts(out.entries) \in Seq(Plain) /\ Coherent(h)
  BY <1>2, <1>4, <1>5
<1> HIDE DEF p
<1>9. /\ out.entries \in Seq(Entry) /\ out.errors \in Nat
      /\ q \in Reader /\ q.carry = r.carry /\ h \in Framings
  BY <1>4, <1>5
<1> QED BY <1>6, <1>7, <1>8, <1>9 DEF out, f, n, q, h, p

\* The reader that frames what is read: at a reset it holds nothing back and starts at line 1.
ReadyFor(r, reset) ==
  IF reset = "none" THEN LeftBehind(r, reset).reader ELSE Restarted(LeftBehind(r, reset).reader)
NewIn(r, reset, bytes) == Took(ReadyFor(r, reset), decode(bytes))

LEMMA ReadyGives ==
  ASSUME NEW r, ReaderOK(r), NEW reset
  PROVE  /\ ReaderOK(ReadyFor(r, reset))
         /\ reset = "none" => ReadyFor(r, reset) = r
         /\ reset # "none" => Emptied(ReadyFor(r, reset)) /\ ReadyFor(r, reset).next_line = 1
<1>1. /\ ReaderOK(LeftBehind(r, reset).reader)
      /\ reset = "none" => LeftBehind(r, reset).reader = r
  BY LeftGives
<1>2. CASE reset = "none"
  BY <1>1, <1>2 DEF ReadyFor
<1>3. CASE reset # "none"
  <2> DEFINE q == LeftBehind(r, reset).reader
  <2>1. ReaderOK(q)
    BY <1>1
  <2> HIDE DEF q
  <2>2. /\ ReaderOK(Restarted(q)) /\ Emptied(Restarted(q)) /\ Restarted(q).next_line = 1
    BY <2>1, RestartedGives
  <2>3. ReadyFor(r, reset) = Restarted(q)
    BY <1>3 DEF ReadyFor, q
  <2> QED BY <1>3, <2>2, <2>3
<1> QED BY <1>2, <1>3

\* What is decoded holds no byte that is invalid by itself.
LEMMA ToDecodeValid ==
  ASSUME NEW r, ReaderOK(r), NEW reset, file.data \in Seq(Bytes), Decodes(ToDecode(r, reset))
  PROVE  ToDecode(r, reset) \in Seq(Valid)
<1> DEFINE bytes == ToDecode(r, reset)
           data == file.data
           more == SubSeq(data, r.byte_offset + 1, Len(data))
<1>1. r.carry \in Seq({"l"}) /\ r.byte_offset \in Nat
  BY ReaderParts, BoundsAssumption
<1>2. data \in Seq(Byte) /\ r.carry \in Seq(Byte)
  <2>1. Bytes \subseteq Byte /\ {"l"} \subseteq Byte
    BY BytesAssumption DEF Byte
  <2> QED BY <1>1, <2>1, SeqMonotonic
<1> HIDE DEF data
<1>3. more \in Seq(Byte)
  <2>1. Len(data) \in Nat
    BY <1>2, LenProperties
  <2>2. ASSUME NEW i \in (r.byte_offset + 1)..Len(data)
        PROVE  data[i] \in Byte
    BY <1>1, <1>2, <2>1, <2>2, ElementOfSeq
  <2> QED BY <1>1, <1>2, <2>1, <2>2, SubSeqProperties
<1>4. bytes \in Seq(Byte)
  <2>1. CASE reset = "none"
    <3>1. bytes = r.carry \o more
      BY <2>1 DEF ToDecode, data
    <3> QED BY <1>2, <1>3, <3>1, ConcatProperties
  <2>2. CASE reset # "none"
    BY <1>2, <2>2 DEF ToDecode, data
  <2> QED BY <2>1, <2>2
<1>5. \A i \in DOMAIN bytes : bytes[i] # "b"
  BY DEF Decodes
<1> HIDE DEF bytes
<1>6. DOMAIN bytes = 1..Len(bytes) /\ Len(bytes) \in Nat /\ \A i \in 1..Len(bytes) : bytes[i] \in Byte
  BY <1>4, LenProperties, ElementOfSeq
<1>7. \A i \in 1..Len(bytes) : bytes[i] \in Valid
  BY <1>5, <1>6 DEF Valid
<1>8. bytes = [i \in 1..Len(bytes) |-> bytes[i]]
  BY <1>4, LenProperties
<1>9. bytes \in [1..Len(bytes) -> Valid]
  BY <1>7, <1>8
<1> QED BY <1>6, <1>9, SeqDef DEF bytes

LEMMA CarryFits ==
  ASSUME NEW s
  PROVE  carry_of(s) \in Seq({"l"}) /\ Len(carry_of(s)) <= 1
<1>1. CASE Incomplete(s)
  <2>1. carry_of(s) = <<"l">>
    BY <1>1 DEF carry_of
  <2> QED BY <2>1
<1>2. CASE ~Incomplete(s)
  <2>1. carry_of(s) = <<>>
    BY <1>2 DEF carry_of
  <2>2. <<>> \in Seq({"l"}) /\ Len(<<>>) <= 1
    BY EmptySeq
  <2> QED BY <2>1, <2>2
<1> QED BY <1>1, <1>2

\* A successful read: its batch ends with the entries of what was framed.
LEMMA ReadGives ==
  ASSUME NEW r, ReaderOK(r), NEW identity \in 0..MaxGen,
         file.data \in Seq(Bytes), Len(file.data) \in 0..MaxLen,
         Decodes(ToDecode(r, observed_reset(r, identity)))
  PROVE  LET reset == observed_reset(r, identity)
             bytes == ToDecode(r, reset)
             left == LeftBehind(r, reset)
             new == NewIn(r, reset, bytes)
             out == read_new_entries(r, identity)
             q == out.reader
         IN /\ out.batch = [entries |-> left.entries \o new.entries,
                            errors |-> left.errors + new.errors, reset |-> reset # "none"]
            /\ left.entries \in Seq(Entry) /\ new.entries \in Seq(Entry)
            /\ left.errors \in Nat /\ new.errors \in Nat
            /\ ReaderOK(q)
            /\ q.byte_offset = Len(file.data) /\ q.carry = carry_of(bytes)
            /\ q.next_line = new.reader.next_line
            /\ FramingOf(q) = FramingOf(new.reader)
            /\ q.fragment = new.reader.fragment
<1> DEFINE reset == observed_reset(r, identity)
           bytes == ToDecode(r, reset)
           left == LeftBehind(r, reset)
           new == NewIn(r, reset, bytes)
           out == read_new_entries(r, identity)
           q == out.reader
           k == carry_of(bytes)
           m == Len(file.data)
           ready == ReadyFor(r, reset)
           read == ReadAs(reset, left, bytes)
           n == new.reader
<1>1. decode(bytes) \in Seq(Char)
  BY ToDecodeValid, DecodeGives
<1>2. ReaderOK(ready)
  BY ReadyGives
<1>3. left.entries \in Seq(Entry) /\ left.errors \in Nat
  BY LeftGives
<1>4. k \in Seq({"l"}) /\ Len(k) <= 1
  BY CarryFits
<1>5. read = Delivered(reset, left, new)
  BY DEF ReadAs, NewIn, ReadyFor
<1>6. out = [read EXCEPT !.reader.file_identity = identity, !.reader.pending_reset = "none",
                         !.reader.byte_offset = m, !.reader.carry = k]
  BY DEF read_new_entries
<1>7. new = Took(ready, decode(bytes))
  BY DEF NewIn
<1>8. m \in 0..MaxLen
  OBVIOUS
<1> HIDE DEF reset, bytes, left, new, out, k, m, ready, read
<1>9. /\ new.entries \in Seq(Entry) /\ new.errors \in Nat
      /\ n \in Reader /\ FramingOf(n) \in Framings /\ Coherent(FramingOf(n))
      /\ Framing = "inventory" => Bounded(FramingOf(n))
      /\ Framing = "line" => n.pending = None /\ ~n.continuation
  BY <1>1, <1>2, <1>7, TookGives
<1> HIDE DEF n
<1>10. /\ read.reader = n
       /\ read.batch = [entries |-> left.entries \o new.entries,
                        errors |-> left.errors + new.errors, reset |-> reset # "none"]
       /\ DOMAIN read = {"reader", "batch"}
  BY <1>5 DEF Delivered, n
<1>11. /\ q = [n EXCEPT !.file_identity = identity, !.pending_reset = "none", !.byte_offset = m,
                        !.carry = k]
       /\ out.batch = read.batch
  BY <1>6, <1>10
<1> HIDE DEF q
<1>12. /\ q \in Reader /\ q.carry = k /\ q.byte_offset = m /\ q.next_line = n.next_line
       /\ q.pending = n.pending /\ q.continuation = n.continuation /\ q.fragment = n.fragment
  <2>1. "none" \in PendingReset
    BY DEF PendingReset
  <2> QED BY <1>4, <1>8, <1>9, <1>11, <2>1 DEF Reader
<1>13. FramingOf(q) = FramingOf(n)
  BY <1>12 DEF FramingOf
<1>14. ReaderOK(q)
  BY <1>4, <1>9, <1>12, <1>13 DEF ReaderOK
<1> QED BY <1>3, <1>9, <1>10, <1>11, <1>12, <1>13, <1>14
        DEF reset, bytes, left, new, out, q, k, m, n

----------------------------------------------------------------------------
(* Opening a file *)

StartStep(context, g, line) == LineStart(g, line)
Starts == INSTANCE SequenceFolds WITH Op <- StartStep
LEMMA StartsInduction == Starts!Inductive
BY NaturalInduction DEF Starts!Inductive

LEMMA StartIsFold == \A g, lines : FoldLeft(LineStart, g, lines) = Starts!Fold(0, g, lines)
BY DEF FoldLeft, MapThenFoldSet, Max, StartStep,
       Starts!Fold, Starts!MapThenFoldSet, Starts!Last

LEMMA LinesParts ==
  ASSUME NEW s \in Seq(Char)
  PROVE  Lines(s) \in Seq(Seq(Plain)) /\ FlattenSeq(Lines(s)) = Without(s, "n")
<1> DEFINE p == Pieces(s)
<1>1. p \in Seq(Seq(Plain)) /\ p # <<>> /\ FlattenSeq(p) = Without(s, "n")
  BY PieceParts, PiecesFlatten
<1> HIDE DEF p
<1>2. Ended(p) \in Seq(Seq(Plain)) /\ FlattenSeq(Ended(p)) = FlattenSeq(p)
  BY <1>1, EndedFlatten
<1> QED BY <1>1, <1>2 DEF Lines, p

\* Lines framed one after the other: nothing of them is lost.
LEMMA StartsGive ==
  ASSUME NEW g \in Frames, NEW lines \in Seq(Seq(Plain)), NEW n \in Nat \ {0}
  PROVE  LET h == Starts!Fold(0, g, lines)
         IN h \in Frames /\ Told(h, n) = Told(g, n) \o FlattenSeq(lines)
<1> DEFINE S == {u \in Seq(Seq(Plain)) :
                   /\ Starts!Fold(0, g, u) \in Frames
                   /\ Told(Starts!Fold(0, g, u), n) = Told(g, n) \o FlattenSeq(u)}
           G == Told(g, n)
<1>1. \A h \in Frames, line \in Seq(Plain) :
        LineStart(h, line) \in Frames /\ Told(LineStart(h, line), n) = Told(h, n) \o line
  BY LineStartGives
<1>2. \A h \in Frames : Told(h, n) \in Seq(Plain)
  BY ToldType
<1>3. <<>> \in S
  <2>1. ASSUME NEW u, u = <<>>
        PROVE  u \in S
    <3>1. Starts!Fold(0, g, u) = g /\ FlattenSeq(u) = <<>> /\ u \in Seq(Seq(Plain))
      BY <2>1, StartsInduction, Starts!FoldEmpty, FlattenEmpty, EmptySeq
    <3>2. G \o <<>> = G
      BY <1>2, ConcatEmptySeq
    <3> QED BY <3>1, <3>2
  <2> QED BY <2>1
<1>4. ASSUME NEW u \in Seq(Seq(Plain)), NEW line \in Seq(Plain), u \in S
      PROVE  Append(u, line) \in S
  <2> DEFINE v == Append(u, line)
             h == Starts!Fold(0, g, u)
             F == FlattenSeq(u)
  <2>1. v \in Seq(Seq(Plain))
    BY AppendProperties
  <2>2. Starts!Fold(0, g, v) = LineStart(h, line)
    BY StartsInduction, Starts!FoldAppend DEF StartStep
  <2>3. FlattenSeq(v) = F \o line /\ F \in Seq(Plain)
    BY FlattenAppend, FlattenType
  <2>4. h \in Frames /\ Told(h, n) = G \o F
    BY <1>4
  <2>5. G \in Seq(Plain)
    BY <1>2
  <2> HIDE DEF v, h, F, G
  <2>6. LineStart(h, line) \in Frames /\ Told(LineStart(h, line), n) = Told(h, n) \o line
    BY <1>1, <2>4
  <2>7. (G \o F) \o line = G \o (F \o line)
    BY <2>3, <2>5, PlainAssociative, Zenon
  <2> QED BY <2>1, <2>2, <2>3, <2>4, <2>6, <2>7 DEF v, G
<1> HIDE DEF S
<1>5. Seq(Seq(Plain)) \subseteq S
  BY <1>3, <1>4, SequenceInduction
<1> QED BY <1>5 DEF S

\* The whole-file parse: its entries hold every character of the text but the newlines.
LEMMA ParseGives ==
  ASSUME NEW text \in Seq(Char)
  PROVE  /\ parse(text).entries \in Seq(Projected)
         /\ Texts(parse(text).entries) = Without(text, "n")
<1> DEFINE lines == Lines(text)
           g0 == Framed(None)
           e == <<>>
<1>1. lines \in Seq(Seq(Plain)) /\ FlattenSeq(lines) = Without(text, "n")
  BY LinesParts
<1>2. 1 \in Nat \ {0}
  OBVIOUS
<1>3. FlattenSeq(lines) \in Seq(Plain)
  BY <1>1, FlattenType
<1> HIDE DEF lines
<1>4. CASE Framing = "inventory"
  <2> DEFINE h == Starts!Fold(0, g0, lines)
             k == flush_pending(h)
  <2>1. g0 \in Frames /\ Told(g0, 1) = e
    <3>1. e \in Seq(Record) /\ None \in Pending
      BY EmptySeq DEF Pending
    <3>2. g0 \in Frames /\ g0.done = e /\ g0.pending = None
      BY <3>1 DEF Frames, Framed
    <3>3. parse_framed_records(e, 1) = [entries |-> <<>>, next |-> 1]
      BY ParseEmpty
    <3>4. Texts(<<>>) = <<>> /\ e \o e = e
      BY TextsEmpty, ConcatEmptySeq, EmptySeq
    <3>5. Told(g0, 1) = Texts(parse_framed_records(e, 1).entries) \o e
      BY <3>2 DEF Told
    <3> QED BY <3>2, <3>3, <3>4, <3>5
  <2>2. h \in Frames /\ Told(h, 1) = Told(g0, 1) \o FlattenSeq(lines)
    BY <1>1, <1>2, <2>1, StartsGive
  <2>3. parse(text) = ParseRecords(k.done)
    BY <1>4, StartIsFold DEF parse, parse_lines, lines
  <2> HIDE DEF g0, h, e
  <2>4. e \o FlattenSeq(lines) = FlattenSeq(lines)
    BY <1>3, ConcatEmptySeq DEF e
  <2>5. k \in Frames /\ k.pending = None /\ Told(k, 1) = Told(h, 1)
    BY <1>2, <2>2, FlushGives
  <2> HIDE DEF k
  <2>6. k.done \in Seq(Record)
    BY <2>5 DEF Frames
  <2>7. /\ Texts(parse_framed_records(k.done, 1).entries) \in Seq(Plain)
        /\ parse_framed_records(k.done, 1) \in [entries : Seq(Projected), next : Nat \ {0}]
    BY <1>2, <2>6, DoneTypes, ParseType
  <2>8. Told(k, 1) = Texts(parse_framed_records(k.done, 1).entries)
    <3>1. Told(k, 1) = Texts(parse_framed_records(k.done, 1).entries) \o <<>>
      BY <2>5 DEF Told
    <3> QED BY <2>7, <3>1, ConcatEmptySeq
  <2>9. parse(text).entries = parse_framed_records(k.done, 1).entries
    BY <2>3 DEF ParseRecords
  <2>10. Told(h, 1) = FlattenSeq(lines)
    BY <2>1, <2>2, <2>4
  <2>11. parse(text).entries \in Seq(Projected)
    BY <2>7, <2>9
  <2> QED BY <1>1, <2>5, <2>8, <2>9, <2>10, <2>11
<1>5. CASE Framing = "line"
  <2> DEFINE c == Completed(lines)
  <2>1. parse(text) = ParseRecords([i \in DOMAIN Lines(text) |-> complete(Lines(text)[i])])
    BY <1>5 DEF parse
  <2>2. parse(text).entries = parse_framed_records(c, 1).entries
    BY <2>1 DEF ParseRecords, Completed, lines
  <2>3. c \in Seq(Record) /\ Texts(parse_framed_records(c, 1).entries) = FlattenSeq(lines)
    BY <1>1, <1>2, CompletedGive
  <2> HIDE DEF c
  <2>4. parse_framed_records(c, 1) \in [entries : Seq(Projected), next : Nat \ {0}]
    BY <1>2, <2>3, ParseType
  <2> QED BY <1>1, <2>2, <2>3, <2>4
<1> QED BY <1>4, <1>5, FramingAssumption
=============================================================================
