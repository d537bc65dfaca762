---------------------------- MODULE SequenceFolds ----------------------------
(***************************************************************************)
(* What a fold over a sequence computes, for any operator: its value on    *)
(* the empty sequence, after one more element and over a concatenation,    *)
(* and the sets its values stay in.  FoldLeft is defined by a recursive    *)
(* function on sets of indices; the induction over the naturals that       *)
(* unfolds it is made with sets.  A module that uses a fold instantiates   *)
(* Op with the step of that fold; `context' is what the step uses besides. *)
(***************************************************************************)
EXTENDS Integers, Sequences, Folds, TLAPS

CONSTANT Op(_, _, _)

\* The greatest index of a set of them.
Last(T) == CHOOSE x \in T : \A y \in T : x >= y

\* FoldLeft of SequencesExt, with its definition written out: an instance of this module carries
\* only the modules that it needs.
Fold(context, base, s) ==
  MapThenFoldSet(LAMBDA x, value : Op(context, value, x), base,
                 LAMBDA i : s[i], LAMBDA T : Last(T), DOMAIN s)

\* Induction over the naturals.  It is a hypothesis of the theorems here and a theorem of the
\* module that instantiates this one: an instance carries no more than it needs.
Inductive == \A S : 0 \in S /\ (\A n \in Nat : n \in S => n + 1 \in S) => Nat \subseteq S

----------------------------------------------------------------------------
(* The sequences a fold goes along *)

LEMMA EmptyIs ==
  /\ Len(<<>>) = 0
  /\ \A A : <<>> \in Seq(A)
  /\ \A A : \A s \in Seq(A) : Len(s) = 0 => s = <<>>
OBVIOUS

LEMMA AppendIs ==
  ASSUME NEW A, NEW s \in Seq(A), NEW a \in A
  PROVE  /\ Append(s, a) \in Seq(A)
         /\ Len(s) \in Nat /\ Len(Append(s, a)) = Len(s) + 1
         /\ Append(s, a)[Len(s) + 1] = a
         /\ \A i \in 1..Len(s) : Append(s, a)[i] = s[i]
OBVIOUS

LEMMA AppendOrEmpty ==
  ASSUME NEW A, NEW s \in Seq(A), s # <<>>
  PROVE  \E t \in Seq(A), a \in A : s = Append(t, a)
<1> DEFINE n == Len(s)
           t == [i \in 1..(n - 1) |-> s[i]]
<1>1. n \in Nat /\ n # 0
  BY EmptyIs
<1>2. t \in Seq(A) /\ Len(t) = n - 1 /\ s[n] \in A
  BY <1>1
<1>3. Append(t, s[n]) \in Seq(A) /\ Len(Append(t, s[n])) = n
  BY <1>1, <1>2
<1>4. \A i \in 1..n : Append(t, s[n])[i] = s[i]
  BY <1>1, <1>2
<1>5. s = Append(t, s[n])
  <2> HIDE DEF t
  <2> DEFINE u == Append(t, s[n])
  <2>1. u \in Seq(A) /\ Len(u) = Len(s) /\ \A i \in 1..Len(s) : u[i] = s[i]
    BY <1>3, <1>4
  <2> HIDE DEF u
  <2>2. u = s
    BY <2>1
  <2> QED BY <2>2 DEF u
<1> QED BY <1>2, <1>5

LEMMA ConcatAppend ==
  ASSUME NEW A, NEW s \in Seq(A), NEW u \in Seq(A), NEW a \in A
  PROVE  s \o Append(u, a) = Append(s \o u, a) /\ s \o u \in Seq(A)
OBVIOUS

----------------------------------------------------------------------------
(* Induction *)

\* Induction over sequences: a set with <<>> that is closed under Append has all of them.
THEOREM SequenceInduction ==
  ASSUME Inductive, NEW A, NEW S, <<>> \in S, \A s \in Seq(A), a \in A : s \in S => Append(s, a) \in S
  PROVE  Seq(A) \subseteq S
<1> DEFINE N == {n \in Nat : \A s \in Seq(A) : Len(s) = n => s \in S}
<1>1. 0 \in N
  <2>1. \A s \in Seq(A) : Len(s) = 0 => s = <<>>
    BY EmptyIs
  <2> QED BY <2>1
<1>2. ASSUME NEW n \in N PROVE n + 1 \in N
  <2>1. ASSUME NEW s \in Seq(A), Len(s) = n + 1 PROVE s \in S
    <3>1. s # <<>> 
      BY <2>1, EmptyIs
    <3>2. PICK t \in Seq(A), a \in A : s = Append(t, a)
      BY <3>1, AppendOrEmpty
    <3>3. Len(t) = n
      BY <2>1, <3>2, AppendIs
    <3> QED BY <3>2, <3>3
  <2> QED BY <2>1
<1> HIDE DEF N
<1>3. Nat \subseteq N
  <2>1. \A n \in Nat : n \in N => n + 1 \in N
    BY <1>2
  <2> QED BY <1>1, <2>1 DEF Inductive
<1> QED BY <1>3 DEF N

----------------------------------------------------------------------------
(* The recursive function of a fold *)

\* The function on sets of indices that the definition of a fold of n elements chooses.
Iterates(it, context, base, n, s) ==
  it = [T \in SUBSET (1..n) |->
          IF T = {} THEN base ELSE Op(context, it[T \ {Last(T)}], s[Last(T)])]

LEMMA LastIsGreatest ==
  ASSUME NEW n \in Nat, NEW T \in SUBSET (1..(n + 1)), n + 1 \in T
  PROVE  Last(T) = n + 1
<1>1. n + 1 \in T /\ \A y \in T : n + 1 >= y
  OBVIOUS
<1>2. \A x \in T : (\A y \in T : x >= y) => x = n + 1
  OBVIOUS
<1> QED BY <1>1, <1>2 DEF Last

\* There is such a function for every number of elements.
LEMMA IteratesExists ==
  ASSUME Inductive, NEW context, NEW base, NEW s
  PROVE  \A n \in Nat : \E it : Iterates(it, context, base, n, s)
<1> DEFINE S == {n \in Nat : \E it : Iterates(it, context, base, n, s)}
<1>1. 0 \in S
  <2> DEFINE it == [T \in SUBSET (1..0) |-> base]
  <2>1. 1..0 = {}
    OBVIOUS
  <2>2. \A T \in SUBSET (1..0) : T = {}
    BY <2>1
  <2>3. Iterates(it, context, base, 0, s)
    BY <2>2 DEF Iterates
  <2> QED BY <2>3
<1>2. ASSUME NEW n \in Nat, n \in S PROVE n + 1 \in S
  <2>1. PICK f : Iterates(f, context, base, n, s)
    BY <1>2
  <2> DEFINE g == [T \in SUBSET (1..(n + 1)) |->
                     IF n + 1 \in T THEN Op(context, f[T \ {n + 1}], s[n + 1]) ELSE f[T]]
             h == [T \in SUBSET (1..(n + 1)) |->
                     IF T = {} THEN base ELSE Op(context, g[T \ {Last(T)}], s[Last(T)])]
  <2>2. ASSUME NEW T \in SUBSET (1..(n + 1)) PROVE g[T] = h[T]
    <3>1. CASE n + 1 \in T
      <4>1. Last(T) = n + 1
        BY <3>1, LastIsGreatest
      <4>2. T \ {n + 1} \in SUBSET (1..(n + 1)) /\ n + 1 \notin T \ {n + 1} /\ T # {}
        BY <3>1
      <4>3. g[T \ {n + 1}] = f[T \ {n + 1}]
        BY <4>2
      <4>4. g[T] = Op(context, f[T \ {n + 1}], s[n + 1])
        BY <3>1
      <4>5. h[T] = Op(context, g[T \ {n + 1}], s[n + 1])
        BY <4>1, <4>2
      <4> QED BY <4>3, <4>4, <4>5
    <3>2. CASE n + 1 \notin T
      <4>1. T \in SUBSET (1..n)
        BY <3>2
      <4>2. g[T] = f[T]
        BY <3>2
      <4>3. f[T] = IF T = {} THEN base ELSE Op(context, f[T \ {Last(T)}], s[Last(T)])
        BY <2>1, <4>1 DEF Iterates
      <4>4. T \ {Last(T)} \in SUBSET (1..(n + 1)) /\ n + 1 \notin T \ {Last(T)}
        BY <3>2
      <4>5. g[T \ {Last(T)}] = f[T \ {Last(T)}]
        BY <4>4
      <4>6. h[T] = IF T = {} THEN base ELSE Op(context, g[T \ {Last(T)}], s[Last(T)])
        OBVIOUS
      <4> QED BY <4>2, <4>3, <4>5, <4>6
    <3> QED BY <3>1, <3>2
  <2>3. g = h
    <3> HIDE DEF h
    <3>1. DOMAIN g = SUBSET (1..(n + 1)) /\ DOMAIN h = SUBSET (1..(n + 1))
      BY DEF h
    <3>2. h = [T \in SUBSET (1..(n + 1)) |-> h[T]]
      BY DEF h
    <3>3. g = [T \in SUBSET (1..(n + 1)) |-> g[T]]
      OBVIOUS
    <3> HIDE DEF g
    <3> QED BY <2>2, <3>2, <3>3
  <2>4. Iterates(g, context, base, n + 1, s)
    <3> HIDE DEF g
    <3> QED BY <2>3 DEF Iterates
  <2> QED BY <2>4
<1> HIDE DEF S
<1>3. Nat \subseteq S
  BY <1>1, <1>2 DEF Inductive
<1> QED BY <1>3 DEF S

\* On the first i indices such a function is determined by the elements there.
LEMMA IteratesBase ==
  ASSUME NEW it, NEW context, NEW base, NEW n \in Nat, NEW s, Iterates(it, context, base, n, s)
  PROVE  it[1..0] = base
<1>1. 1..0 = {} /\ {} \in SUBSET (1..n)
  OBVIOUS
<1> QED BY <1>1 DEF Iterates

LEMMA IteratesStep ==
  ASSUME NEW it, NEW context, NEW base, NEW n \in Nat, NEW s, Iterates(it, context, base, n, s),
         NEW i \in Nat, i + 1 <= n
  PROVE  it[1..(i + 1)] = Op(context, it[1..i], s[i + 1])
<1>1. 1..(i + 1) \in SUBSET (1..n) /\ 1..(i + 1) # {} /\ i + 1 \in 1..(i + 1)
  <2>1. i + 1 \in 1..(i + 1)
    OBVIOUS
  <2>2. \A j \in 1..(i + 1) : j \in 1..n
    OBVIOUS
  <2> QED BY <2>1, <2>2
<1>2. Last(1..(i + 1)) = i + 1
  BY LastIsGreatest, <1>1
<1>3. (1..(i + 1)) \ {i + 1} = 1..i
  OBVIOUS
<1> QED BY <1>1, <1>2, <1>3 DEF Iterates

LEMMA IteratesAgree ==
  ASSUME Inductive, NEW f, NEW g, NEW context, NEW base, NEW m \in Nat, NEW n \in Nat, NEW s, NEW t,
         Iterates(f, context, base, m, s), Iterates(g, context, base, n, t), m <= n,
         \A i \in 1..m : s[i] = t[i]
  PROVE  f[1..m] = g[1..m]
<1> DEFINE S == {i \in Nat : i <= m => f[1..i] = g[1..i]}
<1>1. 0 \in S
  <2>1. f[1..0] = base
    BY IteratesBase
  <2>2. g[1..0] = base
    BY IteratesBase
  <2> QED BY <2>1, <2>2
<1>2. ASSUME NEW i \in Nat, i \in S PROVE i + 1 \in S
  <2>1. SUFFICES ASSUME i + 1 <= m PROVE f[1..(i + 1)] = g[1..(i + 1)]
    OBVIOUS
  <2>2. f[1..i] = g[1..i] /\ s[i + 1] = t[i + 1] /\ i + 1 <= n
    BY <1>2, <2>1
  <2>3. f[1..(i + 1)] = Op(context, f[1..i], s[i + 1])
    BY <2>1, IteratesStep
  <2>4. g[1..(i + 1)] = Op(context, g[1..i], t[i + 1])
    BY <2>2, IteratesStep
  <2> QED BY <2>2, <2>3, <2>4
<1> HIDE DEF S
<1>3. Nat \subseteq S
  BY <1>1, <1>2 DEF Inductive
<1> QED BY <1>3 DEF S

LEMMA FoldIterates ==
  ASSUME Inductive, NEW context, NEW base, NEW A, NEW s \in Seq(A)
  PROVE  \E it : Iterates(it, context, base, Len(s), s) /\ Fold(context, base, s) = it[1..Len(s)]
<1> DEFINE chosen == CHOOSE it : Iterates(it, context, base, Len(s), s)
<1>1. DOMAIN s = 1..Len(s) /\ Len(s) \in Nat
  OBVIOUS
<1>2. \E it : Iterates(it, context, base, Len(s), s)
  BY <1>1, IteratesExists
<1>3. Iterates(chosen, context, base, Len(s), s)
  BY <1>2
<1>4. Fold(context, base, s) = chosen[1..Len(s)]
  BY <1>1 DEF Fold, MapThenFoldSet, Iterates
<1> HIDE DEF chosen
<1> QED BY <1>3, <1>4

----------------------------------------------------------------------------
(* What a fold computes *)

\* Over nothing a fold is its base.
THEOREM FoldEmpty ==
  ASSUME Inductive, NEW context, NEW base
  PROVE  Fold(context, base, <<>>) = base
<1>1. <<>> \in Seq({}) /\ Len(<<>>) = 0
  BY EmptyIs
<1>2. PICK it : Iterates(it, context, base, 0, <<>>) /\ Fold(context, base, <<>>) = it[1..0]
  BY <1>1, FoldIterates
<1> QED BY <1>2, IteratesBase

\* One more element is one more step.
THEOREM FoldAppend ==
  ASSUME Inductive, NEW context, NEW base, NEW A, NEW s \in Seq(A), NEW a \in A
  PROVE  Fold(context, base, Append(s, a)) = Op(context, Fold(context, base, s), a)
<1> DEFINE t == Append(s, a)
           n == Len(s)
<1>1. /\ t \in Seq(A) /\ n \in Nat /\ Len(t) = n + 1
      /\ t[n + 1] = a /\ \A i \in 1..n : s[i] = t[i]
  BY AppendIs
<1> HIDE DEF t
<1>2. PICK f : Iterates(f, context, base, n, s) /\ Fold(context, base, s) = f[1..n]
  BY FoldIterates
<1>3. PICK g : Iterates(g, context, base, n + 1, t) /\ Fold(context, base, t) = g[1..(n + 1)]
  BY <1>1, FoldIterates
<1>4. g[1..(n + 1)] = Op(context, g[1..n], t[n + 1])
  BY <1>1, <1>3, IteratesStep
<1>5. f[1..n] = g[1..n]
  BY <1>1, <1>2, <1>3, IteratesAgree
<1> QED BY <1>1, <1>2, <1>3, <1>4, <1>5 DEF t

\* A fold stays in a set that its step does not leave.
THEOREM FoldStays ==
  ASSUME Inductive, NEW context, NEW A, NEW T, NEW base \in T, NEW s \in Seq(A),
         \A value \in T, a \in A : Op(context, value, a) \in T
  PROVE  Fold(context, base, s) \in T
<1> DEFINE S == {u \in Seq(A) : Fold(context, base, u) \in T}
<1>1. <<>> \in S
  BY EmptyIs, FoldEmpty
<1>2. ASSUME NEW u \in Seq(A), NEW a \in A, u \in S PROVE Append(u, a) \in S
  <2>1. Fold(context, base, Append(u, a)) = Op(context, Fold(context, base, u), a)
    BY FoldAppend
  <2>2. Append(u, a) \in Seq(A)
    BY AppendIs
  <2> QED BY <1>2, <2>1, <2>2
<1> HIDE DEF S
<1>3. Seq(A) \subseteq S
  BY <1>1, <1>2, SequenceInduction
<1> QED BY <1>3 DEF S

\* The context matters only for what the step makes of the elements.
THEOREM FoldSame ==
  ASSUME Inductive, NEW c, NEW d, NEW base, NEW A, NEW s \in Seq(A),
         \A value : \A a \in A : Op(c, value, a) = Op(d, value, a)
  PROVE  Fold(c, base, s) = Fold(d, base, s)
<1> DEFINE S == {u \in Seq(A) : Fold(c, base, u) = Fold(d, base, u)}
<1>1. <<>> \in S
  BY EmptyIs, FoldEmpty
<1>2. ASSUME NEW u \in Seq(A), NEW a \in A, u \in S PROVE Append(u, a) \in S
  <2>1. Fold(c, base, Append(u, a)) = Op(c, Fold(c, base, u), a)
    BY FoldAppend
  <2>2. Fold(d, base, Append(u, a)) = Op(d, Fold(d, base, u), a)
    BY FoldAppend
  <2>3. Append(u, a) \in Seq(A)
    BY AppendIs
  <2> QED BY <1>2, <2>1, <2>2, <2>3
<1> HIDE DEF S
<1>3. Seq(A) \subseteq S
  BY <1>1, <1>2, SequenceInduction
<1> QED BY <1>3 DEF S
=============================================================================
